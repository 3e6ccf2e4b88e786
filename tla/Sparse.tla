------------------------------- MODULE Sparse -------------------------------
(***************************************************************************)
(* The streaming expander of Android sparse images in the bootloader       *)
(* (CustomUboot/cpu/omap4/sparse.c).  `fastboot flash' and `multiflash'    *)
(* hand it an image in sections of any size; a chunk header, or a sector   *)
(* of a raw chunk, may be cut by the end of a section, and the static      *)
(* variable `state' carries what is needed to resume.                      *)
(*                                                                         *)
(* A byte of the image is named by its offset in the image file, so the    *)
(* content of a sector is the file offset of its first byte when its 512   *)
(* bytes are consecutive bytes of the file, and Torn when they are not.    *)
(* One action is one step of _unsparse(): reading the file header, one     *)
(* call of _unsparse_process_chunk(), leaving the loop.                    *)
(***************************************************************************)
EXTENDS Integers, Sequences, FiniteSets

CONSTANTS
  Images,        \* the image files a host may send
  SectionSizes,  \* the sizes in which a host may cut an image
  PtnStart,      \* ptn->start: first sector of the partition
  ULongMod       \* 2^32 on this machine: unsigned int and unsigned long wrap here

SectorSize == 512
FileHdr    == 28    \* sizeof(sparse_header_t)
ChunkHdr   == 12    \* sizeof(chunk_header_t)
Torn       == -1

ChunkTypes == {"raw", "dont_care", "fill"}

(***************************************************************************)
(* An image: its file header (magic, compatible, blk_sz), its chunks, and  *)
(* its layout.  hdrAt[k] is the file offset of the header of chunk k and   *)
(* outAt[k] the offset in the expanded image where chunk k goes;           *)
(* hdrAt[n+1] is the end of the file and outAt[n+1] that of the expanded   *)
(* image.                                                                  *)
(***************************************************************************)
Chunk == [chunk_type : ChunkTypes, chunk_sz : Nat, total_sz : Nat]

NumChunks(img) == Len(img.chunks)
FileLen(img)   == img.hdrAt[NumChunks(img) + 1]
OutLen(img, k) == img.chunks[k].chunk_sz * img.blk_sz

\* What the code computes for OutLen: chunk_sz * block_size in 32 bits.
ChunkSize(chunk, blk) == (chunk.chunk_sz * blk) % ULongMod

ImageLayout(img) ==
  /\ img.magic \in BOOLEAN /\ img.compatible \in BOOLEAN
  /\ img.blk_sz \in Nat
  /\ img.chunks \in Seq(Chunk)
  /\ img.hdrAt \in [1 .. NumChunks(img) + 1 -> Nat]
  /\ img.outAt \in [1 .. NumChunks(img) + 1 -> Nat]
  /\ img.hdrAt[1] = FileHdr /\ img.outAt[1] = 0
  /\ \A k \in 1 .. NumChunks(img) :
       /\ img.hdrAt[k + 1] = img.hdrAt[k] + img.chunks[k].total_sz
       /\ img.outAt[k + 1] = img.outAt[k] + OutLen(img, k)
       /\ img.chunks[k].total_sz >= ChunkHdr
       /\ \A j \in 1 .. NumChunks(img) + 1 : k < j => img.hdrAt[k] + ChunkHdr <= img.hdrAt[j]

ASSUME ImagesAssumption  == \A img \in Images : ImageLayout(img)
ASSUME SectionAssumption == SectionSizes \subseteq Nat \ {0}
ASSUME PtnAssumption     == PtnStart \in Nat
ASSUME ULongAssumption   == ULongMod \in Nat \ {0}

\* The images the format describes (sparse_format.h), without fill chunks, in whole sectors.
FormatImage(img) ==
  /\ img.magic /\ img.compatible
  /\ NumChunks(img) > 0
  /\ \A k \in 1 .. NumChunks(img) :
       /\ OutLen(img, k) % SectorSize = 0
       /\ img.outAt[k] % SectorSize = 0
       /\ \/ /\ img.chunks[k].chunk_type = "raw"
             /\ img.chunks[k].total_sz = OutLen(img, k) + ChunkHdr
             /\ OutLen(img, k) > 0
          \/ /\ img.chunks[k].chunk_type = "dont_care"
             /\ img.chunks[k].total_sz = ChunkHdr

\* ... none of whose chunks expands to 4 GiB or more.
GoodImage(img) ==
  /\ FormatImage(img)
  /\ \A k \in 1 .. NumChunks(img) : ChunkSize(img.chunks[k], img.blk_sz) = OutLen(img, k)

-----------------------------------------------------------------------------
VARIABLES
  image,             \* the image the host is sending
  sent,              \* the bytes of it the host has sent
  source,            \* the argument *source, as a file offset
  remaining_chunks, chunk_offset, sector, last_header, block_size, data,
                     \* the static `state'
  written,           \* the sectors written since do_unsparse_start: sector -> content
  pc,                \* "idle", or where _unsparse() is: "header", "loop"; "failed"
  short,             \* history: a section before the last was shorter than a sector
  lost               \* history: the storage lost a sector it was given

st   == <<remaining_chunks, chunk_offset, sector, last_header, block_size, data>>
vars == <<image, sent, source, st, written, pc, short, lost>>

section_size == sent - source

HeaderBytes == 0 .. ChunkHdr - 1
NoSector    == [s \in {} |-> Torn]

\* Mutant: the sector is not reset.
DoUnsparseStartNoSector ==
  /\ remaining_chunks' = 0
  /\ chunk_offset' = 0
  /\ UNCHANGED <<sector, last_header, block_size, data>>

\* do_unsparse_start(): a new image for the partition; `data' and `last_header' keep what
\* an earlier image left in them.
DoUnsparseStart ==
  /\ remaining_chunks' = 0
  /\ chunk_offset' = 0
  /\ sector' = PtnStart
  /\ UNCHANGED <<last_header, block_size, data>>

\* The host starts over, with any image, after a failure or when it likes.
Start ==
  /\ pc \in {"idle", "failed"}
  /\ DoUnsparseStart
  /\ image' \in Images
  /\ sent' = 0 /\ source' = 0
  /\ written' = NoSector
  /\ pc' = "idle"
  /\ short' = FALSE /\ lost' = FALSE

\* do_unsparse_process(): the host hands over the next n bytes of the image.
Section(n) ==
  /\ pc = "idle"
  /\ n > 0 /\ sent + n <= FileLen(image)
  /\ sent' = sent + n
  /\ source' = sent
  /\ pc' = IF remaining_chunks = 0 THEN "header" ELSE "loop"
  /\ short' = (short \/ (n < SectorSize /\ sent + n < FileLen(image)))
  /\ UNCHANGED <<image, st, written, lost>>

\* _unsparse_read_header(): only the bytes at offset 0 of the file are a file header.
HeaderOK ==
  /\ FileHdr <= section_size
  /\ source = 0
  /\ image.magic
  /\ image.compatible

\* Mutant: off by one in the number of chunks.
ReadHeaderOneLess ==
  /\ pc = "header"
  /\ HeaderOK
  /\ source' = source + FileHdr
  /\ remaining_chunks' = NumChunks(image) - 1
  /\ chunk_offset' = 0
  /\ block_size' = image.blk_sz
  /\ pc' = "loop"
  /\ UNCHANGED <<image, sent, sector, last_header, data, written, short, lost>>

ReadHeader ==
  /\ pc = "header"
  /\ HeaderOK
  /\ source' = source + FileHdr
  /\ remaining_chunks' = NumChunks(image)
  /\ chunk_offset' = 0
  /\ block_size' = image.blk_sz
  /\ pc' = "loop"
  /\ UNCHANGED <<image, sent, sector, last_header, data, written, short, lost>>

BadHeader ==
  /\ pc = "header"
  /\ ~HeaderOK
  /\ pc' = "failed"
  /\ UNCHANGED <<image, sent, source, st, written, short, lost>>

-----------------------------------------------------------------------------
(***************************************************************************)
(* _unsparse_process_chunk().  First the missing bytes of the chunk header *)
(* are copied; hdr, off, src and left are last_header, chunk_offset,       *)
(* *source and *section_size after that copy.                              *)
(***************************************************************************)
hdr_missing == IF chunk_offset < ChunkHdr THEN ChunkHdr - chunk_offset ELSE 0
hdr_got     == IF section_size > hdr_missing THEN hdr_missing ELSE section_size
hdr         == [i \in HeaderBytes |->
                  IF chunk_offset <= i /\ i < chunk_offset + hdr_got
                  THEN source + (i - chunk_offset) ELSE last_header[i]]
off         == chunk_offset + hdr_got
src         == source + hdr_got
left        == sent - src

\* The chunk whose header the bytes h are; other bytes are no header.
IsHeader(h, k) == \A i \in HeaderBytes : h[i] = image.hdrAt[k] + i

InLoop == pc = "loop" /\ remaining_chunks > 0 /\ section_size > 0

\* The section ends inside the chunk header, or right after the header of a raw chunk.
HeaderCut ==
  /\ InLoop
  /\ \/ off < ChunkHdr
     \/ /\ off = ChunkHdr /\ left = 0
        /\ \E k \in 1 .. NumChunks(image) :
             IsHeader(hdr, k) /\ image.chunks[k].chunk_type = "raw"
  /\ last_header' = hdr
  /\ chunk_offset' = off
  /\ source' = src
  /\ UNCHANGED <<image, sent, remaining_chunks, sector, block_size, data, written, pc, short, lost>>

\* The quantities _unsparse_process_chunk() computes for a raw chunk c.
chunk_cur_size    == off - ChunkHdr
ChunkRemSize(c)   == ChunkSize(c, block_size) - chunk_cur_size
ChunkEnd(c)       == left >= ChunkRemSize(c)
ChunkAvlSize(c)   == IF ChunkEnd(c) THEN ChunkRemSize(c) ELSE left
prev_rem_data     == chunk_cur_size % SectorSize
missing_bytes     == IF prev_rem_data # 0 THEN SectorSize - prev_rem_data ELSE 0
CopySectors(c)    == (ChunkAvlSize(c) - missing_bytes) \div SectorSize
RemDataWhole(c)   == ChunkAvlSize(c) - missing_bytes   \* mutant: whole sectors kept as well
RemData(c)        == (ChunkAvlSize(c) - missing_bytes) % SectorSize

\* Mutant: a section that exactly completes the cut sector is refused.
RawOKStrict(c) ==
  /\ c.total_sz = ChunkSize(c, block_size) + ChunkHdr
  /\ missing_bytes = 0 \/ ChunkAvlSize(c) > missing_bytes

RawOK(c) ==
  /\ c.total_sz = ChunkSize(c, block_size) + ChunkHdr
  /\ ChunkAvlSize(c) >= missing_bytes

\* The sector completed from state.data, and the first sector of the bulk copy.
Joined     == IF missing_bytes > 0 THEN 1 ELSE 0
JoinedData == IF data.len = prev_rem_data /\ data.from + data.len = src THEN data.from ELSE Torn

RawChunk ==
  /\ InLoop /\ off >= ChunkHdr /\ left > 0
  /\ \E k \in 1 .. NumChunks(image) :
       LET c     == image.chunks[k]
           bulk  == src + missing_bytes
           first == sector + Joined
       IN  /\ IsHeader(hdr, k) /\ c.chunk_type = "raw" /\ RawOK(c)
           \* WRITE, twice: a storage error leaves a prefix of the sectors written; the
           \* result is not looked at.
           /\ \E j \in 0 .. Joined, m \in 0 .. CopySectors(c) :
             /\ lost' = (lost \/ j < Joined \/ m < CopySectors(c))
             /\ written' = [s \in DOMAIN written \cup sector .. sector + j - 1
                                                 \cup first .. first + m - 1 |->
                              IF s \in first .. first + m - 1
                              THEN bulk + SectorSize * (s - first)
                              ELSE IF s \in sector .. sector + j - 1 THEN JoinedData
                              ELSE written[s]]
           /\ sector' = first + CopySectors(c)
           /\ data' = IF RemData(c) > 0
                      THEN [from |-> bulk + SectorSize * CopySectors(c), len |-> RemData(c)]
                      ELSE [data EXCEPT !.len = IF missing_bytes > 0 THEN SectorSize ELSE @]
           /\ source' = src + ChunkAvlSize(c)
           /\ chunk_offset' = IF ChunkEnd(c) THEN 0 ELSE off + ChunkAvlSize(c)
           /\ remaining_chunks' = remaining_chunks - (IF ChunkEnd(c) THEN 1 ELSE 0)
  /\ last_header' = hdr
  /\ UNCHANGED <<image, sent, block_size, pc, short>>

DontCare ==
  /\ InLoop /\ off >= ChunkHdr
  /\ \E k \in 1 .. NumChunks(image) :
       LET c == image.chunks[k]
       IN  /\ IsHeader(hdr, k) /\ c.chunk_type = "dont_care" /\ c.total_sz = ChunkHdr
           /\ sector' = sector + ChunkSize(c, block_size) \div SectorSize
  /\ last_header' = hdr
  /\ chunk_offset' = 0
  /\ remaining_chunks' = remaining_chunks - 1
  /\ source' = src
  /\ UNCHANGED <<image, sent, block_size, data, written, pc, short, lost>>

\* A bad size, an unknown chunk type, or too few bytes to complete a cut sector.
Acceptable(k) ==
  LET c == image.chunks[k]
  IN  /\ IsHeader(hdr, k)
      /\ \/ c.chunk_type = "raw" /\ (left = 0 \/ RawOK(c))
         \/ c.chunk_type = "dont_care" /\ c.total_sz = ChunkHdr

BadChunk ==
  /\ InLoop /\ off >= ChunkHdr
  /\ ~ \E k \in 1 .. NumChunks(image) : Acceptable(k)
  /\ last_header' = hdr
  /\ chunk_offset' = off
  /\ source' = src
  /\ pc' = "failed"
  /\ UNCHANGED <<image, sent, remaining_chunks, sector, block_size, data, written, short, lost>>

\* Mutant: the end of the section does not end the loop.
LoopExitChunksOnly ==
  /\ pc = "loop"
  /\ remaining_chunks = 0 \/ section_size = 0
  /\ pc' = IF remaining_chunks = 0 THEN "idle" ELSE "loop"
  /\ UNCHANGED <<image, sent, source, st, written, short, lost>>

LoopExit ==
  /\ pc = "loop"
  /\ remaining_chunks = 0 \/ section_size = 0
  /\ pc' = "idle"
  /\ UNCHANGED <<image, sent, source, st, written, short, lost>>

-----------------------------------------------------------------------------
Init ==
  /\ image \in Images
  /\ sent = 0 /\ source = 0
  /\ remaining_chunks = 0 /\ chunk_offset = 0 /\ sector = PtnStart
  /\ last_header = [i \in HeaderBytes |-> Torn]
  /\ block_size = 0
  /\ data = [from |-> 0, len |-> 0]
  /\ written = NoSector
  /\ pc = "idle"
  /\ short = FALSE /\ lost = FALSE

Unsparse == ReadHeader \/ BadHeader \/ HeaderCut \/ RawChunk \/ DontCare \/ BadChunk \/ LoopExit

\* A cut, or the rest of the file.
Sections == SectionSizes \cup {FileLen(image) - sent}

Next == Start \/ (\E n \in Sections : Section(n)) \/ Unsparse

Spec == Init /\ [][Next]_vars

\* A call of do_unsparse_process() runs to its end; the host need not send anything.
FairSpec == Spec /\ WF_vars(Unsparse)

-----------------------------------------------------------------------------
(***************************************************************************)
(* Properties.                                                             *)
(***************************************************************************)

\* Every variable of sparse.c keeps its type.
TypeOK ==
  /\ image \in Images
  /\ sent \in Nat /\ source \in Nat
  /\ remaining_chunks \in Nat /\ chunk_offset \in Nat /\ sector \in Nat
  /\ last_header \in [HeaderBytes -> Int]
  /\ block_size \in Nat
  /\ data \in [from : Nat, len : 0 .. SectorSize]
  /\ DOMAIN written \subseteq Nat
  /\ \A s \in DOMAIN written : written[s] \in Int
  /\ pc \in {"idle", "header", "loop", "failed"}
  /\ short \in BOOLEAN /\ lost \in BOOLEAN

\* The sector, and the content, that the format prescribes for sector j of raw chunk k.
RawSectors(img, k) == 0 .. (OutLen(img, k) \div SectorSize) - 1
Target(img, k, j)  == PtnStart + (img.outAt[k] \div SectorSize) + j
Content(img, k, j) == img.hdrAt[k] + ChunkHdr + SectorSize * j
IsRaw(img, k)      == img.chunks[k].chunk_type = "raw"

PlacedRight ==
  \A s \in DOMAIN written :
    \E k \in 1 .. NumChunks(image) :
      /\ IsRaw(image, k)
      /\ \E j \in RawSectors(image, k) :
           s = Target(image, k, j) /\ written[s] = Content(image, k, j)

\* However a good image is cut into sections, _unsparse_process_chunk() only ever writes a
\* sector of a raw chunk, whole and untorn, where the format says it goes.
WrittenRight == GoodImage(image) => PlacedRight

AllWritten ==
  \A k \in 1 .. NumChunks(image) :
    IsRaw(image, k) => \A j \in RawSectors(image, k) : Target(image, k, j) \in DOMAIN written

\* When the last byte of a good image has been accepted, every sector of every raw chunk is
\* on the storage (with WrittenRight: the partition holds exactly the expanded image).
Complete ==
  (GoodImage(image) /\ ~lost /\ pc = "idle" /\ sent = FileLen(image))
    => /\ remaining_chunks = 0
       /\ AllWritten

\* A good image is refused only when some section but the last was shorter than a sector
\* ("buffer is too small", "1st chunk is smaller than the header").
OnlyShortFails == (GoodImage(image) /\ pc = "failed") => short

\* The loop of _unsparse() ends for every section.
SectionEnds == pc \in {"header", "loop"} ~> pc \in {"idle", "failed"}

-----------------------------------------------------------------------------
(***************************************************************************)
(* The inductive invariant behind WrittenRight, Complete and               *)
(* OnlyShortFails: where the static state stands in the image.             *)
(***************************************************************************)
cur_chunk == NumChunks(image) - remaining_chunks + 1
cur_size  == IF chunk_offset < ChunkHdr THEN 0 ELSE chunk_offset - ChunkHdr

\* No byte of the image has been processed.
Fresh ==
  /\ source = 0
  /\ remaining_chunks = 0 /\ chunk_offset = 0 /\ sector = PtnStart
  /\ written = NoSector

\* chunk_offset bytes of chunk cur_chunk, and all chunks before it, have been processed.
Position ==
  /\ remaining_chunks <= NumChunks(image)
  /\ source = image.hdrAt[cur_chunk] + chunk_offset
  /\ block_size = image.blk_sz
  /\ remaining_chunks = 0 => chunk_offset = 0
  /\ \A i \in HeaderBytes : i < chunk_offset => last_header[i] = image.hdrAt[cur_chunk] + i
  /\ chunk_offset >= ChunkHdr => IsRaw(image, cur_chunk)
  /\ chunk_offset > ChunkHdr =>
       LET c == image.chunks[cur_chunk]
       IN  c.total_sz = ChunkSize(c, block_size) + ChunkHdr /\ chunk_offset < c.total_sz

Placement ==
  GoodImage(image) =>
    /\ sector = Target(image, cur_chunk, 0) + (cur_size \div SectorSize)
    /\ cur_size % SectorSize # 0 =>
         /\ data.len = cur_size % SectorSize
         /\ data.from = image.hdrAt[cur_chunk] + ChunkHdr + (cur_size - data.len)

Progress ==
  (GoodImage(image) /\ ~lost) =>
    \A k \in 1 .. NumChunks(image) : IsRaw(image, k) =>
      \A j \in RawSectors(image, k) :
        (k < cur_chunk \/ (k = cur_chunk /\ j < cur_size \div SectorSize))
          => Target(image, k, j) \in DOMAIN written

\* A section that starts inside a sector and does not complete it was a short one.
ShortSection ==
  (sent < FileLen(image) /\ sent - source < SectorSize) =>
    \/ short
    \/ pc = "idle"
    \/ pc = "loop" /\ (cur_size % SectorSize = 0 \/ source = sent)

IInv ==
  /\ TypeOK
  /\ source <= sent /\ sent <= FileLen(image)
  /\ pc = "idle" => source = sent
  /\ pc = "header" \/ (pc = "idle" /\ sent = 0) => Fresh
  /\ pc = "loop" \/ (pc = "idle" /\ sent # 0) => Position /\ Placement /\ Progress
  /\ pc # "failed" => ShortSection
  /\ WrittenRight
  /\ OnlyShortFails
=============================================================================
