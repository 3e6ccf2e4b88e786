---------------------------- MODULE SparseProofs ----------------------------
(***************************************************************************)
(* Proofs about Sparse for every set of images, every way of cutting them  *)
(* into sections and every sequence of restarts.                           *)
(***************************************************************************)
EXTENDS Sparse, TLAPS

\* Arithmetic of products and remainders.
LEMMA ProductNat == ASSUME NEW a \in Nat, NEW b \in Nat PROVE a * b \in Nat
  OBVIOUS

LEMMA ModNat == ASSUME NEW a \in Nat, NEW m \in Nat \ {0} PROVE a % m \in Nat
  OBVIOUS

\* Cutting a length into whole sectors.
LEMMA SectorSplit ==
  ASSUME NEW x \in Nat
  PROVE  /\ x \div SectorSize \in Nat
         /\ x % SectorSize \in 0 .. SectorSize - 1
         /\ x = SectorSize * (x \div SectorSize) + (x % SectorSize)
  BY DEF SectorSize

LEMMA SectorAdd ==
  ASSUME NEW x \in Nat, NEW y \in Nat, x % SectorSize = 0
  PROVE  (x + y) \div SectorSize = (x \div SectorSize) + (y \div SectorSize)
  BY DEF SectorSize

LEMMA SectorJoin ==
  ASSUME NEW q \in Nat, NEW r \in 0 .. SectorSize - 1
  PROVE  /\ (SectorSize * q + r) \div SectorSize = q
         /\ (SectorSize * q + r) % SectorSize = r
  BY DEF SectorSize

\* What ImageLayout gives about an image and its chunks.
LEMMA ImageType ==
  ASSUME NEW img \in Images
  PROVE  /\ img.magic \in BOOLEAN /\ img.compatible \in BOOLEAN
         /\ NumChunks(img) \in Nat
         /\ img.blk_sz \in Nat
         /\ FileLen(img) \in Nat
         /\ img.hdrAt[1] = FileHdr /\ img.outAt[1] = 0
         /\ \A k \in 1 .. NumChunks(img) + 1 : img.hdrAt[k] \in Nat /\ img.outAt[k] \in Nat
  <1>1. ImageLayout(img)
    BY ImagesAssumption
  <1>2. NumChunks(img) \in Nat
    BY <1>1 DEF ImageLayout, NumChunks
  <1>3. NumChunks(img) + 1 \in 1 .. NumChunks(img) + 1
    BY <1>2
  <1> QED
    BY <1>1, <1>2, <1>3 DEF ImageLayout, FileLen

LEMMA ChunkType ==
  ASSUME NEW img \in Images, NEW k \in 1 .. NumChunks(img)
  PROVE  /\ img.chunks[k].chunk_type \in ChunkTypes
         /\ img.chunks[k].chunk_sz \in Nat
         /\ img.chunks[k].total_sz \in Nat
         /\ img.chunks[k].total_sz >= ChunkHdr
         /\ OutLen(img, k) \in Nat
         /\ ChunkSize(img.chunks[k], img.blk_sz) \in Nat
         /\ img.hdrAt[k + 1] = img.hdrAt[k] + img.chunks[k].total_sz
         /\ img.outAt[k + 1] = img.outAt[k] + OutLen(img, k)
         /\ \A j \in 1 .. NumChunks(img) + 1 : k < j => img.hdrAt[k] + ChunkHdr <= img.hdrAt[j]
  <1>1. ImageLayout(img)
    BY ImagesAssumption
  <1>2. img.chunks[k] \in Chunk
    BY <1>1 DEF ImageLayout, NumChunks
  <1>3. img.chunks[k].chunk_sz \in Nat /\ img.blk_sz \in Nat
    BY <1>1, <1>2 DEF ImageLayout, Chunk
  <1>4. img.chunks[k].chunk_sz * img.blk_sz \in Nat
    BY <1>3, ProductNat
  <1>5. (img.chunks[k].chunk_sz * img.blk_sz) % ULongMod \in Nat
    BY <1>4, ULongAssumption, ModNat
  <1> QED
    BY <1>1, <1>2, <1>3, <1>4, <1>5 DEF ImageLayout, Chunk, OutLen, ChunkSize

-----------------------------------------------------------------------------
(***************************************************************************)
(* IInv holds initially, and each action preserves it.                     *)
(***************************************************************************)
LEMMA InitIInv == Init => IInv
  <1> SUFFICES ASSUME Init PROVE IInv
    OBVIOUS
  <1>1. TypeOK
    <2>1. last_header \in [HeaderBytes -> Int]
      BY DEF Init, Torn
    <2>2. data \in [from : Nat, len : 0 .. SectorSize]
      BY DEF Init, SectorSize
    <2> QED
      BY <2>1, <2>2, PtnAssumption DEF Init, TypeOK, NoSector
  <1>2. Fresh
    BY DEF Init, Fresh
  <1>3. FileLen(image) \in Nat
    BY ImageType DEF Init
  <1>4. WrittenRight /\ OnlyShortFails /\ ShortSection
    BY DEF Init, WrittenRight, PlacedRight, OnlyShortFails, ShortSection, NoSector
  <1> QED
    BY <1>1, <1>2, <1>3, <1>4 DEF Init, IInv

LEMMA StartIInv == ASSUME IInv, Start PROVE IInv'
  <1>1. TypeOK'
    BY PtnAssumption DEF IInv, Start, DoUnsparseStart, TypeOK, NoSector
  <1>2. Fresh'
    BY DEF Start, DoUnsparseStart, Fresh
  <1>3. FileLen(image') \in Nat
    BY ImageType DEF Start
  <1>4. WrittenRight' /\ OnlyShortFails' /\ ShortSection'
    BY DEF Start, WrittenRight, PlacedRight, OnlyShortFails, ShortSection, NoSector
  <1> QED
    BY <1>1, <1>2, <1>3, <1>4 DEF Start, IInv, FileLen, NumChunks

LEMMA SectionIInv == ASSUME IInv, NEW n \in Sections, Section(n) PROVE IInv'
  <1>1. /\ image \in Images /\ FileLen(image) \in Nat /\ n \in Nat /\ n > 0
        /\ sent \in Nat /\ source = sent
    BY ImageType, SectionAssumption DEF IInv, Section, Sections, TypeOK
  <1>2. TypeOK'
    BY <1>1 DEF IInv, Section, TypeOK, st
  <1>3. sent' \in Nat /\ source' = sent /\ source' <= sent' /\ sent' <= FileLen(image)' /\ sent' # 0
    BY <1>1 DEF Section, FileLen, NumChunks
  <1>4. pc' = "header" => Fresh'
    <2>1. SUFFICES ASSUME pc' = "header" PROVE Fresh'
      OBVIOUS
    <2>2. remaining_chunks = 0
      BY <2>1 DEF Section
    <2>3. CASE sent = 0
      BY <2>3 DEF IInv, Section, Fresh, st
    <2>4. CASE sent # 0
      <3>1. Position
        BY <2>4 DEF IInv, Section
      <3>2. source = FileLen(image)
        BY <3>1, <2>2, <1>1, ImageType DEF Position, cur_chunk, FileLen
      <3> QED
        BY <3>2, <1>1, <1>3 DEF Section
    <2> QED
      BY <2>3, <2>4
  <1>5. pc' = "loop" => Position' /\ Placement' /\ Progress'
    <2>1. SUFFICES ASSUME pc' = "loop" PROVE Position' /\ Placement' /\ Progress'
      OBVIOUS
    <2>2. remaining_chunks # 0
      BY <2>1 DEF Section
    <2>3. Position /\ Placement /\ Progress
      BY <2>2 DEF IInv, Section, Fresh
    <2>4. UNCHANGED <<image, remaining_chunks, chunk_offset, sector, last_header, block_size,
                      data, written, lost>> /\ source' = source
      BY <1>1 DEF Section, st
    <2> QED
      BY <2>3, <2>4 DEF Position, Placement, Progress, cur_chunk, cur_size
  <1>6. ShortSection'
    <2> SUFFICES ASSUME sent' < FileLen(image'), sent' - source' < SectorSize
                 PROVE  short'
      BY DEF ShortSection
    <2>1. n < SectorSize /\ sent + n < FileLen(image)
      BY <1>1 DEF Section, SectorSize
    <2> QED
      BY <2>1, Zenon DEF Section
  <1>7. WrittenRight' /\ OnlyShortFails'
    BY DEF IInv, Section, WrittenRight, PlacedRight, OnlyShortFails
  <1>8. pc' \in {"header", "loop"}
    BY DEF Section
  <1> QED
    BY <1>2, <1>3, <1>4, <1>5, <1>6, <1>7, <1>8 DEF IInv

LEMMA ReadHeaderIInv == ASSUME IInv, ReadHeader PROVE IInv'
  <1>1. /\ image \in Images /\ NumChunks(image) \in Nat /\ image.hdrAt[1] = FileHdr
        /\ image.outAt[1] = 0 /\ image.blk_sz \in Nat /\ Fresh
        /\ source = 0 /\ sent \in Nat /\ FileHdr <= sent
    BY ImageType DEF IInv, TypeOK, ReadHeader, HeaderOK, section_size
  <1>2. TypeOK'
    BY <1>1 DEF IInv, TypeOK, ReadHeader, FileHdr
  <1>3. cur_chunk' = 1 /\ cur_size' = 0 /\ sector' = PtnStart
    BY <1>1 DEF ReadHeader, cur_chunk, cur_size, NumChunks, ChunkHdr, Fresh
  <1>4. Position'
    BY <1>1, <1>3 DEF ReadHeader, Position, NumChunks, HeaderBytes, ChunkHdr, FileHdr
  <1>5. Placement'
    BY <1>1, <1>3, PtnAssumption DEF ReadHeader, Placement, Target, SectorSize
  <1>6. Progress'
    BY <1>1, <1>3 DEF ReadHeader, Progress, RawSectors, SectorSize
  <1>7. ShortSection'
    BY <1>3 DEF ReadHeader, ShortSection, SectorSize
  <1>8. WrittenRight' /\ OnlyShortFails'
    BY DEF IInv, ReadHeader, WrittenRight, PlacedRight, OnlyShortFails
  <1> QED
    BY <1>1, <1>2, <1>4, <1>5, <1>6, <1>7, <1>8 DEF IInv, ReadHeader, FileLen, NumChunks, FileHdr

LEMMA BadHeaderIInv == ASSUME IInv, BadHeader PROVE IInv'
  <1>1. TypeOK'
    BY DEF IInv, BadHeader, TypeOK, st
  <1>2. WrittenRight'
    BY DEF IInv, BadHeader, WrittenRight, PlacedRight
  <1>3. OnlyShortFails'
    <2> SUFFICES ASSUME GoodImage(image) PROVE short
      BY DEF OnlyShortFails, BadHeader
    <2>1. image \in Images /\ NumChunks(image) \in Nat /\ NumChunks(image) > 0 /\ sent \in Nat
      BY ImageType DEF IInv, TypeOK, GoodImage, FormatImage
    <2>2. FileHdr + ChunkHdr <= FileLen(image)
      BY <2>1, ImageType, ChunkType DEF FileLen
    <2>3. source = 0 /\ sent < FileHdr
      BY <2>1 DEF IInv, BadHeader, Fresh, HeaderOK, section_size, GoodImage, FormatImage, FileHdr
    <2>4. sent < FileLen(image) /\ sent - source < SectorSize
      BY <2>1, <2>2, <2>3, ImageType DEF FileHdr, ChunkHdr, SectorSize
    <2>5. pc = "header" /\ pc # "failed" /\ pc # "idle" /\ pc # "loop"
      BY DEF BadHeader
    <2> QED
      BY <2>4, <2>5, Zenon DEF IInv, ShortSection
  <1> QED
    BY <1>1, <1>2, <1>3 DEF IInv, BadHeader, FileLen, NumChunks

LEMMA LoopExitIInv == ASSUME IInv, LoopExit PROVE IInv'
  <1>1. Position /\ Placement /\ Progress /\ image \in Images /\ sent \in Nat /\ source \in Nat
    BY DEF IInv, LoopExit, TypeOK
  <1>2. source = sent
    <2>1. CASE remaining_chunks = 0
      BY <2>1, <1>1, ImageType DEF IInv, Position, cur_chunk, FileLen
    <2>2. CASE section_size = 0
      BY <2>2, <1>1 DEF section_size
    <2> QED
      BY <2>1, <2>2 DEF LoopExit
  <1>3. sent # 0
    <2>1. image.hdrAt[cur_chunk] # 0
      BY <1>1, ImageType, ChunkType DEF IInv, TypeOK, Position, cur_chunk, FileHdr, ChunkHdr
    <2> QED
      BY <1>1, <1>2, <2>1, ImageType DEF IInv, TypeOK, Position, cur_chunk
  <1>4. TypeOK'
    BY DEF IInv, LoopExit, TypeOK, st
  <1>5. Position' /\ Placement' /\ Progress'
    BY <1>1 DEF LoopExit, Position, Placement, Progress, cur_chunk, cur_size, st
  <1> QED
    BY <1>2, <1>3, <1>4, <1>5 DEF IInv, LoopExit, ShortSection, WrittenRight, PlacedRight, OnlyShortFails,
                                  FileLen, NumChunks, st
-----------------------------------------------------------------------------
(***************************************************************************)
(* One call of _unsparse_process_chunk().  The header bytes in hand are    *)
(* those of chunk cur_chunk, and of no other chunk.                        *)
(***************************************************************************)
LEMMA LoopFacts ==
  ASSUME IInv, InLoop
  PROVE  /\ image \in Images /\ NumChunks(image) \in Nat
         /\ cur_chunk \in 1 .. NumChunks(image)
         /\ Position /\ Placement /\ Progress /\ ShortSection
         /\ sent \in Nat /\ source \in Nat /\ chunk_offset \in Nat /\ source < sent
         /\ image.hdrAt[cur_chunk] \in Nat /\ image.outAt[cur_chunk] \in Nat
  BY ImageType DEF IInv, TypeOK, InLoop, Position, cur_chunk, section_size

LEMMA HeaderCopy ==
  ASSUME IInv, InLoop
  PROVE  /\ off \in Nat /\ src \in Nat /\ left \in Nat
         /\ src = image.hdrAt[cur_chunk] + off /\ sent = src + left /\ source <= src
         /\ off < ChunkHdr => left = 0
         /\ chunk_offset >= ChunkHdr => off = chunk_offset /\ src = source /\ left > 0
         /\ chunk_offset < ChunkHdr => off <= ChunkHdr
         /\ hdr \in [HeaderBytes -> Int]
         /\ \A i \in HeaderBytes : i < off => hdr[i] = image.hdrAt[cur_chunk] + i
  <1>1. /\ off \in Nat /\ src \in Nat /\ left \in Nat
        /\ src = image.hdrAt[cur_chunk] + off /\ sent = src + left /\ source <= src
        /\ off < ChunkHdr => left = 0
        /\ chunk_offset >= ChunkHdr => off = chunk_offset /\ src = source /\ left > 0
        /\ chunk_offset < ChunkHdr => off <= ChunkHdr
    <2>0. /\ source = image.hdrAt[cur_chunk] + chunk_offset /\ image.hdrAt[cur_chunk] \in Nat
          /\ sent \in Nat /\ source \in Nat /\ chunk_offset \in Nat /\ source < sent
      BY LoopFacts DEF Position
    <2>1. CASE chunk_offset < ChunkHdr
      <3>1. /\ hdr_got \in Nat /\ hdr_got <= ChunkHdr - chunk_offset /\ hdr_got <= sent - source
            /\ hdr_got = ChunkHdr - chunk_offset \/ hdr_got = sent - source
        BY <2>0, <2>1 DEF hdr_got, hdr_missing, section_size, ChunkHdr
      <3>2. off = chunk_offset + hdr_got /\ src = source + hdr_got /\ left = sent - (source + hdr_got)
        BY DEF off, src, left
      <3>3. off \in Nat /\ src \in Nat /\ left \in Nat /\ off <= ChunkHdr
        BY <2>0, <2>1, <3>1, <3>2 DEF ChunkHdr
      <3>4. src = image.hdrAt[cur_chunk] + off
        BY <2>0, <3>1, <3>2
      <3>5. sent = src + left /\ source <= src
        BY <2>0, <3>1, <3>2
      <3>6. off < ChunkHdr => left = 0
        BY <2>0, <2>1, <3>1, <3>2 DEF ChunkHdr
      <3> QED
        BY <2>0, <2>1, <3>3, <3>4, <3>5, <3>6 DEF ChunkHdr
    <2>2. CASE ~(chunk_offset < ChunkHdr)
      <3>1. hdr_missing = 0 /\ hdr_got = 0
        BY <2>2, LoopFacts DEF hdr_missing, hdr_got, section_size
      <3> QED
        BY <2>2, <3>1, LoopFacts DEF off, src, left, ChunkHdr, Position
    <2> QED
      BY <2>1, <2>2
  <1>2. hdr \in [HeaderBytes -> Int]
    BY LoopFacts DEF hdr, IInv, TypeOK, HeaderBytes
  <1>3. ASSUME NEW i \in HeaderBytes, i < off
        PROVE  hdr[i] = image.hdrAt[cur_chunk] + i
    BY <1>3, LoopFacts DEF hdr, off, hdr_got, hdr_missing, section_size, ChunkHdr, HeaderBytes, Position
  <1> QED
    BY <1>1, <1>2, <1>3

LEMMA HeaderUnique ==
  ASSUME IInv, InLoop, off >= ChunkHdr
  PROVE  /\ IsHeader(hdr, cur_chunk)
         /\ \A k \in 1 .. NumChunks(image) : IsHeader(hdr, k) => k = cur_chunk
  <1>1. IsHeader(hdr, cur_chunk)
    BY HeaderCopy DEF IsHeader, HeaderBytes, ChunkHdr
  <1>2. ASSUME NEW k \in 1 .. NumChunks(image), IsHeader(hdr, k)
        PROVE  k = cur_chunk
    <2>1. image.hdrAt[k] + 0 = image.hdrAt[cur_chunk] + 0
      BY <1>1, <1>2 DEF IsHeader, HeaderBytes, ChunkHdr
    <2>2. image.hdrAt[k] \in Nat /\ image.hdrAt[cur_chunk] \in Nat /\ NumChunks(image) \in Nat
      BY LoopFacts, ImageType
    <2>3. \A i, j \in 1 .. NumChunks(image) : i < j => image.hdrAt[i] + ChunkHdr <= image.hdrAt[j]
      <3> TAKE i, j \in 1 .. NumChunks(image)
      <3>1. j \in 1 .. NumChunks(image) + 1
        BY <2>2
      <3> QED
        BY <3>1, LoopFacts, ChunkType
    <2> QED
      BY <2>1, <2>2, <2>3, LoopFacts DEF ChunkHdr
  <1> QED
    BY <1>1, <1>2

LEMMA HeaderCutIInv == ASSUME IInv, HeaderCut PROVE IInv'
  <1>1. InLoop
    BY DEF HeaderCut
  <1>2. left = 0 /\ off <= ChunkHdr /\ off \in Nat /\ (off = ChunkHdr => IsRaw(image, cur_chunk))
    BY <1>1, HeaderCopy, HeaderUnique DEF HeaderCut, ChunkHdr, IsRaw
  <1>3. chunk_offset < ChunkHdr /\ cur_size = 0
    BY <1>1, <1>2, HeaderCopy, LoopFacts DEF cur_size, ChunkHdr
  <1>4. cur_size' = 0 /\ cur_chunk' = cur_chunk
    BY <1>2 DEF HeaderCut, cur_size, cur_chunk, ChunkHdr, NumChunks
  <1>5. TypeOK'
    BY <1>1, HeaderCopy DEF IInv, TypeOK, HeaderCut
  <1>6. Position'
    BY <1>1, <1>2, <1>4, HeaderCopy, LoopFacts DEF HeaderCut, Position, InLoop, NumChunks, IsRaw, ChunkHdr
  <1>7. Placement' /\ Progress'
    BY <1>1, <1>3, <1>4, LoopFacts DEF HeaderCut, Placement, Progress
  <1>8. source' = sent'
    BY <1>1, <1>2, HeaderCopy DEF HeaderCut
  <1>9. ShortSection' /\ WrittenRight' /\ OnlyShortFails'
    BY <1>8, <1>1 DEF IInv, HeaderCut, InLoop, ShortSection, WrittenRight, PlacedRight, OnlyShortFails
  <1>10. pc' = "loop" /\ sent' <= FileLen(image')
    BY <1>1 DEF IInv, HeaderCut, InLoop
  <1> QED
    BY <1>5, <1>6, <1>7, <1>8, <1>9, <1>10, <1>1, LoopFacts DEF IInv, HeaderCut

LEMMA DontCareIInv == ASSUME IInv, DontCare PROVE IInv'
  <1>1. InLoop /\ off >= ChunkHdr
    BY DEF DontCare
  <1> DEFINE k0 == cur_chunk
             c  == image.chunks[k0]
  <1>2. /\ c.chunk_type = "dont_care" /\ c.total_sz = ChunkHdr
        /\ sector' = sector + (ChunkSize(c, block_size) \div SectorSize)
    BY <1>1, HeaderUnique DEF DontCare
  <1>3. chunk_offset < ChunkHdr /\ cur_size = 0 /\ off = ChunkHdr /\ block_size = image.blk_sz
    BY <1>1, <1>2, HeaderCopy, LoopFacts DEF cur_size, ChunkHdr, Position, IsRaw
  <1>4. /\ cur_chunk' = k0 + 1 /\ cur_size' = 0 /\ remaining_chunks' <= NumChunks(image)
        /\ remaining_chunks' \in Nat
    BY <1>1, LoopFacts DEF DontCare, cur_size, cur_chunk, ChunkHdr, NumChunks, InLoop, IInv, TypeOK, Position
  <1>5. ChunkSize(c, block_size) \in Nat /\ sector \in Nat
    BY <1>1, <1>3, LoopFacts, ChunkType DEF IInv, TypeOK
  <1>6. TypeOK'
    BY <1>1, <1>2, <1>4, <1>5, HeaderCopy, SectorSplit DEF IInv, TypeOK, DontCare
  <1>7. source' = image.hdrAt[k0 + 1]
    BY <1>1, <1>2, <1>3, HeaderCopy, LoopFacts, ChunkType DEF DontCare
  <1>8. Position'
    <2>1. image.hdrAt[k0 + 1] \in Nat
      BY <1>1, LoopFacts, ImageType
    <2>2. chunk_offset' = 0 /\ image' = image /\ block_size' = image.blk_sz
      BY <1>3 DEF DontCare
    <2> QED
      BY <1>4, <1>7, <2>1, <2>2 DEF Position, NumChunks, HeaderBytes, ChunkHdr
  <1>9. Placement'
    <2> SUFFICES ASSUME GoodImage(image)
                 PROVE  sector' = Target(image, k0 + 1, 0)
      BY <1>4, PtnAssumption, ImageType, LoopFacts, <1>1
         DEF Placement, DontCare, Target, SectorSize
    <2>1. sector = Target(image, k0, 0) + (0 \div SectorSize)
      BY <1>1, <1>3, LoopFacts DEF Placement
    <2>2. ChunkSize(c, block_size) = OutLen(image, k0) /\ image.outAt[k0] % SectorSize = 0
      BY <1>1, <1>3, LoopFacts DEF GoodImage, FormatImage
    <2>3. image.outAt[k0 + 1] = image.outAt[k0] + OutLen(image, k0) /\ OutLen(image, k0) \in Nat
      BY <1>1, LoopFacts, ChunkType
    <2> QED
      BY <1>1, <1>2, <2>1, <2>2, <2>3, LoopFacts, PtnAssumption DEF Target, SectorSize
  <1>10. Progress'
    <2> SUFFICES ASSUME GoodImage(image), ~lost,
                        NEW k \in 1 .. NumChunks(image), IsRaw(image, k),
                        NEW j \in RawSectors(image, k), k < k0 + 1
                 PROVE  Target(image, k, j) \in DOMAIN written
      BY <1>4 DEF Progress, DontCare, SectorSize, RawSectors
    <2>1. k # k0
      BY <1>2 DEF IsRaw
    <2> QED
      BY <1>1, <2>1, LoopFacts DEF Progress
  <1>11. ShortSection' /\ WrittenRight' /\ OnlyShortFails'
    BY <1>1, <1>4 DEF IInv, DontCare, InLoop, ShortSection, WrittenRight, PlacedRight, OnlyShortFails,
                      SectorSize
  <1> QED
    BY <1>1, <1>6, <1>8, <1>9, <1>10, <1>11, LoopFacts, HeaderCopy DEF IInv, DontCare, InLoop
\* The next chunk starts inside the file.
LEMMA NextChunkInFile ==
  ASSUME NEW img \in Images, NEW k \in 1 .. NumChunks(img)
  PROVE  img.hdrAt[k + 1] \in Nat /\ img.hdrAt[k + 1] <= FileLen(img)
  <1>1. NumChunks(img) \in Nat /\ FileLen(img) \in Nat /\ k + 1 \in 1 .. NumChunks(img) + 1
    BY ImageType
  <1>2. CASE k = NumChunks(img)
    BY <1>1, <1>2, ImageType DEF FileLen
  <1>3. CASE k # NumChunks(img)
    <2>1. k + 1 \in 1 .. NumChunks(img) /\ NumChunks(img) + 1 \in 1 .. NumChunks(img) + 1
      BY <1>1, <1>3
    <2>2. k + 1 < NumChunks(img) + 1
      BY <1>1, <1>3
    <2>3. img.hdrAt[k + 1] + ChunkHdr <= img.hdrAt[NumChunks(img) + 1]
      BY <2>1, <2>2, ChunkType
    <2> QED
      BY <1>1, <2>3, ImageType DEF FileLen, ChunkHdr
  <1> QED
    BY <1>2, <1>3

\* Where a raw chunk stands once its header is complete.
LEMMA RawStart ==
  ASSUME IInv, InLoop, off >= ChunkHdr, IsRaw(image, cur_chunk),
         image.chunks[cur_chunk].total_sz = ChunkSize(image.chunks[cur_chunk], block_size) + ChunkHdr
  PROVE  /\ block_size = image.blk_sz
         /\ cur_size \in Nat /\ chunk_cur_size = cur_size
         /\ src = image.hdrAt[cur_chunk] + ChunkHdr + cur_size
         /\ ChunkSize(image.chunks[cur_chunk], block_size) \in Nat
         /\ cur_size <= ChunkSize(image.chunks[cur_chunk], block_size)
         /\ cur_size # 0 => cur_size < ChunkSize(image.chunks[cur_chunk], block_size)
         /\ cur_size # 0 => chunk_offset > ChunkHdr
  <1> DEFINE size == ChunkSize(image.chunks[cur_chunk], block_size)
  <1>1. block_size = image.blk_sz /\ size \in Nat
    BY LoopFacts, ChunkType DEF Position
  <1>2. chunk_offset > ChunkHdr => chunk_offset < size + ChunkHdr
    BY LoopFacts DEF Position
  <1>3. /\ chunk_offset \in Nat /\ off \in Nat /\ src = image.hdrAt[cur_chunk] + off
        /\ image.hdrAt[cur_chunk] \in Nat
        /\ chunk_offset >= ChunkHdr => off = chunk_offset
        /\ chunk_offset < ChunkHdr => off <= ChunkHdr
    BY LoopFacts, HeaderCopy
  <1> HIDE DEF size
  <1>4. off = ChunkHdr + cur_size /\ cur_size \in Nat /\ (cur_size # 0 => chunk_offset = ChunkHdr + cur_size)
    BY <1>3 DEF cur_size, ChunkHdr
  <1>5. chunk_cur_size = cur_size /\ src = image.hdrAt[cur_chunk] + ChunkHdr + cur_size
    BY <1>3, <1>4 DEF chunk_cur_size, ChunkHdr
  <1>6. cur_size <= size /\ (cur_size # 0 => cur_size < size /\ chunk_offset > ChunkHdr)
    BY <1>1, <1>2, <1>3, <1>4 DEF ChunkHdr
  <1> QED
    BY <1>1, <1>4, <1>5, <1>6 DEF size

LEMMA BadChunkIInv == ASSUME IInv, BadChunk PROVE IInv'
  <1>1. InLoop /\ off >= ChunkHdr
    BY DEF BadChunk
  <1>2. TypeOK'
    BY <1>1, HeaderCopy DEF IInv, TypeOK, BadChunk
  <1>3. WrittenRight'
    BY DEF IInv, BadChunk, WrittenRight, PlacedRight
  <1>4. source' <= sent' /\ sent' <= FileLen(image')
    BY <1>1, HeaderCopy, LoopFacts DEF IInv, BadChunk
  <1>5. OnlyShortFails'
    <2> SUFFICES ASSUME GoodImage(image) PROVE short
      BY DEF OnlyShortFails, BadChunk
    <2> DEFINE k0   == cur_chunk
               c    == image.chunks[k0]
               size == ChunkSize(c, block_size)
    <2>1. k0 \in 1 .. NumChunks(image) /\ block_size = image.blk_sz /\ ~Acceptable(k0)
      BY <1>1, LoopFacts DEF BadChunk, Position
    <2>2. IsHeader(hdr, k0)
      BY <1>1, HeaderUnique
    <2>3. size = OutLen(image, k0) /\ OutLen(image, k0) % SectorSize = 0
      BY <2>1 DEF GoodImage, FormatImage
    <2>4. IsRaw(image, k0) /\ c.total_sz = size + ChunkHdr /\ left # 0 /\ ~RawOK(c)
      BY <2>1, <2>2, <2>3 DEF Acceptable, GoodImage, FormatImage, IsRaw
    <2>5. ChunkAvlSize(c) < missing_bytes
      <3>1. size \in Nat /\ left \in Nat /\ chunk_cur_size \in Nat
        BY <1>1, <2>4, RawStart, HeaderCopy
      <3>2. ChunkAvlSize(c) \in Int /\ missing_bytes \in Int
        BY <3>1 DEF ChunkAvlSize, ChunkRemSize, missing_bytes, prev_rem_data, SectorSize
      <3> QED
        BY <2>4, <3>2 DEF RawOK
    <2>6. /\ size \in Nat /\ left \in Nat /\ cur_size \in Nat /\ chunk_cur_size = cur_size
          /\ (cur_size # 0 => cur_size < size /\ chunk_offset > ChunkHdr)
          /\ src = image.hdrAt[k0] + ChunkHdr + cur_size /\ sent = src + left
          /\ image.hdrAt[k0] \in Nat
      BY <1>1, <2>4, RawStart, HeaderCopy, LoopFacts
    <2>7. size % SectorSize = 0
      BY <2>3
    <2>8. image.hdrAt[k0 + 1] = image.hdrAt[k0] + size + ChunkHdr
      BY <1>1, <2>1, <2>4, <2>6, LoopFacts, ChunkType DEF ChunkHdr
    <2>9. /\ image.hdrAt[k0 + 1] \in Nat /\ FileLen(image) \in Nat
          /\ image.hdrAt[k0 + 1] <= FileLen(image)
      BY <1>1, <2>1, LoopFacts, NextChunkInFile, ImageType
    <2>10. ChunkRemSize(c) = size - cur_size
      BY <2>6 DEF ChunkRemSize
    <2> HIDE DEF size, c
    <2>11. cur_size % SectorSize # 0 /\ missing_bytes < SectorSize /\ left < missing_bytes
           /\ left < size - cur_size
      BY <2>5, <2>6, <2>7, <2>10
         DEF ChunkAvlSize, ChunkEnd, missing_bytes, prev_rem_data, SectorSize
    <2>12. sent < FileLen(image)
      BY <2>6, <2>8, <2>9, <2>11 DEF ChunkHdr
    <2>13. source = src /\ sent - source < SectorSize /\ source # sent
      <3>1. cur_size # 0
        BY <2>11 DEF SectorSize
      <3>2. source = src
        BY <1>1, <2>6, <3>1, HeaderCopy, LoopFacts DEF ChunkHdr
      <3>3. left < SectorSize /\ src \in Nat
        BY <1>1, <2>6, <2>11, HeaderCopy DEF SectorSize, missing_bytes, prev_rem_data
      <3> QED
        BY <2>4, <2>6, <3>2, <3>3 DEF SectorSize
    <2>14. pc = "loop" /\ ShortSection
      BY <1>1, LoopFacts DEF InLoop
    <2> QED
      BY <2>11, <2>12, <2>13, <2>14 DEF ShortSection
  <1> QED
    BY <1>2, <1>3, <1>4, <1>5 DEF IInv, BadChunk
(***************************************************************************)
(* A section of a raw chunk: cur_size + ChunkAvlSize bytes of the chunk    *)
(* have then been written but for the last incomplete sector.              *)
(***************************************************************************)
LEMMA RawAdvance ==
  ASSUME IInv, InLoop, off >= ChunkHdr, left > 0, IsRaw(image, cur_chunk),
         RawOK(image.chunks[cur_chunk])
  PROVE  LET c == image.chunks[cur_chunk]
             avl == ChunkAvlSize(c)
             size == ChunkSize(c, block_size)
         IN  /\ avl \in Nat /\ avl <= left /\ cur_size + avl <= size
             /\ ChunkEnd(c) => cur_size + avl = size
             /\ ~ChunkEnd(c) => avl = left /\ cur_size + avl < size
             /\ missing_bytes \in Nat /\ Joined \in {0, 1}
             /\ Joined = 1 => cur_size % SectorSize # 0 /\ missing_bytes > 0
             /\ Joined = 0 => cur_size % SectorSize = 0 /\ missing_bytes = 0
             /\ CopySectors(c) \in Nat /\ RemData(c) \in 0 .. SectorSize - 1
             /\ cur_size + missing_bytes = SectorSize * ((cur_size \div SectorSize) + Joined)
             /\ avl = missing_bytes + SectorSize * CopySectors(c) + RemData(c)
             /\ (cur_size + avl) \div SectorSize = (cur_size \div SectorSize) + Joined + CopySectors(c)
             /\ (cur_size + avl) % SectorSize = RemData(c)
             /\ prev_rem_data = cur_size % SectorSize
  <1> DEFINE c    == image.chunks[cur_chunk]
             avl  == ChunkAvlSize(c)
             size == ChunkSize(c, block_size)
  <1>1. c.total_sz = size + ChunkHdr /\ avl >= missing_bytes
    BY DEF RawOK
  <1>2. /\ cur_size \in Nat /\ chunk_cur_size = cur_size /\ size \in Nat /\ cur_size <= size
        /\ left \in Nat
    BY <1>1, RawStart, HeaderCopy
  <1>3. ChunkRemSize(c) = size - cur_size
    BY <1>2 DEF ChunkRemSize
  <1> HIDE DEF c, size
  <1>4. /\ avl \in Nat /\ avl <= left /\ cur_size + avl <= size
        /\ ChunkEnd(c) => cur_size + avl = size
        /\ ~ChunkEnd(c) => avl = left /\ cur_size + avl < size
    BY <1>2, <1>3 DEF ChunkAvlSize, ChunkEnd
  <1>5. prev_rem_data = cur_size % SectorSize
    BY <1>2 DEF prev_rem_data
  <1>6. /\ missing_bytes \in Nat /\ Joined \in {0, 1}
        /\ Joined = 1 => cur_size % SectorSize # 0 /\ missing_bytes = SectorSize - (cur_size % SectorSize)
        /\ Joined = 0 => cur_size % SectorSize = 0 /\ missing_bytes = 0
    BY <1>2, <1>5 DEF Joined, missing_bytes, SectorSize
  <1>7. cur_size + missing_bytes = SectorSize * ((cur_size \div SectorSize) + Joined)
    BY <1>2, <1>6 DEF SectorSize
  <1>8. avl - missing_bytes \in Nat
    BY <1>1, <1>4, <1>6
  <1> HIDE DEF avl
  <1>9. CopySectors(c) = (avl - missing_bytes) \div SectorSize
        /\ RemData(c) = (avl - missing_bytes) % SectorSize
    BY DEF CopySectors, RemData, avl
  <1>10. /\ CopySectors(c) \in Nat /\ RemData(c) \in 0 .. SectorSize - 1
         /\ avl - missing_bytes = SectorSize * CopySectors(c) + RemData(c)
    BY <1>8, <1>9, SectorSplit
  <1>11. avl = missing_bytes + SectorSize * CopySectors(c) + RemData(c)
    BY <1>4, <1>6, <1>10, SMTT(30) DEF SectorSize, avl
  <1>12. cur_size + avl = SectorSize * ((cur_size \div SectorSize) + Joined + CopySectors(c)) + RemData(c)
    BY <1>2, <1>4, <1>6, <1>7, <1>10, <1>11 DEF SectorSize, avl
  <1>13. /\ (cur_size + avl) \div SectorSize = (cur_size \div SectorSize) + Joined + CopySectors(c)
         /\ (cur_size + avl) % SectorSize = RemData(c)
    <2>1. (cur_size \div SectorSize) + Joined + CopySectors(c) \in Nat
      BY <1>2, <1>6, <1>10, SectorSplit
    <2> QED
      BY <1>10, <1>12, <2>1, SectorJoin
  <1>14. Joined = 1 => missing_bytes > 0
    BY <1>2, <1>6 DEF SectorSize
  <1> QED
    BY <1>4, <1>5, <1>6, <1>7, <1>10, <1>11, <1>13, <1>14 DEF avl, size, c
LEMMA RawChunkIInv == ASSUME IInv, RawChunk PROVE IInv'
  <1> DEFINE k0    == cur_chunk
             c     == image.chunks[k0]
             size  == ChunkSize(c, block_size)
             avl   == ChunkAvlSize(c)
             n     == CopySectors(c)
             bulk  == src + missing_bytes
             first == sector + Joined
             full  == cur_size \div SectorSize
  <1>1. InLoop /\ off >= ChunkHdr /\ left > 0
    BY DEF RawChunk
  <1>2. PICK j \in 0 .. Joined, m \in 0 .. n :
          /\ lost' = (lost \/ j < Joined \/ m < n)
          /\ written' = [s \in DOMAIN written \cup sector .. sector + j - 1
                                              \cup first .. first + m - 1 |->
                           IF s \in first .. first + m - 1
                           THEN bulk + SectorSize * (s - first)
                           ELSE IF s \in sector .. sector + j - 1 THEN JoinedData
                           ELSE written[s]]
    BY <1>1, HeaderUnique DEF RawChunk
  <1>3. /\ IsRaw(image, k0) /\ RawOK(c)
        /\ sector' = first + n
        /\ data' = IF RemData(c) > 0
                   THEN [from |-> bulk + SectorSize * n, len |-> RemData(c)]
                   ELSE [data EXCEPT !.len = IF missing_bytes > 0 THEN SectorSize ELSE @]
        /\ source' = src + avl
        /\ chunk_offset' = IF ChunkEnd(c) THEN 0 ELSE off + avl
        /\ remaining_chunks' = remaining_chunks - (IF ChunkEnd(c) THEN 1 ELSE 0)
    BY <1>1, HeaderUnique DEF RawChunk, IsRaw
  <1>4. /\ last_header' = hdr /\ pc' = pc /\ pc = "loop"
        /\ UNCHANGED <<image, sent, block_size, short>>
    BY <1>1 DEF RawChunk, InLoop
  <1>5. /\ avl \in Nat /\ avl <= left /\ cur_size + avl <= size
        /\ ChunkEnd(c) => cur_size + avl = size
        /\ ~ChunkEnd(c) => avl = left /\ cur_size + avl < size
        /\ missing_bytes \in Nat /\ Joined \in {0, 1}
        /\ Joined = 1 => cur_size % SectorSize # 0 /\ missing_bytes > 0
        /\ Joined = 0 => cur_size % SectorSize = 0 /\ missing_bytes = 0
        /\ n \in Nat /\ RemData(c) \in 0 .. SectorSize - 1
        /\ cur_size + missing_bytes = SectorSize * (full + Joined)
        /\ avl = missing_bytes + SectorSize * n + RemData(c)
        /\ (cur_size + avl) \div SectorSize = full + Joined + n
        /\ (cur_size + avl) % SectorSize = RemData(c)
        /\ prev_rem_data = cur_size % SectorSize
    BY <1>1, <1>3, RawAdvance
  <1>6. /\ c.total_sz = size + ChunkHdr
        /\ block_size = image.blk_sz /\ cur_size \in Nat
        /\ src = image.hdrAt[k0] + ChunkHdr + cur_size
        /\ size \in Nat /\ (cur_size # 0 => cur_size < size)
        /\ full \in Nat /\ cur_size = SectorSize * full + (cur_size % SectorSize)
    BY <1>1, <1>3, RawStart, SectorSplit DEF RawOK
  <1>7. /\ image \in Images /\ NumChunks(image) \in Nat /\ k0 \in 1 .. NumChunks(image)
        /\ image.hdrAt[k0] \in Nat /\ image.outAt[k0] \in Nat
        /\ sent \in Nat /\ source \in Nat /\ chunk_offset \in Nat
        /\ off \in Nat /\ src \in Nat /\ left \in Nat /\ sent = src + left
        /\ src = image.hdrAt[k0] + off
        /\ hdr \in [HeaderBytes -> Int]
        /\ remaining_chunks \in Nat /\ remaining_chunks > 0 /\ sector \in Nat
        /\ remaining_chunks <= NumChunks(image)
    BY <1>1, LoopFacts, HeaderCopy DEF IInv, TypeOK, InLoop, Position
  <1>8. bulk \in Nat /\ first \in Nat /\ JoinedData \in Int
    BY <1>5, <1>7 DEF JoinedData, Torn, IInv, TypeOK
  <1>9. /\ j \in 0 .. Joined /\ m \in 0 .. n
        /\ ~lost' => ~lost /\ j = Joined /\ m = n
    <2>1. ~lost' => ~lost /\ ~(j < Joined) /\ ~(m < n)
      BY <1>2, Zenon
    <2> QED
      BY <2>1, <1>5
  <1>0. lost' \in BOOLEAN
    BY <1>2, Zenon
  <1> HIDE DEF k0, c, size, avl, n, bulk, first, full
  <1>10. TypeOK'
    <2>1. data' \in [from : Nat, len : 0 .. SectorSize]
      <3>1. bulk + SectorSize * n \in Nat
        BY <1>5, <1>8 DEF SectorSize
      <3>2. data \in [from : Nat, len : 0 .. SectorSize]
        BY DEF IInv, TypeOK
      <3>3. CASE RemData(c) > 0
        BY <1>3, <1>5, <3>1, <3>3 DEF SectorSize
      <3>4. CASE ~(RemData(c) > 0)
        BY <1>3, <3>2, <3>4 DEF SectorSize
      <3> QED
        BY <3>3, <3>4
    <2>2. sector' \in Nat /\ source' \in Nat /\ chunk_offset' \in Nat /\ remaining_chunks' \in Nat
      BY <1>3, <1>5, <1>7, <1>8
    <2>3. DOMAIN written' \subseteq Nat
      <3>1. DOMAIN written' = DOMAIN written \cup sector .. sector + j - 1 \cup first .. first + m - 1
        BY <1>2
      <3>2. DOMAIN written \subseteq Nat
        BY DEF IInv, TypeOK
      <3> QED
        BY <3>1, <3>2, <1>7, <1>8, <1>9
    <2>4. ASSUME NEW s \in DOMAIN written' PROVE written'[s] \in Int
      <3>1. s \in Nat /\ bulk + SectorSize * (s - first) \in Int
        BY <2>3, <1>8 DEF SectorSize
      <3>2. s \in DOMAIN written => written[s] \in Int
        BY DEF IInv, TypeOK
      <3> QED
        BY <1>2, <1>8, <3>1, <3>2
    <2> QED
      BY <1>0, <1>4, <1>7, <2>1, <2>2, <2>3, <2>4 DEF IInv, TypeOK
  <1>11. image.hdrAt[k0 + 1] = image.hdrAt[k0] + ChunkHdr + size /\ image.hdrAt[k0 + 1] \in Nat
    <2>1. c.total_sz \in Nat /\ image.hdrAt[k0 + 1] = image.hdrAt[k0] + c.total_sz
      BY <1>7, ChunkType DEF c
    <2> QED
      BY <1>6, <1>7, <2>1 DEF ChunkHdr
  <1>12. /\ ChunkEnd(c) => /\ cur_chunk' = k0 + 1 /\ cur_size' = 0 /\ chunk_offset' = 0
                           /\ source' = image.hdrAt[k0 + 1]
         /\ ~ChunkEnd(c) => /\ cur_chunk' = k0 /\ chunk_offset' = ChunkHdr + cur_size + avl
                            /\ cur_size' = cur_size + avl /\ source' = sent'
    <2>1. NumChunks(image)' = NumChunks(image) /\ k0 = NumChunks(image) - remaining_chunks + 1
      BY <1>4 DEF NumChunks, k0, cur_chunk
    <2>2. off = ChunkHdr + cur_size
      BY <1>6, <1>7 DEF ChunkHdr
    <2> QED
      BY <1>3, <1>4, <1>5, <1>6, <1>7, <1>11, <2>1, <2>2 DEF cur_chunk, cur_size, ChunkHdr
  <1>13. Position'
    <2>1. CASE ChunkEnd(c)
      <3>1. remaining_chunks' <= NumChunks(image') /\ block_size' = image'.blk_sz
        BY <2>1, <1>3, <1>4, <1>6, <1>7
      <3>2. cur_chunk' = k0 + 1 /\ chunk_offset' = 0 /\ source' = image'.hdrAt[k0 + 1]
        BY <2>1, <1>4, <1>12
      <3> QED
        BY <1>4, <1>11, <3>1, <3>2 DEF Position, NumChunks, HeaderBytes, ChunkHdr
    <2>2. CASE ~ChunkEnd(c)
      <3>1. remaining_chunks' = remaining_chunks
        BY <2>2, <1>3, <1>7
      <3>2. source' = image.hdrAt[k0] + chunk_offset'
        BY <2>2, <1>3, <1>5, <1>6, <1>7, <1>12 DEF ChunkHdr
      <3>3. \A i \in HeaderBytes : last_header'[i] = image.hdrAt[k0] + i
        BY <1>1, <1>4, HeaderUnique DEF IsHeader, k0
      <3>4. chunk_offset' < c.total_sz /\ c.total_sz = size + ChunkHdr
        BY <2>2, <1>5, <1>6, <1>12 DEF ChunkHdr
      <3>5. image.chunks[cur_chunk'] = c /\ IsRaw(image, cur_chunk') /\ cur_chunk' = k0
        BY <2>2, <1>3, <1>12 DEF c, k0
      <3>6. /\ remaining_chunks' <= NumChunks(image') /\ remaining_chunks' # 0
            /\ block_size' = image'.blk_sz
            /\ source' = image'.hdrAt[cur_chunk'] + chunk_offset'
        BY <1>4, <1>6, <1>7, <3>1, <3>2, <3>5 DEF NumChunks
      <3>7. \A i \in HeaderBytes : last_header'[i] = image'.hdrAt[cur_chunk'] + i
        BY <1>4, <3>3, <3>5
      <3>8. /\ IsRaw(image', cur_chunk')
            /\ image'.chunks[cur_chunk'].total_sz
                 = ChunkSize(image'.chunks[cur_chunk'], block_size') + ChunkHdr
            /\ chunk_offset' < image'.chunks[cur_chunk'].total_sz
        BY <1>4, <3>4, <3>5 DEF size
      <3> QED
        BY <3>6, <3>7, <3>8 DEF Position
    <2> QED
      BY <2>1, <2>2
  <1>14. ShortSection'
    BY <1>4, <1>12 DEF ShortSection, SectorSize
  <1>15. OnlyShortFails'
    BY <1>4 DEF OnlyShortFails
  <1>16. GoodImage(image) => /\ sector = Target(image, k0, 0) + full
                             /\ size = OutLen(image, k0) /\ size % SectorSize = 0
                             /\ image.outAt[k0] % SectorSize = 0
    BY <1>1, <1>6, <1>7, LoopFacts DEF Placement, GoodImage, FormatImage, full, k0, size, c
  <1>17. Placement'
    <2> SUFFICES ASSUME GoodImage(image)
                 PROVE  /\ sector' = Target(image, cur_chunk', 0) + (cur_size' \div SectorSize)
                        /\ cur_size' % SectorSize # 0 =>
                             /\ data'.len = cur_size' % SectorSize
                             /\ data'.from = image.hdrAt[cur_chunk'] + ChunkHdr + (cur_size' - data'.len)
      BY <1>4 DEF Placement, Target
    <2>1. Target(image, k0, 0) \in Nat /\ sector' = Target(image, k0, 0) + (full + Joined + n)
      <3>1. Target(image, k0, 0) \in Nat
        BY <1>7, PtnAssumption, SectorSplit DEF Target
      <3>2. sector = Target(image, k0, 0) + full
        BY <1>16
      <3> QED
        BY <1>3, <1>5, <1>6, <3>1, <3>2 DEF first
    <2>2. CASE ChunkEnd(c)
      <3>1. sector' = Target(image, k0, 0) + (size \div SectorSize)
        BY <2>1, <2>2, <1>5
      <3>2. image.outAt[k0 + 1] = image.outAt[k0] + size
        BY <1>7, <1>16, ChunkType
      <3>3. Target(image, k0 + 1, 0) = Target(image, k0, 0) + (size \div SectorSize)
        <4>1. (image.outAt[k0] + size) \div SectorSize
                = (image.outAt[k0] \div SectorSize) + (size \div SectorSize)
          BY <1>6, <1>7, <1>16, SectorAdd
        <4> QED
          BY <4>1, <1>6, <1>7, <3>2, PtnAssumption, SectorSplit DEF Target
      <3>4. Target(image, k0 + 1, 0) \in Nat
        BY <2>1, <3>3, <1>6, SectorSplit
      <3> QED
        BY <2>2, <1>12, <3>1, <3>3, <3>4 DEF SectorSize
    <2>3. CASE ~ChunkEnd(c)
      <3>1. sector' = Target(image, k0, 0) + (cur_size' \div SectorSize)
        BY <2>1, <2>3, <1>5, <1>12
      <3>2. ASSUME cur_size' % SectorSize # 0
            PROVE  /\ data'.len = cur_size' % SectorSize
                   /\ data'.from = image.hdrAt[k0] + ChunkHdr + (cur_size' - data'.len)
        <4>1. RemData(c) = cur_size' % SectorSize /\ RemData(c) > 0
          BY <2>3, <3>2, <1>5, <1>12 DEF SectorSize
        <4>2. data' = [from |-> bulk + SectorSize * n, len |-> RemData(c)]
          BY <4>1, <1>3
        <4>3. data'.from = bulk + SectorSize * n /\ data'.len = RemData(c)
          BY <4>2
        <4>4. bulk = image.hdrAt[k0] + ChunkHdr + cur_size + missing_bytes
          BY <1>6 DEF bulk
        <4>5. cur_size' = cur_size + (missing_bytes + SectorSize * n + RemData(c))
          BY <2>3, <1>5, <1>12
        <4> QED
          BY <4>1, <4>3, <4>4, <4>5, <1>5, <1>6, <1>7 DEF SectorSize, ChunkHdr
      <3> QED
        BY <2>3, <3>1, <3>2, <1>12
    <2> QED
      BY <2>2, <2>3
  <1>18. Progress'
    <2> SUFFICES ASSUME GoodImage(image), ~lost',
                        NEW k \in 1 .. NumChunks(image), IsRaw(image, k),
                        NEW i \in RawSectors(image, k),
                        k < cur_chunk' \/ (k = cur_chunk' /\ i < cur_size' \div SectorSize)
                 PROVE  Target(image, k, i) \in DOMAIN written'
      BY <1>4 DEF Progress, NumChunks, RawSectors, Target, IsRaw, OutLen
    <2>1. /\ DOMAIN written \subseteq DOMAIN written'
          /\ sector .. sector + Joined - 1 \subseteq DOMAIN written'
          /\ first .. first + n - 1 \subseteq DOMAIN written'
      BY <1>2, <1>9
    <2>2. CASE k < k0 \/ (k = k0 /\ i < full)
      <3>1. Target(image, k, i) \in DOMAIN written
        BY <1>1, <1>9, <2>2, LoopFacts DEF Progress, k0, full
      <3> QED
        BY <2>1, <3>1
    <2>3. CASE k = k0 /\ ~(i < full)
      <3>1. i \in Nat /\ i < OutLen(image, k0) \div SectorSize
        BY <2>3, <1>6, <1>16, SectorSplit DEF RawSectors
      <3>2. i < full + Joined + n
        <4>1. CASE ChunkEnd(c)
          BY <4>1, <3>1, <1>5, <1>16
        <4>2. CASE ~ChunkEnd(c)
          BY <4>2, <2>3, <1>5, <1>12, <1>7
        <4> QED
          BY <4>1, <4>2
      <3>3. Target(image, k0, i) = Target(image, k0, 0) + i /\ Target(image, k0, 0) \in Nat
        BY <3>1, <1>7, PtnAssumption DEF Target, SectorSize
      <3>4. Target(image, k0, i) = sector + (i - full)
        BY <3>1, <3>3, <1>6, <1>16
      <3>5. Target(image, k0, i) \in sector .. sector + Joined - 1 \cup first .. first + n - 1
        BY <3>1, <3>2, <3>4, <2>3, <1>5, <1>6, <1>7 DEF first
      <3> QED
        BY <2>1, <2>3, <3>5
    <2>4. k < k0 \/ k = k0
      <3>1. k \in Int /\ k0 \in Int
        BY <1>7
      <3>2. ~(i < 0)
        <4>1. i \in 0 .. (OutLen(image, k) \div SectorSize) - 1
          BY DEF RawSectors
        <4> QED
          BY <4>1
      <3>3. CASE ChunkEnd(c)
        <4>1. cur_chunk' = k0 + 1 /\ cur_size' \div SectorSize = 0
          BY <3>3, <1>12 DEF SectorSize
        <4> QED
          BY <4>1, <3>1, <3>2
      <3>4. CASE ~ChunkEnd(c)
        BY <3>1, <3>4, <1>12
      <3> QED
        BY <3>3, <3>4
    <2> QED
      BY <2>2, <2>3, <2>4
  <1>19. WrittenRight'
    <2> SUFFICES ASSUME GoodImage(image), NEW s \in DOMAIN written'
                 PROVE  \E k \in 1 .. NumChunks(image) :
                          /\ IsRaw(image, k)
                          /\ \E i \in RawSectors(image, k) :
                               s = Target(image, k, i) /\ written'[s] = Content(image, k, i)
      BY <1>4 DEF WrittenRight, PlacedRight, NumChunks, IsRaw, RawSectors, Target, Content, OutLen
    <2>1. SUFFICES ASSUME s \in sector .. sector + j - 1 \cup first .. first + m - 1
                   PROVE  \E i \in RawSectors(image, k0) :
                            s = Target(image, k0, i) /\ written'[s] = Content(image, k0, i)
      <3>1. CASE s \in sector .. sector + j - 1 \cup first .. first + m - 1
        BY <2>1, <3>1, <1>3, <1>7
      <3>2. CASE ~(s \in sector .. sector + j - 1 \cup first .. first + m - 1)
        <4>1. s \in DOMAIN written /\ written'[s] = written[s]
          BY <3>2, <1>2
        <4> QED
          BY <4>1 DEF IInv, WrittenRight, PlacedRight
      <3> QED
        BY <3>1, <3>2
    <2>2. \A i \in Nat : /\ Target(image, k0, i) = Target(image, k0, 0) + i
                         /\ Target(image, k0, 0) \in Nat
                         /\ i < size \div SectorSize => i \in RawSectors(image, k0)
                         /\ Content(image, k0, i) = image.hdrAt[k0] + ChunkHdr + SectorSize * i
      BY <1>6, <1>7, <1>16, PtnAssumption DEF Target, RawSectors, Content, SectorSize
    <2>3. (full + Joined + n) <= size \div SectorSize
      BY <1>5, <1>6 DEF SectorSize
    <2>4. CASE s \in first .. first + m - 1
      <3>1. s - first \in Nat /\ s - first < n /\ s \in Nat
        BY <2>4, <1>5, <1>8, <1>9
      <3>2. written'[s] = bulk + SectorSize * (s - first)
        BY <2>4, <1>2
      <3> DEFINE i == full + Joined + (s - first)
      <3>3. i \in Nat /\ i < size \div SectorSize
        BY <3>1, <2>3, <1>5, <1>6, SectorSplit
      <3>4. s = Target(image, k0, 0) + i
        BY <3>1, <1>5, <1>6, <1>7, <1>16, <2>2 DEF first
      <3>5. bulk = image.hdrAt[k0] + ChunkHdr + SectorSize * (full + Joined)
        BY <1>5, <1>6, <1>7 DEF bulk, ChunkHdr, SectorSize
      <3>6. written'[s] = image.hdrAt[k0] + ChunkHdr + SectorSize * i
        BY <3>1, <3>2, <3>5, <1>5, <1>6, <1>7 DEF ChunkHdr, SectorSize
      <3> HIDE DEF i
      <3>7. i \in RawSectors(image, k0) /\ s = Target(image, k0, i) /\ written'[s] = Content(image, k0, i)
        BY <3>3, <3>4, <3>6, <2>2
      <3> QED
        BY <3>7
    <2>5. CASE s \notin first .. first + m - 1
      <3>1. s = sector /\ Joined = 1 /\ written'[s] = JoinedData
        BY <2>1, <2>5, <1>2, <1>5, <1>7, <1>9
      <3>2. cur_size % SectorSize # 0 /\ cur_size # 0 /\ cur_size < size
        <4>1. cur_size % SectorSize # 0
          BY <3>1, <1>5
        <4>2. 0 % SectorSize = 0
          BY DEF SectorSize
        <4> QED
          BY <4>1, <4>2, <1>6
      <3>3. /\ data.len = cur_size % SectorSize
            /\ data.from = image.hdrAt[k0] + ChunkHdr + (cur_size - data.len)
        BY <1>1, <3>2, LoopFacts DEF Placement, k0
      <3>4. JoinedData = image.hdrAt[k0] + ChunkHdr + SectorSize * full
        <4>1. cur_size % SectorSize \in Nat /\ SectorSize * full \in Nat
          BY <1>6, SectorSplit DEF SectorSize
        <4>2. data.from = image.hdrAt[k0] + ChunkHdr + SectorSize * full
          BY <3>3, <4>1, <1>6, <1>7 DEF ChunkHdr
        <4>3. data.from + data.len = src
          BY <3>3, <4>1, <4>2, <1>6, <1>7 DEF ChunkHdr
        <4>4. data.len = prev_rem_data
          BY <3>3, <1>5
        <4> QED
          BY <4>2, <4>3, <4>4 DEF JoinedData
      <3>5. full < size \div SectorSize
        BY <3>1, <2>3, <1>5, <1>6, SectorSplit
      <3> QED
        BY <3>1, <3>4, <3>5, <2>2, <1>6, <1>16
    <2> QED
      BY <2>4, <2>5
  <1>20. source' <= sent' /\ sent' <= FileLen(image)'
    <2>1. src + avl <= sent
      BY <1>5, <1>7
    <2>2. sent <= FileLen(image) /\ FileLen(image)' = FileLen(image)
      BY <1>4 DEF IInv, FileLen, NumChunks
    <2> QED
      BY <1>3, <1>4, <2>1, <2>2
  <1> QED
    BY <1>4, <1>10, <1>13, <1>14, <1>15, <1>17, <1>18, <1>19, <1>20 DEF IInv

-----------------------------------------------------------------------------
\* The inductive invariant: the static `state' of sparse.c always stands at the byte of the
\* image the host has sent, whatever the cuts.
THEOREM SpecIInv == Spec => []IInv
  <1>1. Init => IInv
    BY InitIInv
  <1>2. IInv /\ [Next]_vars => IInv'
    <2> SUFFICES ASSUME IInv, [Next]_vars PROVE IInv'
      OBVIOUS
    <2>1. CASE Start
      BY <2>1, StartIInv
    <2>2. CASE \E n \in Sections : Section(n)
      BY <2>2, SectionIInv
    <2>3. CASE ReadHeader
      BY <2>3, ReadHeaderIInv
    <2>4. CASE BadHeader
      BY <2>4, BadHeaderIInv
    <2>5. CASE HeaderCut
      BY <2>5, HeaderCutIInv
    <2>6. CASE RawChunk
      BY <2>6, RawChunkIInv
    <2>7. CASE DontCare
      BY <2>7, DontCareIInv
    <2>8. CASE BadChunk
      BY <2>8, BadChunkIInv
    <2>9. CASE LoopExit
      BY <2>9, LoopExitIInv
    <2>10. CASE UNCHANGED vars
      BY <2>10 DEF vars, st, IInv, TypeOK, Fresh, Position, Placement, Progress, ShortSection,
                   WrittenRight, PlacedRight, OnlyShortFails, cur_chunk, cur_size, FileLen, NumChunks
    <2> QED
      BY <2>1, <2>2, <2>3, <2>4, <2>5, <2>6, <2>7, <2>8, <2>9, <2>10 DEF Next, Unsparse
  <1> QED
    BY <1>1, <1>2, PTL DEF Spec

\* The variables of sparse.c keep their types in every behaviour.
THEOREM SpecTypeOK == Spec => []TypeOK
  <1>1. IInv => TypeOK
    BY DEF IInv
  <1> QED
    BY <1>1, SpecIInv, PTL

\* A good image is never written wrongly, for every image, every cut and every sequence of
\* restarts, storage faults included.
THEOREM SpecWrittenRight == Spec => []WrittenRight
  <1>1. IInv => WrittenRight
    BY DEF IInv
  <1> QED
    BY <1>1, SpecIInv, PTL

\* A good image is refused only after a section shorter than a sector.
THEOREM SpecOnlyShortFails == Spec => []OnlyShortFails
  <1>1. IInv => OnlyShortFails
    BY DEF IInv
  <1> QED
    BY <1>1, SpecIInv, PTL

\* Once a good image has been accepted to its last byte, all of it is on the storage.
THEOREM SpecComplete == Spec => []Complete
  <1>1. IInv => Complete
    <2> SUFFICES ASSUME IInv, GoodImage(image), ~lost, pc = "idle", sent = FileLen(image)
                 PROVE  remaining_chunks = 0 /\ AllWritten
      BY DEF Complete
    <2>1. image \in Images /\ NumChunks(image) \in Nat /\ remaining_chunks \in Nat /\ sent \in Nat
          /\ NumChunks(image) > 0
      BY ImageType DEF IInv, TypeOK, GoodImage, FormatImage
    <2>2. FileHdr + ChunkHdr <= FileLen(image) /\ FileLen(image) \in Nat
      BY <2>1, ImageType, ChunkType DEF FileLen
    <2>3. Position /\ Progress /\ source = sent
      BY <2>2 DEF IInv, FileHdr, ChunkHdr
    <2>4. remaining_chunks = 0
      <3> SUFFICES ASSUME remaining_chunks # 0 PROVE FALSE
        OBVIOUS
      <3>1. cur_chunk \in 1 .. NumChunks(image)
        BY <2>1, <2>3 DEF Position, cur_chunk
      <3>2. /\ image.hdrAt[cur_chunk + 1] = image.hdrAt[cur_chunk] + image.chunks[cur_chunk].total_sz
            /\ image.chunks[cur_chunk].total_sz \in Nat /\ image.hdrAt[cur_chunk] \in Nat
            /\ image.chunks[cur_chunk].total_sz >= ChunkHdr
            /\ image.hdrAt[cur_chunk + 1] <= FileLen(image)
        BY <2>1, <3>1, ImageType, ChunkType, NextChunkInFile
      <3>3. chunk_offset \in Nat /\ chunk_offset >= image.chunks[cur_chunk].total_sz
        BY <2>2, <2>3, <3>2 DEF Position, IInv, TypeOK
      <3>4. chunk_offset = ChunkHdr /\ image.chunks[cur_chunk].total_sz = ChunkHdr
        BY <2>3, <3>2, <3>3 DEF Position, ChunkHdr
      <3>5. IsRaw(image, cur_chunk)
        BY <2>3, <3>4 DEF Position, ChunkHdr
      <3>6. image.chunks[cur_chunk].total_sz = OutLen(image, cur_chunk) + ChunkHdr
            /\ OutLen(image, cur_chunk) > 0 /\ OutLen(image, cur_chunk) \in Nat
        BY <2>1, <3>1, <3>5, ChunkType DEF GoodImage, FormatImage, IsRaw
      <3> QED
        BY <3>4, <3>6 DEF ChunkHdr
    <2>5. AllWritten
      BY <2>1, <2>3, <2>4 DEF AllWritten, Progress, cur_chunk
    <2> QED
      BY <2>4, <2>5
  <1> QED
    BY <1>1, SpecIInv, PTL
=============================================================================
