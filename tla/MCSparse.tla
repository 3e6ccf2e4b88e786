------------------------------ MODULE MCSparse ------------------------------
(***************************************************************************)
(* Images for Sparse: two-, three- and four-chunk files with raw chunks of *)
(* one to three sectors, holes between them, and the faulty ones the code  *)
(* refuses.                                                                *)
(***************************************************************************)
EXTENDS Sparse

Raw(n, blk) == [chunk_type |-> "raw", chunk_sz |-> n, total_sz |-> ChunkHdr + n * blk]
Hole(n)     == [chunk_type |-> "dont_care", chunk_sz |-> n, total_sz |-> ChunkHdr]
Fill(n)     == [chunk_type |-> "fill", chunk_sz |-> n, total_sz |-> ChunkHdr + 4]

Layout(chunks, blk) ==
  LET n == Len(chunks)
      at[k \in 1 .. n + 1] == IF k = 1 THEN FileHdr ELSE at[k - 1] + chunks[k - 1].total_sz
      out[k \in 1 .. n + 1] == IF k = 1 THEN 0 ELSE out[k - 1] + chunks[k - 1].chunk_sz * blk
  IN  [magic |-> TRUE, compatible |-> TRUE, blk_sz |-> blk, chunks |-> chunks,
       hdrAt |-> at, outAt |-> out]

GoodImages ==
  { Layout(<<Raw(1, 1024), Hole(2), Raw(1, 1024)>>, 1024),
    Layout(<<Hole(1), Raw(3, 512), Raw(1, 512), Hole(1)>>, 512) }

BadImages ==
  { [Layout(<<Raw(1, 512)>>, 512) EXCEPT !.magic = FALSE],
    Layout(<<Raw(1, 512), Fill(2)>>, 512),
    Layout(<<[Raw(2, 512) EXCEPT !.total_sz = @ - 4], Hole(1)>>, 512),
    Layout(<<Hole(1), [Hole(2) EXCEPT !.total_sz = @ + 8]>>, 512),
    \* blocks that are not whole sectors
    Layout(<<Raw(1, 300), Raw(2, 300)>>, 300) }

MCImages == GoodImages \cup BadImages

MCSectionSizes == {11, 500, 530}
=============================================================================
