----------------------------- MODULE PartProofs -----------------------------
(***************************************************************************)
(* Proofs about PartTable for every layout that satisfies LayoutOK, every  *)
(* size of the storage and any number of failures, power cuts and formats: *)
(* the list of fastboot is that of the table on the storage, its           *)
(* partitions lie apart, and it is the built-in layout after a format.     *)
(***************************************************************************)
EXTENDS PartTable, WellFoundedInduction, SequenceTheorems, TLAPS

USE GeometryAssumption, BoundsAssumption

-----------------------------------------------------------------------------
(***************************************************************************)
(* The layout.                                                             *)
(***************************************************************************)

\* A set of natural numbers has a least element.
LEMMA LeastElement ==
  ASSUME NEW D \in SUBSET Nat, D # {}
  PROVE  \E d \in D : \A e \in D : d <= e
<1> DEFINE R == { ss \in Nat \X Nat : ss[1] < ss[2] }
<1>1. IsWellFoundedOn(R, Nat)
  BY NatLessThanWellFounded DEF OpToRel
<1>2. PICK x \in D : \A y \in D : <<y, x>> \notin R
  BY <1>1, WFMin
<1>3. ASSUME NEW y \in D PROVE x <= y
  <2>1. <<y, x>> \in Nat \X Nat /\ <<y, x>>[1] = y /\ <<y, x>>[2] = x
    OBVIOUS
  <2>2. ~(<<y, x>>[1] < <<y, x>>[2])
    BY <1>2, <2>1
  <2> QED  BY <2>1, <2>2
<1> QED  BY <1>3

\* Sectors of a size in KiB.
LEMMA SectorsType == ASSUME NEW a \in Nat, NEW b \in Nat PROVE a + b * 2 \in Nat
  OBVIOUS

\* The fields of a layout.
LEMMA LayoutTypes ==
  /\ Len(Layout) \in Nat \ {0}
  /\ \A k \in 1 .. Len(Layout) :
       /\ Layout[k].name \in Names /\ Layout[k].size_kb \in Nat
       /\ Layout[k].at \in Nat /\ Layout[k].slot \in Nat
<1> DEFINE R == [name : Names, size_kb : Nat, at : Nat, slot : Nat]
<1>1. Layout \in Seq(R) /\ Layout # <<>>
  BY LayoutAssumption DEF LayoutOK
<1>2. Len(Layout) \in Nat \ {0}
  <2> HIDE DEF R
  <2> QED  BY <1>1, EmptySeq
<1>3. ASSUME NEW k \in 1 .. Len(Layout) PROVE Layout[k] \in R
  <2> HIDE DEF R
  <2> QED  BY <1>1, ElementOfSeq
<1> QED  BY <1>2, <1>3

\* How a layout goes on.
LEMMA LayoutStep ==
  ASSUME NEW k \in 1 .. Len(Layout) - 1
  PROVE  /\ Layout[k + 1].at = Layout[k].at + Layout[k].size_kb * 2
         /\ Layout[k + 1].slot = IF k \in Named(Layout) THEN Layout[k].slot + 1 ELSE Layout[k].slot
         /\ Layout[k + 1].size_kb = 0 => k + 1 = Len(Layout) /\ {k, k + 1} \subseteq Named(Layout)
  BY LayoutAssumption DEF LayoutOK

\* Where it starts and ends.
LEMMA LayoutEnds ==
  /\ Layout[1].at = 0 /\ Layout[1].slot = 0 /\ Layout[1].size_kb > 0
  /\ \A k \in 1 .. Len(Layout) : Layout[k].at + Layout[k].size_kb * 2 < UIntMod
  /\ \A k \in Named(Layout) :
       Layout[k].slot < PerSector * (EntrySectors - 1) /\ Layout[k].slot < MaxPtn
  BY LayoutAssumption DEF LayoutOK

\* A partition starts where those before it end, and comes in a later entry.
LEMMA LayoutMonotone ==
  ASSUME NEW j \in 1 .. Len(Layout), NEW k \in 1 .. Len(Layout), j < k
  PROVE  /\ Layout[j].at + Layout[j].size_kb * 2 <= Layout[k].at
         /\ j \in Named(Layout) => Layout[j].slot < Layout[k].slot
<1> DEFINE P(i) == /\ Layout[j].at + Layout[j].size_kb * 2 <= Layout[i].at
                   /\ Layout[j].slot <= Layout[i].slot
                   /\ j \in Named(Layout) => Layout[j].slot < Layout[i].slot
           D    == { i \in 1 .. Len(Layout) : j < i /\ ~P(i) }
<1>1. SUFFICES ASSUME D # {} PROVE FALSE
  OBVIOUS
<1>2. D \in SUBSET Nat
  BY LayoutTypes
<1>3. PICK d \in D : \A e \in D : d <= e
  BY <1>1, <1>2, LeastElement
<1>4. d \in 1 .. Len(Layout) /\ j < d /\ ~P(d) /\ d - 1 \in 1 .. Len(Layout) - 1
      /\ d - 1 \in 1 .. Len(Layout) /\ (d - 1) + 1 = d
  BY <1>3, LayoutTypes
<1>5. /\ Layout[d].at = Layout[d - 1].at + Layout[d - 1].size_kb * 2
      /\ Layout[d].slot = IF d - 1 \in Named(Layout) THEN Layout[d - 1].slot + 1
                          ELSE Layout[d - 1].slot
  BY <1>4, LayoutStep
<1>6. CASE j = d - 1
  <2>1. Layout[j].at \in Nat /\ Layout[j].size_kb \in Nat /\ Layout[j].slot \in Nat
    BY LayoutTypes
  <2>2. Layout[j].at + Layout[j].size_kb * 2 <= Layout[d].at
    <3>1. Layout[j].at + Layout[j].size_kb * 2 \in Nat
      BY <2>1, SectorsType
    <3> QED  BY <1>5, <1>6, <3>1
  <2>3. Layout[j].slot <= Layout[d].slot /\ (j \in Named(Layout) => Layout[j].slot < Layout[d].slot)
    BY <1>5, <1>6, <2>1
  <2> QED  BY <1>4, <2>2, <2>3
<1>7. CASE j < d - 1
  <2>1. d - 1 \notin D
    BY <1>3, <1>4
  <2>2. P(d - 1)
    BY <1>4, <1>7, <2>1
  <2>3. /\ Layout[d - 1].at \in Nat /\ Layout[d - 1].size_kb \in Nat /\ Layout[d - 1].slot \in Nat
        /\ Layout[j].at \in Nat /\ Layout[j].size_kb \in Nat /\ Layout[j].slot \in Nat
    BY <1>4, LayoutTypes
  <2>4. Layout[j].at + Layout[j].size_kb * 2 <= Layout[d].at
    <3>1. Layout[j].at + Layout[j].size_kb * 2 <= Layout[d - 1].at
      BY <2>2
    <3>2. Layout[d - 1].at <= Layout[d].at
      <4>1. Layout[d].at = Layout[d - 1].at + Layout[d - 1].size_kb * 2
        BY <1>5
      <4> HIDE DEF P, D
      <4> QED  BY <2>3, <4>1
    <3>3. Layout[d].at \in Nat
      BY <1>4, LayoutTypes
    <3>4. Layout[j].at + Layout[j].size_kb * 2 \in Nat
      BY <2>3, SectorsType
    <3> HIDE DEF P, D
    <3> QED  BY <2>3, <3>1, <3>2, <3>3, <3>4
  <2>5. Layout[j].slot <= Layout[d].slot /\ (j \in Named(Layout) => Layout[j].slot < Layout[d].slot)
    <3>1. Layout[j].slot <= Layout[d - 1].slot /\ (j \in Named(Layout) => Layout[j].slot < Layout[d - 1].slot)
      BY <2>2
    <3>2. Layout[d].slot = Layout[d - 1].slot + 1 \/ Layout[d].slot = Layout[d - 1].slot
      BY <1>5
    <3> HIDE DEF P, D
    <3> QED  BY <2>3, <3>1, <3>2
  <2> QED  BY <1>4, <2>4, <2>5
<1> QED  BY <1>4, <1>6, <1>7

\* The entries before the one of a partition are taken by partitions before it.
LEMMA SlotsTaken ==
  ASSUME NEW k \in 1 .. Len(Layout), NEW s \in Nat, s < Layout[k].slot
  PROVE  \E j \in Named(Layout) : j < k /\ Layout[j].slot = s
<1> DEFINE P(i) == s < Layout[i].slot => \E j \in Named(Layout) : j < i /\ Layout[j].slot = s
           D    == { i \in 1 .. Len(Layout) : ~P(i) }
<1>1. SUFFICES ASSUME D # {} PROVE FALSE
  OBVIOUS
<1>2. D \in SUBSET Nat
  BY LayoutTypes
<1>3. PICK d \in D : \A e \in D : d <= e
  BY <1>1, <1>2, LeastElement
<1>4. d \in 1 .. Len(Layout) /\ ~P(d)
  BY <1>3
<1>5. d # 1
  BY <1>4, LayoutEnds
<1>6. d - 1 \in 1 .. Len(Layout) - 1 /\ d - 1 \in 1 .. Len(Layout) /\ (d - 1) + 1 = d
  BY <1>4, <1>5, LayoutTypes
<1>7. P(d - 1)
  BY <1>3, <1>6
<1>8. Layout[d].slot = IF d - 1 \in Named(Layout) THEN Layout[d - 1].slot + 1 ELSE Layout[d - 1].slot
  BY <1>6, LayoutStep
<1>9. s = Layout[d - 1].slot => d - 1 \notin Named(Layout)
  BY <1>4, <1>6
<1>10. s < Layout[d - 1].slot
  BY <1>4, <1>6, <1>8, <1>9, LayoutTypes
<1>11. PICK j \in Named(Layout) : j < d - 1 /\ Layout[j].slot = s
  BY <1>7, <1>10
<1>12. j \in 1 .. Len(Layout) /\ j < d
  BY <1>11, <1>6 DEF Named
<1> QED  BY <1>4, <1>11, <1>12

\* Two partitions do not share an entry.
LEMMA SlotUnique ==
  ASSUME NEW j \in Named(Layout), NEW k \in Named(Layout), Layout[j].slot = Layout[k].slot
  PROVE  j = k
<1>1. j \in 1 .. Len(Layout) /\ k \in 1 .. Len(Layout)
  BY DEF Named
<1>2. ~(j < k) /\ ~(k < j)
  BY <1>1, LayoutMonotone, LayoutTypes
<1> QED  BY <1>1, <1>2, LayoutTypes

\* Hence the partition of an entry.
LEMMA AtSlotIs == ASSUME NEW k \in Named(Layout) PROVE AtSlot(Layout[k].slot) = k
  BY SlotUnique DEF AtSlot

-----------------------------------------------------------------------------
(***************************************************************************)
(* Tables.                                                                 *)
(***************************************************************************)

\* Sectors before a sector have fewer entries.
LEMMA TimesMonotone ==
  ASSUME NEW a \in Int, NEW b \in Int, NEW c \in Nat, a <= b PROVE a * c <= b * c
  OBVIOUS

\* The entries of one sector after another.
LEMMA SectorStep ==
  ASSUME NEW k \in Int
  PROVE  k * PerSector \in Int /\ (k - 1) * PerSector + PerSector = k * PerSector
  OBVIOUS

\* The entries that load_ptbl() reads, sector by sector.
LEMMA SlotOfSector ==
  ASSUME NEW k \in 1 .. EntrySectors - 1, NEW i \in 0 .. PerSector - 1
  PROVE  (k - 1) * PerSector + i \in Slots
<1>1. (k - 1) * PerSector \in Int /\ 0 * PerSector <= (k - 1) * PerSector
  BY TimesMonotone
<1>2. k * PerSector <= EntrySectors * PerSector
  BY TimesMonotone
<1>3. (k - 1) * PerSector + PerSector = k * PerSector /\ k * PerSector \in Int
  BY SectorStep
<1>4. EntrySectors * PerSector \in Int /\ 0 * PerSector = 0
  OBVIOUS
<1> QED  BY <1>1, <1>2, <1>3, <1>4 DEF Slots

\* The entry of a partition is one of the table.
LEMMA SlotInTable == ASSUME NEW k \in Named(Layout) PROVE Layout[k].slot \in Slots
<1>1. k \in 1 .. Len(Layout)
  BY DEF Named
<1>2. Layout[k].slot \in Nat /\ Layout[k].slot < PerSector * (EntrySectors - 1)
  BY <1>1, LayoutTypes, LayoutEnds
<1>3. PerSector * (EntrySectors - 1) = (EntrySectors - 1) * PerSector
  OBVIOUS
<1>4. /\ (EntrySectors - 1) * PerSector + PerSector = EntrySectors * PerSector
      /\ EntrySectors * PerSector \in Int /\ (EntrySectors - 1) * PerSector \in Int
  BY SectorStep
<1> QED  BY <1>2, <1>3, <1>4 DEF Slots

\* An entry of zeros is an entry.
LEMMA NoneType == None \in Entry
  BY TablesAssumption DEF None, Entry

\* An entry with a place in the storage is not one of zeros.
LEMMA NotNone == ASSUME NEW e, NEW b, InStorage(e, b) PROVE e # None
<1>1. None.first = 0
  BY DEF None
<1>2. e.first >= EntrySectors + 2
  BY DEF InStorage, FirstLba
<1>3. ~(0 >= EntrySectors + 2)
  OBVIOUS
<1> QED  BY <1>1, <1>2, <1>3

\* The fields of a built-in partition.
LEMMA PartFields ==
  ASSUME NEW k \in Named(Layout), blocks \in Nat \ {0}
  PROVE  /\ Part(k) \in Entry /\ Part(k).first = Layout[k].at
         /\ Part(k).last = IF Layout[k].size_kb = 0 THEN blocks - 1
                           ELSE Layout[k].at + Layout[k].size_kb * 2 - 1
<1>1. k \in 1 .. Len(Layout)
  BY DEF Named
<1>2. /\ Layout[k].name \in Names /\ Layout[k].size_kb \in Nat /\ Layout[k].at \in Nat
  BY <1>1, LayoutTypes
<1>3. Last(k) \in Nat
  BY <1>2 DEF Last
<1> QED  BY <1>2, <1>3 DEF Part, Last, Entry

\* Two built-in partitions lie apart.
LEMMA PartsApart ==
  ASSUME NEW j \in Named(Layout), NEW k \in Named(Layout), j # k, blocks \in Nat \ {0}
  PROVE  EntriesApart(Part(j), Part(k))
<1>1. ASSUME NEW i \in Named(Layout), NEW l \in Named(Layout), i < l
      PROVE  Part(i).last < Part(l).first
  <2>1. i \in 1 .. Len(Layout) /\ l \in 1 .. Len(Layout)
    BY DEF Named
  <2>2. Layout[i].at + Layout[i].size_kb * 2 <= Layout[l].at
    BY <1>1, <2>1, LayoutMonotone
  <2>3. Layout[i].size_kb # 0
    <3>1. CASE i = 1
      BY <3>1, LayoutEnds
    <3>2. CASE i # 1
      <4>1. i - 1 \in 1 .. Len(Layout) - 1 /\ (i - 1) + 1 = i /\ i # Len(Layout)
        BY <1>1, <2>1, <3>2, LayoutTypes
      <4> QED  BY <4>1, LayoutStep
    <3> QED  BY <3>1, <3>2
  <2>4. Layout[i].at \in Nat /\ Layout[i].size_kb \in Nat /\ Layout[l].at \in Nat
    BY <2>1, LayoutTypes
  <2>5. Part(i).last = Layout[i].at + Layout[i].size_kb * 2 - 1 /\ Part(l).first = Layout[l].at
    BY <2>3, PartFields
  <2>6. Layout[i].at + Layout[i].size_kb * 2 \in Nat
    BY <2>4, SectorsType
  <2> QED  BY <2>2, <2>4, <2>5, <2>6
<1>2. j \in Int /\ k \in Int
  BY LayoutTypes DEF Named
<1>3. CASE j < k
  BY <1>1, <1>3 DEF EntriesApart
<1>4. CASE k < j
  BY <1>1, <1>4 DEF EntriesApart
<1> QED  BY <1>2, <1>3, <1>4

\* What there is in an entry while the table is filled.
LEMMA FilledAt ==
  ASSUME NEW k \in Int, NEW s \in Slots
  PROVE  \/ /\ Filled(k)[s] = None
            /\ \A j \in Named(Layout) : j < k => Layout[j].slot # s
         \/ \E j \in Named(Layout) : j < k /\ Layout[j].slot = s /\ Filled(k)[s] = Part(j)
<1>1. CASE \E j \in Named(Layout) : j < k /\ Layout[j].slot = s
  <2>1. PICK j \in Named(Layout) : j < k /\ Layout[j].slot = s
    BY <1>1
  <2>2. AtSlot(s) = j
    BY <2>1, AtSlotIs
  <2>3. Filled(k)[s] = Part(AtSlot(s))
    BY <1>1 DEF Filled
  <2> QED  BY <2>1, <2>2, <2>3
<1>2. CASE ~\E j \in Named(Layout) : j < k /\ Layout[j].slot = s
  BY <1>2 DEF Filled
<1> QED  BY <1>1, <1>2

\* The full table.
LEMMA FinalAt ==
  ASSUME NEW s \in Slots, Final[s] # None
  PROVE  \E j \in Named(Layout) : Layout[j].slot = s /\ Final[s] = Part(j)
<1>1. Len(Layout) + 1 \in Int
  BY LayoutTypes
<1> QED  BY <1>1, FilledAt DEF Final

\* Every built-in partition is in the full table.
LEMMA FinalHas ==
  ASSUME NEW k \in Named(Layout)
  PROVE  Layout[k].slot \in Slots /\ Final[Layout[k].slot] = Part(k)
<1>1. k \in 1 .. Len(Layout) /\ k < Len(Layout) + 1
  BY LayoutTypes DEF Named
<1>2. Layout[k].slot \in Slots
  BY SlotInTable
<1>3. Final[Layout[k].slot] = Part(AtSlot(Layout[k].slot))
  BY <1>1, <1>2 DEF Final, Filled
<1> QED  BY <1>2, <1>3, AtSlotIs

\* A part of the full table is a good table.
LEMMA FinalApart ==
  ASSUME blocks \in Nat \ {0}, NEW t, \A s \in Slots : t[s] \in {None, Final[s]}
  PROVE  TableOK(t)
<1> SUFFICES ASSUME NEW s \in Slots, NEW u \in Slots, s # u, t[s] # None, t[u] # None
             PROVE  EntriesApart(t[s], t[u])
  BY DEF TableOK
<1>1. t[s] = Final[s] /\ t[u] = Final[u]
  OBVIOUS
<1>2. PICK j \in Named(Layout) : Layout[j].slot = s /\ Final[s] = Part(j)
  BY <1>1, FinalAt
<1>3. PICK k \in Named(Layout) : Layout[k].slot = u /\ Final[u] = Part(k)
  BY <1>1, FinalAt
<1>4. j # k
  BY <1>2, <1>3
<1> QED  BY <1>1, <1>2, <1>3, <1>4, PartsApart

\* The built-in partitions are in the storage, if add_ptn() found them so.
LEMMA FinalInStorage ==
  ASSUME LayoutFits, NEW s \in Slots, Final[s] # None PROVE InStorage(Final[s], blocks)
  BY FinalAt DEF LayoutFits

\* do_format() puts a partition in the first free entry, which is the one of the layout.
LEMMA FreeSlotIs ==
  ASSUME NEW k \in Named(Layout), table = Filled(k),
         \A j \in Named(Layout) : j < k => InStorage(Part(j), blocks)
  PROVE  table[Layout[k].slot] = None /\ FreeSlot = Layout[k].slot
<1> DEFINE c == Layout[k].slot
<1>1. k \in 1 .. Len(Layout) /\ k \in Int /\ c \in Slots /\ c \in Nat
  BY SlotInTable, LayoutTypes DEF Named
<1>2. table[c] = None
  <2>1. ASSUME NEW j \in Named(Layout), j < k, Layout[j].slot = Layout[k].slot PROVE FALSE
    <3>1. j = k
      BY <2>1, SlotUnique
    <3> QED  BY <1>1, <2>1, <3>1
  <2> QED  BY <1>1, <2>1, FilledAt
<1>3. ASSUME NEW u \in 0 .. c - 1 PROVE table[u] # None
  <2>1. u \in Nat /\ u < c /\ u \in Slots
    BY <1>1 DEF Slots
  <2>2. PICK j \in Named(Layout) : j < k /\ Layout[j].slot = u
    BY <1>1, <2>1, SlotsTaken
  <2>3. Filled(k)[u] = Part(AtSlot(u))
    BY <2>1, <2>2 DEF Filled
  <2>4. Filled(k)[u] = Part(j)
    BY <2>2, <2>3, AtSlotIs
  <2> QED  BY <2>2, <2>4, NotNone
<1>4. ASSUME NEW s \in Slots, table[s] = None, \A u \in 0 .. s - 1 : table[u] # None
      PROVE  s = c
  <2>1. s \in Nat
    BY DEF Slots
  <2>2. ~(s < c)
    BY <1>1, <1>3, <1>4, <2>1
  <2>3. ~(c < s)
    BY <1>1, <1>2, <1>4, <2>1
  <2> QED  BY <1>1, <2>1, <2>2, <2>3
<1> HIDE DEF c
<1>5. FreeSlot = c
  BY <1>1, <1>2, <1>3, <1>4 DEF FreeSlot
<1> QED  BY <1>2, <1>5 DEF c

\* The table after one more partition.
LEMMA FilledStep ==
  ASSUME NEW k \in 1 .. Len(Layout)
  PROVE  Filled(k + 1) = IF k \in Named(Layout) THEN [Filled(k) EXCEPT ![Layout[k].slot] = Part(k)]
                         ELSE Filled(k)
<1>1. \A j \in Named(Layout) : j < k + 1 <=> j < k \/ j = k
  BY LayoutTypes DEF Named
<1>2. CASE k \notin Named(Layout)
  <2>1. \A j \in Named(Layout) : j < k + 1 <=> j < k
    BY <1>1, <1>2
  <2> QED  BY <1>2, <2>1 DEF Filled
<1>3. CASE k \in Named(Layout)
  <2> DEFINE F == [Filled(k) EXCEPT ![Layout[k].slot] = Part(k)]
  <2>1. ASSUME NEW s \in Slots PROVE Filled(k + 1)[s] = F[s]
    <3>1. CASE s = Layout[k].slot
      <4>1. Filled(k + 1)[s] = Part(AtSlot(s))
        BY <1>1, <1>3, <3>1 DEF Filled
      <4>2. AtSlot(s) = k
        BY <1>3, <3>1, AtSlotIs
      <4>3. F[s] = Part(k)
        BY <3>1 DEF Filled
      <4> QED  BY <4>1, <4>2, <4>3
    <3>2. CASE s # Layout[k].slot
      <4>1. (\E j \in Named(Layout) : j < k + 1 /\ Layout[j].slot = s)
              <=> (\E j \in Named(Layout) : j < k /\ Layout[j].slot = s)
        BY <1>1, <3>2
      <4> QED  BY <3>2, <4>1 DEF Filled
    <3> QED  BY <3>1, <3>2
  <2>2. Filled(k + 1) = [s \in Slots |-> Filled(k + 1)[s]] /\ F = [s \in Slots |-> F[s]]
    BY DEF Filled
  <2>3. Filled(k + 1) = F
    <3> HIDE DEF F
    <3> QED  BY <2>1, <2>2
  <2> QED  BY <1>3, <2>3
<1> QED  BY <1>2, <1>3

\* Nothing has been added at first.
LEMMA FilledFirst == Filled(1) = Blank
<1>1. \A j \in Named(Layout) : ~(j < 1)
  BY DEF Named
<1> QED  BY <1>1 DEF Filled, Blank

-----------------------------------------------------------------------------
(***************************************************************************)
(* The inductive invariant.  First what does not change with the storage,  *)
(* or with the list.                                                       *)
(***************************************************************************)

\* The size of the storage is that of the built-in partitions' end.
LEMMA BlocksKept ==
  ASSUME blocks' = blocks
  PROVE  /\ \A k \in Named(Layout) : Part(k)' = Part(k)
         /\ \A k : Filled(k)' = Filled(k)
         /\ Final' = Final /\ LayoutFits' = LayoutFits
  BY DEF Part, Last, Final, Filled, LayoutFits, InStorage

\* The sizes are those of a storage.
LEMMA BlocksType == ASSUME IInv PROVE blocks \in Nat \ {0} /\ blocks < UIntMod
<1>1. Sizes \subseteq 1 .. UIntMod - 1 /\ UIntMod \in Nat
  BY TablesAssumption, LayoutAssumption
<1>2. blocks \in Sizes
  BY DEF IInv, TypeOK
<1>3. blocks \in 1 .. UIntMod - 1
  BY <1>1, <1>2
<1> QED  BY <1>1, <1>3

\* A step that leaves the storage alone.
LEMMA DiskKept == ASSUME IInv, UNCHANGED storage PROVE DiskOK'
<1>1. UNCHANGED <<blocks, magic, entries, origin>>
  BY DEF storage
<1>2. Final' = Final /\ LayoutFits' = LayoutFits
  BY <1>1, BlocksKept
<1> QED  BY <1>1, <1>2 DEF IInv, DiskOK, TableOK, InStorage, EntriesApart

\* An empty list.
LEMMA EmptyList ==
  ASSUME ptable' = <<>>, loaded' = FALSE PROVE ListOK' /\ Disjoint' /\ Whole'
<1>1. DOMAIN ptable' = {}
  OBVIOUS
<1> QED  BY <1>1 DEF ListOK, Disjoint, Whole

\* A list and a storage that stay as they are, outside of load_ptbl().
LEMMA ListKept ==
  ASSUME IInv, UNCHANGED <<storage, ptable, blind, loaded>>,
         pc' \notin {"read", "import"}
  PROVE  ListOK' /\ ListProgress' /\ Disjoint' /\ Whole'
<1>1. UNCHANGED <<blocks, magic, entries, origin>>
  BY DEF storage
<1>2. ListOK' /\ ListProgress'
  BY <1>1 DEF IInv, ListOK, FromSlot, Imported, ListProgress
<1>3. Disjoint'
  BY <1>1 DEF IInv, Disjoint, End
<1>4. Whole'
  <2>1. \A k \in Named(Layout) : Part(k)' = Part(k)
    BY <1>1, BlocksKept
  <2> QED  BY <1>1, <2>1 DEF IInv, Whole, Imported
<1> QED  BY <1>2, <1>3, <1>4

\* Bounds.
LEMMA BoundsKept ==
  ASSUME IInv, Fault \/ NoFault
  PROVE  failed' \in BOOLEAN /\ cuts' \in 0 .. MaxCuts /\ formats' \in 0 .. MaxFormats
  BY DEF IInv, TypeOK, Fault, NoFault, faults

\* Numbers below the modulus are not changed by it.
LEMMA ModSmall ==
  ASSUME NEW b \in Nat \ {0}, NEW a \in Nat, a < b PROVE a % b = a
  OBVIOUS

LEMMA ModType == ASSUME NEW b \in Nat \ {0}, NEW a \in Int PROVE a % b \in Nat
  OBVIOUS

\* What an entry of the storage becomes in the list.
LEMMA ImportedIs ==
  ASSUME IInv, NEW e \in Entry, InStorage(e, blocks)
  PROVE  /\ Imported(e) \in Sized /\ Imported(e).start = e.first
         /\ End(Imported(e)) = (e.last + 1) * 512
<1>1. e.name \in Names /\ e.first \in Nat /\ e.last \in Nat
  BY DEF Entry
<1>2. blocks \in Nat /\ blocks < UIntMod /\ UIntMod \in Nat \ {0}
  BY BlocksType, LayoutAssumption
<1>3. e.first < UIntMod /\ e.first <= e.last + 1
  BY <1>1, <1>2 DEF InStorage
<1>4. e.first % UIntMod = e.first
  BY <1>1, <1>2, <1>3, ModSmall
<1>5. (e.last - e.first + 1) * 512 \in Nat
  BY <1>1, <1>3
<1>6. Imported(e).start = e.first /\ Imported(e).length = (e.last - e.first + 1) * 512
  BY <1>4 DEF Imported
<1>7. e.first * 512 + (e.last - e.first + 1) * 512 = (e.last + 1) * 512
  BY <1>1
<1>8. Imported(e) \in Sized
  BY <1>1, <1>4, <1>5 DEF Imported, Sized
<1> QED  BY <1>6, <1>7, <1>8 DEF End

\* Entries that lie apart, in bytes.
LEMMA ImportedApart ==
  ASSUME IInv, NEW e \in Entry, NEW f \in Entry, InStorage(e, blocks), InStorage(f, blocks),
         EntriesApart(e, f)
  PROVE  \/ End(Imported(e)) <= Imported(f).start * 512
         \/ End(Imported(f)) <= Imported(e).start * 512
<1>1. e.first \in Nat /\ e.last \in Nat /\ f.first \in Nat /\ f.last \in Nat
  BY DEF Entry
<1>2. (e.last + 1) * 512 <= f.first * 512 \/ (f.last + 1) * 512 <= e.first * 512
  BY <1>1 DEF EntriesApart
<1> QED  BY <1>2, ImportedIs

\* The table on the storage, unless two were mixed.
LEMMA DiskTable == ASSUME IInv, origin # "mixed" PROVE TableOK(entries)
<1>1. CASE origin = "foreign"
  BY <1>1 DEF IInv, DiskOK
<1>2. CASE origin \in {"blank", "part", "own"}
  <2>1. \A s \in Slots : entries[s] \in {None, Final[s]}
    BY <1>2 DEF IInv, DiskOK
  <2> QED  BY <2>1, FinalApart, BlocksType
<1> QED  BY <1>1, <1>2 DEF IInv, TypeOK, Origins

\* A sector of entries.
LEMMA SectorIs ==
  ASSUME IInv, NEW k \in 0 .. EntrySectors - 1
  PROVE  /\ Sector(k) \in [0 .. PerSector - 1 -> Entry]
         /\ \A i \in 0 .. PerSector - 1 : Sector(k)[i] # None => InStorage(Sector(k)[i], blocks)
<1>1. ASSUME NEW i \in 0 .. PerSector - 1
      PROVE  Sector(k)[i] \in Entry /\ (Sector(k)[i] # None => InStorage(Sector(k)[i], blocks))
  <2>1. CASE k = 0
    BY <2>1, NoneType DEF Sector
  <2>2. CASE k # 0
    <3>1. k \in 1 .. EntrySectors - 1
      BY <2>2
    <3>2. (k - 1) * PerSector + i \in Slots
      BY <3>1, SlotOfSector
    <3>3. Sector(k)[i] = entries[(k - 1) * PerSector + i]
      BY <2>2 DEF Sector
    <3> QED  BY <3>2, <3>3 DEF IInv, TypeOK, DiskOK
  <2> QED  BY <2>1, <2>2
<1>2. Sector(k) = [i \in 0 .. PerSector - 1 |-> Sector(k)[i]]
  BY DEF Sector
<1> QED  BY <1>1, <1>2

\* The first state.
LEMMA InitIInv == Init => IInv
<1> SUFFICES ASSUME Init PROVE IInv
  OBVIOUS
<1>1. None \in Entry
  BY NoneType
<1>2. blocks \in Sizes /\ entries \in [Slots -> Entry] /\ table \in [Slots -> Entry]
  BY <1>1, TablesAssumption DEF Init, Blank
<1>3. buf \in [0 .. PerSector - 1 -> Entry] /\ ptable \in Seq(Sized) /\ Len(ptable) <= MaxPtn
  BY <1>1, LayoutAssumption DEF Init
<1>4. failed \in BOOLEAN /\ cuts \in 0 .. MaxCuts /\ formats \in 0 .. MaxFormats
  BY DEF Init
<1>5. n \in 0 .. EntrySectors /\ m \in 0 .. PerSector - 1 /\ next \in Nat /\ size \in {0, blocks}
  BY DEF Init
<1>6. TypeOK
  <2>1. magic \in BOOLEAN /\ origin \in Origins /\ dev \in BOOLEAN /\ data \in BOOLEAN
        /\ asked \in BOOLEAN /\ blind \in BOOLEAN /\ loaded \in BOOLEAN /\ pc = "off"
    BY DEF Init, Origins
  <2> QED  BY <1>2, <1>3, <1>4, <1>5, <2>1 DEF TypeOK
<1>7. DiskOK
  <2>1. CASE entries = Blank /\ origin = "blank"
    BY <2>1 DEF DiskOK, Blank
  <2>2. CASE origin = "foreign" /\ entries \in OldTables
             /\ \A s \in Slots : entries[s] # None => InStorage(entries[s], blocks)
    BY <2>2, TablesAssumption DEF DiskOK
  <2> QED  BY <2>1, <2>2 DEF Init
<1>8. TableBuilt /\ LoadOK
  BY DEF Init, TableBuilt, LoadOK
<1>9. ListOK /\ ListProgress /\ Disjoint /\ Whole
  <2>1. DOMAIN ptable = {} /\ loaded = FALSE /\ pc = "off"
    BY DEF Init
  <2> QED  BY <2>1 DEF ListOK, ListProgress, Disjoint, Whole
<1> QED  BY <1>6, <1>7, <1>8, <1>9 DEF IInv

\* Power-on, with an mmc_init() that works or not.
LEMMA PowerOnIInv == ASSUME IInv, PowerOn PROVE IInv'
<1>1. UNCHANGED <<storage, data, buf, ptable, m, blind, loaded, n, table, next, asked>>
  BY DEF PowerOn, loading
<1>2. /\ dev' \in BOOLEAN /\ size' \in {0, blocks} /\ pc = "off" /\ pc' = "load"
      /\ Fault \/ NoFault
  BY DEF PowerOn, MmcInit, IInv, TypeOK
<1>3. TypeOK'
  <2>1. failed' \in BOOLEAN /\ cuts' \in 0 .. MaxCuts /\ formats' \in 0 .. MaxFormats
    BY <1>2, BoundsKept
  <2> QED  BY <1>1, <1>2, <2>1 DEF IInv, TypeOK, storage
<1>4. DiskOK'
  BY <1>1, DiskKept
<1>5. TableBuilt'
  BY <1>2 DEF TableBuilt
<1>6. LoadOK'
  BY <1>1, <1>2 DEF IInv, LoadOK, storage, InStorage
<1>7. ListOK' /\ ListProgress' /\ Disjoint' /\ Whole'
  BY <1>1, <1>2, ListKept
<1> QED  BY <1>3, <1>4, <1>5, <1>6, <1>7 DEF IInv

\* load_ptbl() starts with an empty list.
LEMMA LoadPtblIInv == ASSUME IInv, LoadPtbl PROVE IInv'
<1>1. /\ UNCHANGED <<storage, driver, buf, ptable, m, loaded, table, next, asked>>
      /\ n' = 0 /\ blind' = ~dev /\ pc = "load" /\ (Fault \/ NoFault)
  BY DEF LoadPtbl
<1>2. /\ data' \in BOOLEAN /\ pc' \in {"read", "format", "idle"}
      /\ pc' = "format" => ~magic \/ ~dev
  BY DEF LoadPtbl, IInv, TypeOK, Unreadable
<1>3. ptable = <<>> /\ loaded = FALSE /\ m = 0
  BY <1>1 DEF IInv, LoadOK, TypeOK
<1>4. TypeOK'
  <2>1. failed' \in BOOLEAN /\ cuts' \in 0 .. MaxCuts /\ formats' \in 0 .. MaxFormats
    BY <1>1, BoundsKept
  <2>2. n' \in 0 .. EntrySectors
    BY <1>1
  <2> QED  BY <1>1, <1>2, <2>1, <2>2 DEF IInv, TypeOK, storage, driver
<1>5. DiskOK'
  BY <1>1, DiskKept
<1>6. TableBuilt'
  BY <1>1, <1>2 DEF TableBuilt, storage
<1>7. LoadOK'
  <2>1. blind' <=> ~dev'
    BY <1>1, Zenon DEF driver
  <2>2. n' \in 0 .. EntrySectors - 1
    BY <1>1
  <2>3. \A i \in 0 .. PerSector - 1 : buf'[i] # None => InStorage(buf'[i], blocks')
    BY <1>1 DEF IInv, LoadOK, storage
  <2> QED  BY <1>1, <1>2, <1>3, <2>1, <2>2, <2>3 DEF LoadOK
<1>8. ListOK' /\ Disjoint' /\ Whole'
  BY <1>1, <1>3, EmptyList
<1>9. ListProgress'
  <2>1. SlotsRead' < 0
    <3>1. SlotsRead' = (0 - 1) * PerSector + 0
      BY <1>1, <1>3 DEF SlotsRead
    <3> QED  BY <3>1
  <2>2. \A s \in Slots : ~(s < SlotsRead')
    <3>1. SlotsRead' \in Int
      BY <1>1, <1>3 DEF SlotsRead
    <3> QED  BY <2>1, <3>1 DEF Slots
  <2> QED  BY <1>1, <1>3, <2>2 DEF ListProgress
<1> QED  BY <1>4, <1>5, <1>6, <1>7, <1>8, <1>9 DEF IInv

\* A sector is read, or cannot be read.
LEMMA ReadSectorIInv == ASSUME IInv, ReadSector PROVE IInv'
<1>1. /\ UNCHANGED <<storage, driver, data, ptable, n, blind, loaded, table, next, asked>>
      /\ pc = "read" /\ (Fault \/ NoFault)
  BY DEF ReadSector
<1>2. /\ n \in 0 .. EntrySectors - 1 /\ (blind <=> ~dev) /\ m = 0 /\ ~loaded
      /\ \A i \in 0 .. PerSector - 1 : buf[i] # None => InStorage(buf[i], blocks)
      /\ buf \in [0 .. PerSector - 1 -> Entry]
  BY <1>1 DEF IInv, LoadOK, TypeOK
<1>3. /\ UNCHANGED <<blocks, magic, entries, origin, dev, size>>
  BY <1>1 DEF storage, driver
<1>4. /\ m' = 0 /\ buf' \in {buf, Sector(n)} /\ pc' \in {"import", "idle"}
      /\ pc' = "import" /\ dev => buf' = Sector(n)
  BY <1>2 DEF ReadSector
<1>5. /\ buf' \in [0 .. PerSector - 1 -> Entry]
      /\ \A i \in 0 .. PerSector - 1 : buf'[i] # None => InStorage(buf'[i], blocks)
  BY <1>2, <1>4, SectorIs
<1>6. TypeOK'
  <2>1. failed' \in BOOLEAN /\ cuts' \in 0 .. MaxCuts /\ formats' \in 0 .. MaxFormats
    BY <1>1, BoundsKept
  <2>2. m' \in 0 .. PerSector - 1
    BY <1>4
  <2> QED  BY <1>1, <1>3, <1>4, <1>5, <2>1, <2>2 DEF IInv, TypeOK
<1>7. DiskOK'
  BY <1>1, DiskKept
<1>8. TableBuilt'
  BY <1>4 DEF TableBuilt
<1>9. LoadOK'
  <2>1. Sector(n)' = Sector(n)
    BY <1>1, <1>3 DEF Sector
  <2>2. pc' = "import" /\ ~blind' => buf' = Sector(n)'
    BY <1>1, <1>2, <1>4, <2>1
  <2>3. (blind' <=> ~dev') /\ ~loaded' /\ n' \in 0 .. EntrySectors - 1
    BY <1>1, <1>2, <1>3
  <2>4. \A i \in 0 .. PerSector - 1 : buf'[i] # None => InStorage(buf'[i], blocks')
    BY <1>3, <1>5
  <2> QED  BY <1>4, <2>2, <2>3, <2>4 DEF LoadOK
<1>10. CASE pc' = "idle"
  <2>1. ListOK' /\ ListProgress' /\ Disjoint' /\ Whole'
    BY <1>1, <1>10, ListKept
  <2> QED  BY <1>6, <1>7, <1>8, <1>9, <2>1 DEF IInv
<1>11. CASE pc' = "import"
  <2>1. SlotsRead' = SlotsRead
    BY <1>1, <1>2, <1>4 DEF SlotsRead
  <2>2. ListOK' /\ ListProgress'
    BY <1>1, <1>3, <1>11, <2>1 DEF IInv, ListOK, FromSlot, Imported, ListProgress
  <2>3. Disjoint'
    BY <1>1, <1>3 DEF IInv, Disjoint, End
  <2>4. Whole'
    BY <1>1, <1>2 DEF Whole
  <2> QED  BY <1>6, <1>7, <1>8, <1>9, <2>2, <2>3, <2>4 DEF IInv
<1> QED  BY <1>4, <1>10, <1>11

\* The entry that comes next, and the place that has then been reached.
LEMMA ImportStep ==
  ASSUME IInv, Import
  PROVE  /\ SlotsRead \in Int /\ SlotsRead' = SlotsRead + 1
         /\ n \in 0 .. EntrySectors - 1 /\ m \in 0 .. PerSector - 1 /\ (blind <=> ~dev)
         /\ buf[m] \in Entry /\ (buf[m] # None => InStorage(buf[m], blocks))
         /\ ~blind => \/ n = 0 /\ buf[m] = None /\ SlotsRead < 0
                      \/ n # 0 /\ SlotsRead \in Slots /\ buf[m] = entries[SlotsRead]
<1>1. /\ pc = "import" /\ m \in 0 .. PerSector - 1 /\ n \in 0 .. EntrySectors - 1
      /\ (blind <=> ~dev) /\ buf \in [0 .. PerSector - 1 -> Entry]
      /\ \A i \in 0 .. PerSector - 1 : buf[i] # None => InStorage(buf[i], blocks)
      /\ ~blind => buf = Sector(n)
  BY DEF Import, IInv, TypeOK, LoadOK
<1>2. SlotsRead \in Int /\ SlotsRead = (n - 1) * PerSector + m /\ (n - 1) * PerSector \in Int
  BY <1>1 DEF SlotsRead
<1>3. SlotsRead' = SlotsRead + 1
  <2>1. CASE m + 1 < PerSector
    <3>1. n' = n /\ m' = m + 1
      BY <2>1 DEF Import
    <3> QED  BY <1>1, <1>2, <3>1 DEF SlotsRead
  <2>2. CASE ~(m + 1 < PerSector)
    <3>1. n' = n + 1 /\ m' = 0
      BY <2>2 DEF Import
    <3>2. m + 1 = PerSector
      BY <1>1, <2>2
    <3>3. (n - 1) * PerSector + PerSector = n * PerSector /\ n * PerSector \in Int
      BY <1>1, SectorStep
    <3>4. (n + 1) - 1 = n
      BY <1>1
    <3>5. SlotsRead' = n * PerSector + 0
      BY <3>1, <3>4 DEF SlotsRead
    <3> QED  BY <1>1, <1>2, <3>2, <3>3, <3>5
  <2> QED  BY <2>1, <2>2
<1>4. ASSUME ~blind
      PROVE  \/ n = 0 /\ buf[m] = None /\ SlotsRead < 0
             \/ n # 0 /\ SlotsRead \in Slots /\ buf[m] = entries[SlotsRead]
  <2>1. CASE n = 0
    <3>1. buf[m] = None
      BY <1>1, <1>4, <2>1 DEF Sector
    <3>2. SlotsRead = (0 - 1) * PerSector + m
      BY <1>2, <2>1
    <3>3. (0 - 1) * PerSector + m < 0
      BY <1>1
    <3> QED  BY <2>1, <3>1, <3>2, <3>3
  <2>2. CASE n # 0
    <3>1. n \in 1 .. EntrySectors - 1
      BY <1>1, <2>2
    <3>2. SlotsRead \in Slots
      BY <1>1, <1>2, <3>1, SlotOfSector
    <3>3. buf[m] = entries[(n - 1) * PerSector + m]
      BY <1>1, <1>4, <2>2 DEF Sector
    <3> QED  BY <1>2, <2>2, <3>2, <3>3
  <2> QED  BY <2>1, <2>2
<1> QED  BY <1>1, <1>2, <1>3, <1>4

\* The list with one more entry.
LEMMA ImportList ==
  ASSUME IInv, Import
  PROVE  \/ ptable' = ptable /\ (buf[m] = None \/ Len(ptable) >= MaxPtn)
         \/ /\ buf[m] # None /\ Len(ptable) < MaxPtn
            /\ ptable' = Append(ptable, Imported(buf[m])) /\ Len(ptable') = Len(ptable) + 1
            /\ DOMAIN ptable' = 1 .. Len(ptable) + 1
            /\ \A i \in DOMAIN ptable : ptable'[i] = ptable[i]
            /\ ptable'[Len(ptable) + 1] = Imported(buf[m])
<1>1. ptable \in Seq(Sized) /\ Len(ptable) \in Nat /\ MaxPtn \in Nat
  BY LayoutAssumption DEF IInv, TypeOK
<1>2. CASE buf[m] = None \/ Len(ptable) >= MaxPtn
  BY <1>2 DEF Import, ImportedTo
<1>3. CASE ~(buf[m] = None \/ Len(ptable) >= MaxPtn)
  <2>1. ptable' = Append(ptable, Imported(buf[m]))
    BY <1>3 DEF Import, ImportedTo
  <2>2. Imported(buf[m]) \in Sized
    BY <1>3, ImportStep, ImportedIs
  <2> HIDE DEF Sized
  <2> QED  BY <1>1, <1>3, <2>1, <2>2, AppendProperties
<1> QED  BY <1>2, <1>3

\* It holds entries that have been read, and of a full table all of them.
LEMMA ImportProgress ==
  ASSUME IInv, Import, ~blind
  PROVE  /\ \A i \in DOMAIN ptable' : \E s \in Slots :
              entries[s] # None /\ ptable'[i] = Imported(entries[s]) /\ s < SlotsRead + 1
         /\ origin = "own" =>
              /\ ptable' = <<>> \/ Len(ptable') <= SlotsRead + 1
              /\ \A s \in Slots : s < SlotsRead + 1 /\ entries[s] # None =>
                   \E i \in DOMAIN ptable' : ptable'[i] = Imported(entries[s])
<1>0. pc = "import"
  BY DEF Import
<1>1. /\ SlotsRead \in Int
      /\ \/ n = 0 /\ buf[m] = None /\ SlotsRead < 0
         \/ n # 0 /\ SlotsRead \in Slots /\ buf[m] = entries[SlotsRead]
  BY ImportStep
<1>2. \A i \in DOMAIN ptable : \E s \in Slots :
        entries[s] # None /\ ptable[i] = Imported(entries[s]) /\ s < SlotsRead
  BY <1>0 DEF IInv, ListOK, FromSlot
<1>3. origin = "own" =>
        /\ ptable = <<>> \/ Len(ptable) <= SlotsRead
        /\ \A s \in Slots : s < SlotsRead /\ entries[s] # None =>
             \E i \in DOMAIN ptable : ptable[i] = Imported(entries[s])
  BY <1>0 DEF IInv, ListProgress
<1>4. ptable \in Seq(Sized) /\ Len(ptable) \in Nat /\ DOMAIN ptable = 1 .. Len(ptable)
  BY DEF IInv, TypeOK
<1>5. \A s \in Slots : s \in Int /\ 0 <= s
  BY DEF Slots
<1>6. CASE ptable' = ptable /\ (buf[m] = None \/ Len(ptable) >= MaxPtn)
  <2>1. ASSUME origin = "own", NEW s \in Slots, s = SlotsRead, entries[s] # None PROVE FALSE
    <3>1. entries[s] = Final[s]
      BY <2>1 DEF IInv, DiskOK
    <3>2. PICK k \in Named(Layout) : Layout[k].slot = s
      BY <2>1, <3>1, FinalAt
    <3>3. s < MaxPtn /\ MaxPtn \in Nat
      BY <3>2, LayoutEnds, LayoutAssumption
    <3>4. Len(ptable) >= MaxPtn
      BY <1>1, <1>5, <1>6, <2>1
    <3>5. ptable # <<>>
      BY <1>5, <3>3, <3>4
    <3> QED  BY <1>3, <1>4, <1>5, <2>1, <3>3, <3>4, <3>5
  <2>2. origin = "own" => \A s \in Slots : s < SlotsRead + 1 /\ entries[s] # None =>
                            \E i \in DOMAIN ptable' : ptable'[i] = Imported(entries[s])
    BY <1>1, <1>3, <1>5, <1>6, <2>1
  <2>3. origin = "own" => ptable' = <<>> \/ Len(ptable') <= SlotsRead + 1
    BY <1>1, <1>3, <1>4, <1>6
  <2>4. \A i \in DOMAIN ptable' : \E s \in Slots :
          entries[s] # None /\ ptable'[i] = Imported(entries[s]) /\ s < SlotsRead + 1
    <3>1. \A s \in Slots : s < SlotsRead => s < SlotsRead + 1
      BY <1>1, <1>5
    <3> QED  BY <1>2, <1>6, <3>1
  <2> QED  BY <2>2, <2>3, <2>4
<1>7. CASE /\ buf[m] # None /\ Len(ptable') = Len(ptable) + 1
           /\ DOMAIN ptable' = 1 .. Len(ptable) + 1
           /\ \A i \in DOMAIN ptable : ptable'[i] = ptable[i]
           /\ ptable'[Len(ptable) + 1] = Imported(buf[m])
  <2>1. SlotsRead \in Slots /\ buf[m] = entries[SlotsRead] /\ entries[SlotsRead] # None
    BY <1>1, <1>7
  <2>2. SlotsRead < SlotsRead + 1 /\ \A s \in Slots : s < SlotsRead => s < SlotsRead + 1
    BY <1>1, <1>5
  <2>3. ASSUME NEW i \in DOMAIN ptable'
        PROVE  \E s \in Slots :
                 entries[s] # None /\ ptable'[i] = Imported(entries[s]) /\ s < SlotsRead + 1
    <3>1. i \in DOMAIN ptable \/ i = Len(ptable) + 1
      BY <1>4, <1>7
    <3>2. CASE i \in DOMAIN ptable
      BY <1>2, <1>7, <2>2, <3>2
    <3>3. CASE i = Len(ptable) + 1
      BY <1>7, <2>1, <2>2, <3>3
    <3> QED  BY <3>1, <3>2, <3>3
  <2>4. origin = "own" => ptable' = <<>> \/ Len(ptable') <= SlotsRead + 1
    <3>1. ptable = <<>> => Len(ptable') <= SlotsRead + 1
      BY <1>5, <1>7, <2>1
    <3> QED  BY <1>1, <1>3, <1>4, <1>7, <3>1
  <2>5. ASSUME origin = "own", NEW s \in Slots, s < SlotsRead + 1, entries[s] # None
        PROVE  \E i \in DOMAIN ptable' : ptable'[i] = Imported(entries[s])
    <3>1. s < SlotsRead \/ s = SlotsRead
      BY <1>1, <1>5, <2>5
    <3>2. CASE s < SlotsRead
      <4>1. PICK i \in DOMAIN ptable : ptable[i] = Imported(entries[s])
        BY <1>3, <2>5, <3>2
      <4>2. i \in DOMAIN ptable'
        BY <1>4, <1>7
      <4> QED  BY <1>7, <4>1, <4>2
    <3>3. CASE s = SlotsRead
      <4>1. Len(ptable) + 1 \in DOMAIN ptable'
        BY <1>4, <1>7
      <4> QED  BY <1>7, <2>1, <3>3, <4>1
    <3> QED  BY <3>1, <3>2, <3>3
  <2> QED  BY <2>3, <2>4, <2>5
<1> QED  BY <1>6, <1>7, ImportList

\* The new partition lies apart from those of the list.
LEMMA ImportDisjoint == ASSUME IInv, Import PROVE Disjoint'
<1>1. UNCHANGED <<blocks, entries, origin, blind>> /\ pc = "import"
  BY DEF Import, storage
<1> SUFFICES ASSUME ~blind, origin # "mixed"
             PROVE  /\ \A i \in DOMAIN ptable' :
                         ptable'[i].start >= FirstLba /\ End(ptable'[i]) <= blocks * 512
                    /\ \A i \in DOMAIN ptable', j \in DOMAIN ptable' :
                         i # j => \/ End(ptable'[i]) <= ptable'[j].start * 512
                                  \/ End(ptable'[j]) <= ptable'[i].start * 512
  BY <1>1 DEF Disjoint, End
<1> DEFINE In(p)       == p.start >= FirstLba /\ End(p) <= blocks * 512
           Apart(p, q) == End(p) <= q.start * 512 \/ End(q) <= p.start * 512
<1>2. /\ \A i \in DOMAIN ptable : In(ptable[i])
      /\ \A i \in DOMAIN ptable, j \in DOMAIN ptable : i # j => Apart(ptable[i], ptable[j])
  BY DEF IInv, Disjoint
<1>3. CASE ptable' = ptable
  BY <1>2, <1>3
<1>4. CASE /\ buf[m] # None /\ DOMAIN ptable' = 1 .. Len(ptable) + 1
           /\ \A i \in DOMAIN ptable : ptable'[i] = ptable[i]
           /\ ptable'[Len(ptable) + 1] = Imported(buf[m])
  <2> DEFINE c == SlotsRead
  <2>1. c \in Int /\ c \in Slots /\ buf[m] = entries[c] /\ entries[c] # None
    BY <1>4, ImportStep
  <2>2. entries \in [Slots -> Entry] /\ \A s \in Slots : entries[s] # None => InStorage(entries[s], blocks)
    BY DEF IInv, TypeOK, DiskOK
  <2>3. entries[c] \in Entry /\ InStorage(entries[c], blocks)
    BY <2>1, <2>2
  <2>4. In(Imported(entries[c]))
    <3>1. entries[c].first \in Nat /\ entries[c].last \in Nat /\ blocks \in Nat
      BY <2>3, BlocksType DEF Entry
    <3>2. entries[c].first >= FirstLba /\ (entries[c].last + 1) * 512 <= blocks * 512
      BY <2>3, <3>1 DEF InStorage
    <3> QED  BY <2>3, <3>2, ImportedIs
  <2>5. ASSUME NEW i \in DOMAIN ptable
        PROVE  Apart(ptable[i], Imported(entries[c])) /\ Apart(Imported(entries[c]), ptable[i])
    <3>1. PICK s \in Slots : entries[s] # None /\ ptable[i] = Imported(entries[s]) /\ s < c
      BY <1>1 DEF IInv, ListOK, FromSlot
    <3>2. s # c
      BY <2>1, <3>1
    <3>3. EntriesApart(entries[s], entries[c])
      BY <2>1, <3>1, <3>2, DiskTable DEF TableOK
    <3>4. entries[s] \in Entry /\ InStorage(entries[s], blocks)
      BY <2>2, <3>1
    <3>5. Apart(Imported(entries[s]), Imported(entries[c]))
      BY <2>3, <3>3, <3>4, ImportedApart
    <3> QED  BY <3>1, <3>5
  <2>6. ptable \in Seq(Sized) /\ Len(ptable) \in Nat /\ DOMAIN ptable = 1 .. Len(ptable)
    BY DEF IInv, TypeOK
  <2>7. \A i \in DOMAIN ptable' : i \in DOMAIN ptable \/ i = Len(ptable) + 1
    BY <1>4, <2>6
  <2> HIDE DEF In, Apart, c
  <2>8. \A i \in DOMAIN ptable' : In(ptable'[i])
    BY <1>2, <1>4, <2>1, <2>4, <2>7
  <2>9. \A i \in DOMAIN ptable', j \in DOMAIN ptable' : i # j => Apart(ptable'[i], ptable'[j])
    BY <1>2, <1>4, <2>1, <2>5, <2>7
  <2> QED  BY <2>8, <2>9 DEF In, Apart
<1> QED  BY <1>3, <1>4, ImportList

\* At the end of the loop a full table has been listed.
LEMMA ImportWhole == ASSUME IInv, Import PROVE Whole'
<1>1. UNCHANGED <<blocks, entries, origin, blind>> /\ pc = "import"
  BY DEF Import, storage
<1>2. \A k \in Named(Layout) : Part(k)' = Part(k)
  BY <1>1, BlocksKept
<1> SUFFICES ASSUME loaded', ~blind, origin = "own"
             PROVE  {ptable'[i] : i \in DOMAIN ptable'} = {Imported(Part(k)) : k \in Named(Layout)}
  BY <1>1, <1>2 DEF Whole, Imported
<1>3. entries = Final /\ LayoutFits
  BY DEF IInv, DiskOK
<1>4. n \in 0 .. EntrySectors - 1 /\ m \in 0 .. PerSector - 1 /\ SlotsRead \in Int /\ SlotsRead' = SlotsRead + 1
  BY ImportStep
<1>5. SlotsRead + 1 = (EntrySectors - 1) * PerSector
  <2>1. ~(m + 1 < PerSector)
    BY <1>1 DEF Import, IInv, LoadOK
  <2>2. n' = n + 1 /\ m' = 0 /\ n + 1 >= EntrySectors
    BY <2>1 DEF Import
  <2>3. n' = EntrySectors
    BY <1>4, <2>2
  <2>4. SlotsRead' = (EntrySectors - 1) * PerSector + 0
    BY <2>2, <2>3 DEF SlotsRead
  <2>5. (EntrySectors - 1) * PerSector \in Int
    OBVIOUS
  <2> QED  BY <1>4, <2>4, <2>5
<1>6. ASSUME NEW i \in DOMAIN ptable'
      PROVE  \E k \in Named(Layout) : ptable'[i] = Imported(Part(k))
  <2>1. PICK s \in Slots : entries[s] # None /\ ptable'[i] = Imported(entries[s])
    BY ImportProgress
  <2>2. PICK k \in Named(Layout) : Layout[k].slot = s /\ Final[s] = Part(k)
    BY <1>3, <2>1, FinalAt
  <2> QED  BY <1>3, <2>1, <2>2
<1>7. ASSUME NEW k \in Named(Layout)
      PROVE  \E i \in DOMAIN ptable' : ptable'[i] = Imported(Part(k))
  <2>1. Layout[k].slot \in Slots /\ entries[Layout[k].slot] = Part(k)
    BY <1>3, FinalHas
  <2>2. entries[Layout[k].slot] # None
    BY <1>3, <2>1, NotNone DEF LayoutFits
  <2>3. Layout[k].slot < SlotsRead + 1
    <3>1. PerSector * (EntrySectors - 1) = (EntrySectors - 1) * PerSector
      OBVIOUS
    <3> QED  BY <1>5, <3>1, LayoutEnds
  <2> QED  BY <2>1, <2>2, <2>3, ImportProgress
<1> QED  BY <1>6, <1>7

\* An entry goes into the list.
LEMMA ImportIInv == ASSUME IInv, Import PROVE IInv'
<1>1. /\ UNCHANGED <<storage, driver, data, buf, blind, table, next, asked, faults>>
      /\ pc = "import"
  BY DEF Import
<1>2. UNCHANGED <<blocks, magic, entries, origin, dev, size, failed, cuts, formats>>
  BY <1>1 DEF storage, driver, faults
<1>3. /\ n \in 0 .. EntrySectors - 1 /\ m \in 0 .. PerSector - 1 /\ (blind <=> ~dev)
      /\ SlotsRead' = SlotsRead + 1 /\ buf[m] \in Entry
      /\ buf[m] # None => InStorage(buf[m], blocks)
  BY ImportStep
<1>4. /\ n' \in 0 .. EntrySectors /\ m' \in 0 .. PerSector - 1
      /\ pc' \in {"read", "import", "idle"} /\ loaded' \in BOOLEAN
      /\ pc' # "import" => m' = 0
      /\ pc' # "idle" => n' \in 0 .. EntrySectors - 1 /\ ~loaded'
      /\ pc' = "import" => n' = n
  <2>1. ~loaded
    BY <1>1 DEF IInv, LoadOK
  <2>2. CASE m + 1 < PerSector
    <3>1. m' = m + 1 /\ n' = n /\ pc' = "import" /\ loaded' = loaded
      BY <1>1, <2>2 DEF Import
    <3> QED  BY <1>3, <2>1, <2>2, <3>1 DEF IInv, TypeOK
  <2>3. CASE ~(m + 1 < PerSector)
    <3>1. /\ n' = n + 1 /\ m' = 0 /\ pc' = IF n + 1 < EntrySectors THEN "read" ELSE "idle"
          /\ loaded' = (n + 1 >= EntrySectors)
      BY <2>3 DEF Import
    <3>2. CASE n + 1 < EntrySectors
      <4>1. pc' = "read" /\ n' \in 0 .. EntrySectors - 1 /\ (n + 1 >= EntrySectors) = FALSE
        BY <1>3, <3>1, <3>2
      <4>2. loaded' \in BOOLEAN /\ ~loaded'
        BY <3>1, <4>1
      <4> QED  BY <3>1, <4>1, <4>2
    <3>3. CASE ~(n + 1 < EntrySectors)
      <4>1. pc' = "idle" /\ n' \in 0 .. EntrySectors /\ n + 1 >= EntrySectors
        BY <1>3, <3>1, <3>3
      <4>2. loaded' = TRUE
        BY <3>1, <4>1, Zenon
      <4> QED  BY <3>1, <4>1, <4>2
    <3> QED  BY <3>2, <3>3
  <2> QED  BY <2>2, <2>3
<1>5. TypeOK'
  <2>1. ptable' \in Seq(Sized) /\ Len(ptable') <= MaxPtn
    <3>1. ptable \in Seq(Sized) /\ Len(ptable) <= MaxPtn /\ Len(ptable) \in Nat /\ MaxPtn \in Nat
      BY LayoutAssumption DEF IInv, TypeOK
    <3>2. buf[m] # None => Imported(buf[m]) \in Sized
      BY <1>3, ImportedIs
    <3> HIDE DEF Sized
    <3> QED  BY <3>1, <3>2, ImportList, AppendProperties
  <2> QED  BY <1>1, <1>2, <1>4, <2>1 DEF IInv, TypeOK
<1>6. DiskOK'
  BY <1>1, DiskKept
<1>7. TableBuilt'
  BY <1>4 DEF TableBuilt
<1>8. LoadOK'
  <2>1. \A i \in 0 .. PerSector - 1 : buf'[i] # None => InStorage(buf'[i], blocks')
    BY <1>1, <1>2 DEF IInv, LoadOK
  <2>2. pc' = "import" /\ ~blind' => buf' = Sector(n)'
    BY <1>1, <1>2, <1>4 DEF IInv, LoadOK, Sector
  <2>3. blind' <=> ~dev'
    BY <1>1, <1>2, <1>3
  <2> QED  BY <1>4, <2>1, <2>2, <2>3 DEF LoadOK
<1>9. ListOK' /\ ListProgress'
  BY <1>1, <1>2, <1>3, ImportProgress DEF ListOK, FromSlot, ListProgress, Imported
<1> QED  BY <1>5, <1>6, <1>7, <1>8, <1>9, ImportDisjoint, ImportWhole DEF IInv

\* do_format() starts.
LEMMA FormatIInv == ASSUME IInv, Format PROVE IInv'
<1>1. /\ UNCHANGED <<storage, data, buf, ptable, m, blind, loaded, asked>>
      /\ table' = Blank /\ n' = 1 /\ next' = 0 /\ pc = "format" /\ pc' = "add"
  BY DEF Format, loading
<1>2. UNCHANGED <<blocks, magic, entries, origin>>
  BY <1>1 DEF storage
<1>3. /\ dev' \in BOOLEAN /\ size' \in {0, blocks} /\ (Fault \/ NoFault)
      /\ dev' => size' = blocks
  BY DEF Format, MmcInit, IInv, TypeOK
<1>4. TypeOK'
  <2>1. failed' \in BOOLEAN /\ cuts' \in 0 .. MaxCuts /\ formats' \in 0 .. MaxFormats
    BY <1>3, BoundsKept
  <2>2. table' \in [Slots -> Entry]
    BY <1>1, NoneType DEF Blank
  <2>3. n' \in 0 .. EntrySectors /\ next' \in Nat
    BY <1>1
  <2> QED  BY <1>1, <1>2, <1>3, <2>1, <2>2, <2>3 DEF IInv, TypeOK
<1>5. DiskOK'
  BY <1>1, DiskKept
<1>6. TableBuilt'
  <2>1. table' = Filled(1)'
    BY <1>1, <1>2, FilledFirst, BlocksKept
  <2>2. n' \in 1 .. Len(Layout) + 1 /\ next' = Layout[1].at
    BY <1>1, LayoutTypes, LayoutEnds
  <2>3. \A k \in Named(Layout) : ~(k < 1)
    BY DEF Named
  <2>4. asked' \/ ~magic' \/ blind'
    BY <1>1, <1>2 DEF IInv, TableBuilt
  <2> QED  BY <1>1, <1>2, <1>3, <2>1, <2>2, <2>3, <2>4 DEF TableBuilt
<1>7. LoadOK'
  BY <1>1, <1>2 DEF IInv, LoadOK
<1>8. ListOK' /\ ListProgress' /\ Disjoint' /\ Whole'
  BY <1>1, ListKept
<1> QED  BY <1>4, <1>5, <1>6, <1>7, <1>8 DEF IInv

\* The last of some sectors.
LEMMA LastBefore ==
  ASSUME NEW a \in Nat, NEW b \in Nat, b # 0, NEW u \in Nat, a + b < u
  PROVE  a + b - 1 \in Nat /\ a + b - 1 < u
  OBVIOUS

\* The sector behind the k-th partition, and the last one of it.
LEMMA AddNumbers ==
  ASSUME IInv, NEW k \in 1 .. Len(Layout), dev, pc = "add", n = k
  PROVE  LET p    == Layout[k]
             sz   == IF p.name # Gap /\ p.size_kb = 0 THEN (size - next) % UIntMod ELSE p.size_kb * 2
             last == (next + sz - 1) % UIntMod
         IN /\ k \in Named(Layout) => last = Last(k)
            /\ k < Len(Layout) => (next + sz) % UIntMod = Layout[k + 1].at
            /\ k \in Named(Layout) /\ Fits(next, last) => InStorage(Part(k), blocks)
<1> DEFINE p    == Layout[k]
           sz   == IF p.name # Gap /\ p.size_kb = 0 THEN (size - next) % UIntMod ELSE p.size_kb * 2
           last == (next + sz - 1) % UIntMod
<1>1. size = blocks /\ next = p.at
  BY DEF IInv, TableBuilt
<1>2. p.size_kb \in Nat /\ p.at \in Nat /\ p.at + p.size_kb * 2 < UIntMod /\ Len(Layout) \in Nat
  BY LayoutTypes, LayoutEnds
<1>3. blocks \in Nat \ {0} /\ blocks < UIntMod /\ UIntMod \in Nat \ {0}
  BY BlocksType, LayoutAssumption
<1>4. (size - 1) % UIntMod = blocks - 1
  <2>1. size - 1 \in Nat /\ size - 1 < UIntMod
    BY <1>1, <1>3
  <2> QED  BY <1>1, <1>3, <2>1, ModSmall
<1>5. k \in Named(Layout) <=> p.name # Gap
  BY DEF Named
<1>6. CASE p.name # Gap /\ p.size_kb = 0
  <2>1. k # 1
    <3>1. Layout[1].size_kb # 0
      BY LayoutEnds
    <3> QED  BY <1>6, <3>1
  <2>2. PICK j \in 1 .. Len(Layout) - 1 : j + 1 = k
    <3>1. k - 1 \in 1 .. Len(Layout) - 1 /\ (k - 1) + 1 = k
      BY <1>2, <2>1
    <3> QED  BY <3>1
  <2>3. k = Len(Layout) /\ j \in Named(Layout) /\ p.at = Layout[j].at + Layout[j].size_kb * 2 /\ j < k
    BY <1>2, <1>6, <2>2, LayoutStep
  <2>4. Layout[j].size_kb # 0
    <3>1. CASE j = 1
      BY <3>1, LayoutEnds
    <3>2. CASE j # 1
      <4>1. j - 1 \in 1 .. Len(Layout) - 1 /\ (j - 1) + 1 = j /\ j # Len(Layout)
        BY <1>2, <2>2, <3>2
      <4> QED  BY <4>1, LayoutStep
    <3> QED  BY <3>1, <3>2
  <2>5. InStorage(Part(j), blocks)
    BY <2>3 DEF IInv, TableBuilt
  <2>6. Part(j).last = p.at - 1
    <3>1. Part(j).last = Layout[j].at + Layout[j].size_kb * 2 - 1
      BY <1>3, <2>3, <2>4, PartFields
    <3>2. Layout[j].at \in Nat /\ Layout[j].size_kb \in Nat
      BY <1>2, LayoutTypes
    <3> HIDE DEF p
    <3> QED  BY <1>2, <2>3, <3>1, <3>2
  <2>7. p.at <= blocks
    BY <1>2, <1>3, <2>5, <2>6 DEF InStorage
  <2>8. sz = blocks - p.at
    <3>1. blocks - p.at \in Nat /\ blocks - p.at < UIntMod
      BY <1>2, <1>3, <2>7
    <3> QED  BY <1>1, <1>3, <1>6, <3>1, ModSmall
  <2>9. last = blocks - 1
    <3>1. next + sz - 1 = blocks - 1 /\ blocks - 1 \in Nat /\ blocks - 1 < UIntMod
      BY <1>1, <1>2, <1>3, <2>8
    <3> QED  BY <1>3, <3>1, ModSmall
  <2>10. last = Last(k)
    BY <1>6, <2>9 DEF Last
  <2>11. Fits(next, last) => InStorage(Part(k), blocks)
    <3>1. Part(k).first = p.at /\ Part(k).last = blocks - 1
      BY <1>3, <1>5, <1>6, PartFields
    <3> QED  BY <1>1, <1>2, <1>3, <2>7, <3>1 DEF Fits, InStorage
  <2> QED  BY <1>2, <2>3, <2>10, <2>11
<1>7. CASE ~(p.name # Gap /\ p.size_kb = 0)
  <2>1. sz = p.size_kb * 2 /\ sz \in Nat /\ next + sz < UIntMod /\ next + sz \in Nat
    BY <1>1, <1>2, <1>7
  <2>2. k < Len(Layout) => (next + sz) % UIntMod = Layout[k + 1].at
    <3>1. (next + sz) % UIntMod = next + sz
      BY <1>3, <2>1, ModSmall
    <3>2. k < Len(Layout) => k \in 1 .. Len(Layout) - 1
      BY <1>2
    <3> QED  BY <1>1, <2>1, <3>1, <3>2, LayoutStep
  <2>3. ASSUME k \in Named(Layout)
        PROVE  last = Last(k) /\ (Fits(next, last) => InStorage(Part(k), blocks))
    <3>1. p.size_kb # 0
      BY <1>5, <1>7, <2>3
    <3>2. next + sz - 1 \in Nat /\ next + sz - 1 < UIntMod
      <4>1. sz # 0
        BY <1>2, <2>1, <3>1
      <4>2. next \in Nat
        BY <1>1, <1>2
      <4> QED  BY <1>3, <2>1, <4>1, <4>2, LastBefore
    <3>3. last = next + sz - 1
      BY <1>3, <3>2, ModSmall
    <3>4. last = Last(k)
      BY <1>1, <2>1, <3>1, <3>3 DEF Last
    <3>5. Part(k).first = p.at /\ Part(k).last = p.at + p.size_kb * 2 - 1
      BY <1>3, <2>3, <3>1, PartFields
    <3>6. ASSUME Fits(next, last) PROVE InStorage(Part(k), blocks)
      <4>1. next >= FirstLba /\ last <= blocks - 1
        BY <1>4, <3>6 DEF Fits
      <4>2. Part(k).first = next /\ Part(k).last = last
        BY <1>1, <2>1, <3>3, <3>5
      <4>3. last < blocks /\ next <= last + 1
        <5>1. next \in Nat /\ sz \in Nat /\ last \in Nat /\ last = next + sz - 1
          BY <1>1, <1>2, <2>1, <3>2, <3>3
        <5> HIDE DEF last, sz, p
        <5> QED  BY <1>3, <4>1, <5>1
      <4> QED  BY <4>1, <4>2, <4>3 DEF InStorage
    <3> QED  BY <3>4, <3>6
  <2> QED  BY <2>2, <2>3
<1> QED  BY <1>6, <1>7

\* add_ptn() puts the partition where the layout has it, or do_format() ends.
LEMMA AddPtnIInv == ASSUME IInv, AddPtn PROVE IInv'
<1> DEFINE p    == Layout[n]
           sz   == IF p.name # Gap /\ p.size_kb = 0 THEN (size - next) % UIntMod ELSE p.size_kb * 2
           last == (next + sz - 1) % UIntMod
<1>1. /\ UNCHANGED <<storage, driver, loading, asked, faults>> /\ pc = "add" /\ n <= Len(Layout)
      /\ \/ /\ p.name = Gap \/ Fits(next, last)
            /\ table' = IF p.name = Gap THEN table
                        ELSE [table EXCEPT ![FreeSlot] = [name |-> p.name, first |-> next, last |-> last]]
            /\ next' = (next + sz) % UIntMod /\ n' = n + 1 /\ pc' = pc
         \/ pc' = "idle" /\ UNCHANGED <<table, next, n>>
  BY DEF AddPtn
<1>2. /\ UNCHANGED <<blocks, magic, entries, origin, dev, size, data, buf, ptable, m, blind, loaded>>
      /\ UNCHANGED <<failed, cuts, formats>>
  BY <1>1 DEF storage, driver, loading, faults
<1>3. n \in 1 .. Len(Layout) /\ pc' \in {"add", "idle"} /\ Len(Layout) \in Nat
  BY <1>1, LayoutTypes DEF IInv, TableBuilt
<1>4. /\ p.name \in Names /\ p.size_kb \in Nat /\ size \in Int /\ next \in Nat /\ sz \in Nat
      /\ UIntMod \in Nat \ {0} /\ table \in [Slots -> Entry] /\ last \in Nat
  <2>1. p.name \in Names /\ p.size_kb \in Nat
    BY <1>3, LayoutTypes
  <2>2. size \in Int /\ next \in Nat /\ table \in [Slots -> Entry] /\ UIntMod \in Nat \ {0}
    BY BlocksType, LayoutAssumption DEF IInv, TypeOK
  <2>3. sz \in Nat
    <3>1. (size - next) % UIntMod \in Nat
      BY <2>2, ModType
    <3> QED  BY <2>1, <3>1
  <2>4. last \in Nat
    <3>1. next + sz - 1 \in Int
      BY <2>2, <2>3
    <3> QED  BY <2>2, <3>1, ModType
  <2> QED  BY <2>1, <2>2, <2>3, <2>4
<1> HIDE DEF sz, last
<1>5. TypeOK'
  <2>1. table' \in [Slots -> Entry]
    <3>1. [name |-> p.name, first |-> next, last |-> last] \in Entry
      BY <1>4 DEF Entry
    <3> QED  BY <1>1, <1>4, <3>1
  <2>2. next' \in Nat
    <3>1. (next + sz) % UIntMod \in Nat
      <4>1. next + sz \in Int
        BY <1>4
      <4> QED  BY <1>4, <4>1, ModType
    <3> QED  BY <1>1, <1>4, <3>1
  <2>3. n' \in 1 .. Len(Layout) + 1
    BY <1>1, <1>3
  <2> QED  BY <1>1, <1>2, <1>3, <2>1, <2>2, <2>3 DEF IInv, TypeOK
<1>6. DiskOK'
  BY <1>1, DiskKept
<1>7. TableBuilt'
  <2>1. asked' \/ ~magic' \/ blind'
    BY <1>1, <1>2 DEF IInv, TableBuilt
  <2>2. n' \in 1 .. Len(Layout) + 1
    BY <1>1, <1>3
  <2>3. ASSUME pc' = "add", dev'
        PROVE  /\ size' = blocks' /\ table' = Filled(n)'
               /\ n' <= Len(Layout) => next' = Layout[n'].at
               /\ \A k \in Named(Layout) : k < n' => InStorage(Part(k)', blocks')
    <3>1. /\ size = blocks /\ table = Filled(n) /\ next = Layout[n].at
          /\ \A k \in Named(Layout) : k < n => InStorage(Part(k), blocks)
      BY <1>1, <1>2, <2>3 DEF IInv, TableBuilt
    <3>2. /\ p.name = Gap \/ Fits(next, last)
          /\ table' = IF p.name = Gap THEN table
                      ELSE [table EXCEPT ![FreeSlot] = [name |-> p.name, first |-> next, last |-> last]]
          /\ next' = (next + sz) % UIntMod /\ n' = n + 1
      BY <1>1, <2>3
    <3>3. /\ n \in Named(Layout) => last = Last(n)
          /\ n < Len(Layout) => (next + sz) % UIntMod = Layout[n + 1].at
          /\ n \in Named(Layout) /\ Fits(next, last) => InStorage(Part(n), blocks)
      BY <1>1, <1>2, <1>3, <2>3, AddNumbers DEF last, sz
    <3>4. n \in Named(Layout) <=> p.name # Gap
      BY <1>3 DEF Named
    <3>5. table' = Filled(n + 1)
      <4>1. CASE n \in Named(Layout)
        <5>1. FreeSlot = Layout[n].slot
          BY <3>1, <4>1, FreeSlotIs
        <5>2. Part(n) = [name |-> p.name, first |-> next, last |-> last]
          BY <3>1, <3>3, <4>1 DEF Part
        <5> QED  BY <1>3, <3>1, <3>2, <3>4, <4>1, <5>1, <5>2, FilledStep
      <4>2. CASE n \notin Named(Layout)
        BY <1>3, <3>1, <3>2, <3>4, <4>2, FilledStep
      <4> QED  BY <4>1, <4>2
    <3>6. table' = Filled(n)'
      BY <1>2, <3>2, <3>5 DEF Filled, Part, Last
    <3>7. n' <= Len(Layout) => next' = Layout[n'].at
      BY <1>3, <3>2, <3>3
    <3>8. ASSUME NEW k \in Named(Layout), k < n' PROVE InStorage(Part(k)', blocks')
      <4>1. k < n \/ k = n
        BY <1>3, <3>2, <3>8 DEF Named
      <4>2. InStorage(Part(k), blocks)
        BY <3>1, <3>2, <3>3, <3>4, <4>1
      <4> QED  BY <1>2, <4>2, BlocksKept
    <3> QED  BY <1>2, <3>1, <3>6, <3>7, <3>8
  <2> QED  BY <2>1, <2>2, <2>3 DEF TableBuilt
<1>8. LoadOK'
  BY <1>1, <1>2, <1>3 DEF IInv, LoadOK
<1>9. ListOK' /\ ListProgress' /\ Disjoint' /\ Whole'
  BY <1>1, <1>2, <1>3, ListKept
<1> QED  BY <1>5, <1>6, <1>7, <1>8, <1>9 DEF IInv

\* Sectors of the finished table replace those on the storage.
LEMMA WriteDisk ==
  ASSUME IInv, pc = "add", n > Len(Layout), dev, NEW k \in 0 .. AllSectors, WriteSectors(k)
  PROVE  /\ DiskOK' /\ blocks' = blocks /\ magic' \in BOOLEAN
         /\ entries' \in [Slots -> Entry] /\ origin' \in Origins
<1>1. blocks' = blocks /\ magic' \in BOOLEAN
  <2>1. Header(k) \in BOOLEAN
    BY DEF Header
  <2> QED  BY <2>1 DEF WriteSectors, IInv, TypeOK
<1>2. n = Len(Layout) + 1 /\ table = Final
  <2>1. n \in 1 .. Len(Layout) + 1 /\ table = Filled(n) /\ Len(Layout) \in Nat
    BY LayoutTypes DEF IInv, TableBuilt
  <2>2. n = Len(Layout) + 1
    BY <2>1
  <2> QED  BY <2>1, <2>2 DEF Final
<1>3. LayoutFits
  <2>1. \A j \in Named(Layout) : j < n
    BY <1>2, LayoutTypes DEF Named
  <2> QED  BY <2>1 DEF IInv, TableBuilt, LayoutFits
<1>4. Final' = Final /\ LayoutFits'
  BY <1>1, <1>3, BlocksKept
<1>5. /\ entries \in [Slots -> Entry] /\ table \in [Slots -> Entry] /\ origin \in Origins
      /\ \A s \in Slots : entries[s] # None => InStorage(entries[s], blocks)
  BY DEF IInv, TypeOK, DiskOK
<1>6. entries' \in [Slots -> Entry] /\ \A s \in Slots : entries'[s] \in {Final[s], entries[s]}
  BY <1>2, <1>5 DEF WriteSectors
<1>7. \A s \in Slots : entries'[s] # None => InStorage(entries'[s], blocks')
  BY <1>1, <1>3, <1>5, <1>6, FinalInStorage
<1>8. CASE k = AllSectors
  <2>1. origin' = "own"
    BY <1>8 DEF WriteSectors
  <2>2. ASSUME NEW s \in Slots PROVE s < (k - 2) * PerSector
    <3>1. k - 2 = EntrySectors
      BY <1>8 DEF AllSectors
    <3>2. EntrySectors * PerSector \in Int
      OBVIOUS
    <3> QED  BY <3>1, <3>2 DEF Slots
  <2>3. entries' = [s \in Slots |-> table[s]]
    BY <2>2 DEF WriteSectors
  <2>4. entries' = Final
    BY <1>2, <1>5, <2>3
  <2>5. DiskOK'
    BY <1>4, <1>7, <2>1, <2>4 DEF DiskOK
  <2> QED  BY <1>1, <1>6, <2>1, <2>5 DEF Origins
<1>9. CASE k # AllSectors /\ k <= 2
  <2>1. origin' = origin
    BY <1>9 DEF WriteSectors
  <2>2. ASSUME NEW s \in Slots PROVE ~(s < (k - 2) * PerSector)
    <3>1. (k - 2) * PerSector <= 0 * PerSector
      BY <1>9, TimesMonotone
    <3>2. 0 * PerSector = 0 /\ (k - 2) * PerSector \in Int
      OBVIOUS
    <3> QED  BY <3>1, <3>2 DEF Slots
  <2>3. entries' = [s \in Slots |-> entries[s]]
    BY <2>2 DEF WriteSectors
  <2>4. entries' = entries
    BY <1>5, <2>3
  <2>5. DiskOK'
    BY <1>1, <1>4, <1>7, <2>1, <2>4, <1>3 DEF IInv, DiskOK, TableOK, EntriesApart
  <2> QED  BY <1>1, <1>5, <1>6, <2>1, <2>5
<1>10. CASE k # AllSectors /\ ~(k <= 2)
  <2>1. \/ origin = "blank" /\ origin' = "part"
        \/ origin = "foreign" /\ origin' = "mixed"
        \/ origin \in {"part", "own", "mixed"} /\ origin' = origin
    BY <1>5, <1>10 DEF WriteSectors, Origins
  <2>2. origin' \in {"part", "own"} => \A s \in Slots : entries'[s] \in {None, Final[s]}
    BY <1>6, <2>1 DEF IInv, DiskOK
  <2>3. origin' = "own" => entries' = Final
    <3>1. origin' = "own" => \A s \in Slots : entries'[s] = Final[s]
      BY <1>6, <2>1 DEF IInv, DiskOK
    <3>2. Final = [s \in Slots |-> Final[s]]
      BY <1>2, <1>5
    <3> QED  BY <1>6, <3>1, <3>2
  <2>4. DiskOK'
    BY <1>4, <1>7, <2>1, <2>2, <2>3 DEF DiskOK
  <2> QED  BY <1>1, <1>6, <2>1, <2>4 DEF Origins
<1> QED  BY <1>8, <1>9, <1>10

\* The table is written, in part or not at all, and loaded or not.
LEMMA WriteTableIInv == ASSUME IInv, WriteTable PROVE IInv'
<1>1. /\ UNCHANGED <<driver, data, buf, m, blind, n, table, next, asked>>
      /\ pc = "add" /\ n > Len(Layout) /\ ptable' = <<>> /\ loaded' = FALSE
      /\ pc' \in {"load", "idle"} /\ (Fault \/ NoFault)
  BY DEF WriteTable, Reset
<1>2. /\ DiskOK' /\ blocks' = blocks /\ magic' \in BOOLEAN
      /\ entries' \in [Slots -> Entry] /\ origin' \in Origins
  <2>1. CASE UNCHANGED storage
    BY <2>1, DiskKept DEF storage, IInv, TypeOK
  <2>2. CASE dev /\ \E k \in 0 .. AllSectors : WriteSectors(k)
    BY <1>1, <2>2, WriteDisk
  <2>3. AllSectors \in 0 .. AllSectors /\ \A k \in 0 .. AllSectors - 1 : k \in 0 .. AllSectors
    BY DEF AllSectors
  <2> QED  BY <2>1, <2>2, <2>3 DEF WriteTable
<1>3. TypeOK'
  <2>1. failed' \in BOOLEAN /\ cuts' \in 0 .. MaxCuts /\ formats' \in 0 .. MaxFormats
    BY <1>1, BoundsKept
  <2>2. ptable' \in Seq(Sized) /\ Len(ptable') <= MaxPtn
    BY <1>1, LayoutAssumption
  <2> QED  BY <1>1, <1>2, <2>1, <2>2 DEF IInv, TypeOK, driver
<1>4. TableBuilt'
  BY <1>1 DEF TableBuilt
<1>5. LoadOK'
  BY <1>1, <1>2 DEF IInv, LoadOK
<1>6. ListOK' /\ Disjoint' /\ Whole'
  BY <1>1, EmptyList
<1>7. ListProgress'
  BY <1>1 DEF ListProgress
<1> QED  BY <1>2, <1>3, <1>4, <1>5, <1>6, <1>7 DEF IInv

\* A host asks for a format.
LEMMA OemFormatIInv == ASSUME IInv, OemFormat PROVE IInv'
<1>1. /\ UNCHANGED <<storage, driver, data, buf, ptable, m, blind, loaded, n, table, next, failed, cuts>>
      /\ pc = "idle" /\ pc' = "format" /\ asked' = TRUE
      /\ formats < MaxFormats /\ formats' = formats + 1
  BY DEF OemFormat, loading
<1>2. TypeOK'
  BY <1>1 DEF IInv, TypeOK, storage, driver
<1>3. DiskOK'
  BY <1>1, DiskKept
<1>4. TableBuilt'
  BY <1>1 DEF TableBuilt
<1>5. LoadOK'
  BY <1>1 DEF IInv, LoadOK, storage
<1>6. ListOK' /\ ListProgress' /\ Disjoint' /\ Whole'
  BY <1>1, ListKept
<1> QED  BY <1>2, <1>3, <1>4, <1>5, <1>6 DEF IInv

\* Power is cut.
LEMMA PowerCutIInv == ASSUME IInv, PowerCut PROVE IInv'
<1>1. /\ pc' = "off" /\ cuts < MaxCuts /\ cuts' = cuts + 1 /\ UNCHANGED <<failed, formats>>
      /\ dev' = FALSE /\ size' = 0 /\ data' = FALSE
      /\ buf' = [i \in 0 .. PerSector - 1 |-> None]
      /\ ptable' = <<>> /\ n' = 0 /\ m' = 0 /\ table' = Blank /\ next' = 0
      /\ asked' = FALSE /\ blind' = FALSE /\ loaded' = FALSE
  BY DEF PowerCut
<1>2. /\ DiskOK' /\ blocks' = blocks /\ magic' \in BOOLEAN
      /\ entries' \in [Slots -> Entry] /\ origin' \in Origins
  <2>1. CASE UNCHANGED storage
    BY <2>1, DiskKept DEF storage, IInv, TypeOK
  <2>2. CASE pc = "add" /\ n > Len(Layout) /\ dev /\ \E k \in 0 .. AllSectors : WriteSectors(k)
    BY <2>2, WriteDisk
  <2> QED  BY <2>1, <2>2 DEF PowerCut
<1>3. TypeOK'
  <2>1. buf' \in [0 .. PerSector - 1 -> Entry] /\ table' \in [Slots -> Entry]
    BY <1>1, NoneType DEF Blank
  <2>2. /\ ptable' \in Seq(Sized) /\ Len(ptable') <= MaxPtn /\ cuts' \in 0 .. MaxCuts
        /\ n' \in 0 .. EntrySectors /\ m' \in 0 .. PerSector - 1 /\ next' \in Nat
    BY <1>1, LayoutAssumption DEF IInv, TypeOK
  <2> QED  BY <1>1, <1>2, <2>1, <2>2 DEF IInv, TypeOK
<1>4. TableBuilt' /\ ListProgress'
  BY <1>1 DEF TableBuilt, ListProgress
<1>5. LoadOK'
  BY <1>1 DEF LoadOK
<1>6. ListOK' /\ Disjoint' /\ Whole'
  BY <1>1, EmptyList
<1> QED  BY <1>2, <1>3, <1>4, <1>5, <1>6 DEF IInv

\* Stuttering.
LEMMA StutterIInv == ASSUME IInv, UNCHANGED vars PROVE IInv'
<1>1. /\ UNCHANGED <<blocks, magic, entries, origin, dev, size, data, buf, ptable, m, blind, loaded>>
      /\ UNCHANGED <<n, table, next, pc, asked, failed, cuts, formats, storage>>
  BY DEF vars, storage, driver, loading, faults
<1>2. DiskOK'
  BY <1>1, DiskKept
<1>3. TypeOK' /\ ListOK' /\ ListProgress'
  BY <1>1 DEF IInv, TypeOK, ListOK, FromSlot, Imported, ListProgress, SlotsRead
<1>4. Disjoint' /\ LoadOK'
  BY <1>1 DEF IInv, Disjoint, End, LoadOK, Sector
<1>5. \A k \in Named(Layout) : Part(k)' = Part(k)
  BY <1>1, BlocksKept
<1>6. TableBuilt'
  <2>1. Filled(n)' = Filled(n)
    BY <1>1 DEF Filled, Part, Last
  <2> QED  BY <1>1, <1>5, <2>1 DEF IInv, TableBuilt
<1>7. Whole'
  BY <1>1, <1>5 DEF IInv, Whole, Imported
<1> QED  BY <1>2, <1>3, <1>4, <1>6, <1>7 DEF IInv

-----------------------------------------------------------------------------
(***************************************************************************)
(* The theorems.                                                           *)
(***************************************************************************)

\* Every step of load_ptbl(), do_format() and their surroundings keeps the invariant.
LEMMA NextIInv == ASSUME IInv, [Next]_vars PROVE IInv'
<1>1. CASE Bootloader
  BY <1>1, LoadPtblIInv, ReadSectorIInv, ImportIInv, FormatIInv, AddPtnIInv, WriteTableIInv DEF Bootloader
<1>2. CASE PowerOn \/ OemFormat \/ PowerCut
  BY <1>2, PowerOnIInv, OemFormatIInv, PowerCutIInv
<1>3. CASE UNCHANGED vars
  BY <1>3, StutterIInv
<1> QED  BY <1>1, <1>2, <1>3 DEF Next

\* The inductive invariant: what is on the storage, in the table that is built and in the
\* list, at every step of load_ptbl() and do_format().
THEOREM SpecIInv == Spec => []IInv
  BY InitIInv, NextIInv, PTL DEF Spec

\* Types; fastboot's list has no more than MAX_PTN partitions.
THEOREM SpecTypeOK == Spec => []TypeOK
<1>1. IInv => TypeOK
  BY DEF IInv
<1> QED  BY <1>1, SpecIInv, PTL

\* Every partition in fastboot's list is one of the table on the storage.
THEOREM SpecListTrue == Spec => []ListTrue
<1>1. IInv => ListTrue
  BY DEF IInv, ListOK, FromSlot, ListTrue
<1> QED  BY <1>1, SpecIInv, PTL

\* The partitions in fastboot's list lie apart, behind the table and inside the storage.
THEOREM SpecDisjoint == Spec => []Disjoint
<1>1. IInv => Disjoint
  BY DEF IInv
<1> QED  BY <1>1, SpecIInv, PTL

\* After a format and a load that were not disturbed the list is the built-in layout.
THEOREM SpecWhole == Spec => []Whole
<1>1. IInv => Whole
  BY DEF IInv
<1> QED  BY <1>1, SpecIInv, PTL

\* A table is replaced by a host's command, or by the boot after an mmc_init() that failed.
THEOREM SpecOnlyWhenAsked == Spec => OnlyWhenAsked
<1>1. ASSUME IInv, [Next]_vars PROVE [entries' # entries => asked \/ ~magic \/ blind]_vars
  <2> SUFFICES ASSUME Next, entries' # entries PROVE asked \/ ~magic \/ blind
    BY <1>1 DEF vars, storage
  <2>1. pc = "add"
    BY DEF Next, Bootloader, PowerOn, LoadPtbl, ReadSector, Import, Format, AddPtn, WriteTable,
           OemFormat, PowerCut, storage
  <2> QED  BY <1>1, <2>1 DEF IInv, TableBuilt
<1> QED  BY <1>1, SpecIInv, PTL DEF Spec, OnlyWhenAsked
=============================================================================
