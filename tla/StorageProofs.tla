---------------------------- MODULE StorageProofs ---------------------------
(***************************************************************************)
(* What is stored on a device is correct on every device.                  *)
(*                                                                         *)
(* The sector allocator: blocks never overlap or leave the partition,      *)
(* nothing leaks, and a request is refused only when no run of sectors is  *)
(* long enough.                                                            *)
(*                                                                         *)
(* The root directory, through every sequence of its operations: its       *)
(* extents stay one doubly linked chain of blocks of their own, no block   *)
(* leaks or is shared, and what ls shows is what was added.  The loops     *)
(* over a directory are recursive functions; what they compute is proved   *)
(* with the least number for which it would be wrong.                      *)
(***************************************************************************)
EXTENDS Directory, TLAPS, WellFoundedInduction, FiniteSetTheorems, SequenceTheorems

USE SectorsAssumption DEF Sector, Marker

(* Sector 0, and no other, holds the device header, so 0 is never a handle *)
(* and can stand for failure.                                              *)
HeaderKept == \A i \in Sector : marker[i] = DEVICE <=> i = 0

(* HeaderKept and both halves of the block structure support each other:   *)
(* a used sector has an owner, and an owner's sectors are used.            *)
SectorInv ==
  /\ TypeOK
  /\ BlocksWhole
  /\ NoOrphans
  /\ HeaderKept
  /\ RootAgrees

-----------------------------------------------------------------------------
(* Arithmetic and the scan.                                                *)
LEMMA LeastExists ==
  ASSUME NEW S, S \subseteq Nat, S # {}
  PROVE  \E x \in S : \A y \in S : x <= y
<1> DEFINE R == OpToRel(<, Nat)
<1>1. \E x \in S : \A y \in S : ~(<<y, x>> \in R)
  BY NatLessThanWellFounded, WFMin
<1>2. \A x, y \in Nat : <<y, x>> \in R <=> y < x
  BY DEF OpToRel
<1> HIDE DEF R
<1>3. PICK x \in S : \A y \in S : <<y, x>> \notin R
  BY <1>1
<1>4. \A y \in S : ~(y < x)
  BY <1>2, <1>3
<1> QED BY <1>3, <1>4

LEMMA RunFacts ==
  ASSUME NEW h \in Nat, NEW n \in Nat
  PROVE  /\ h \in h .. h + n
         /\ \A j \in h + 1 .. h + n : j \in h .. h + n /\ j # h
         /\ \A j \in h .. h + n : j = h \/ j \in h + 1 .. h + n
OBVIOUS

LEMMA DataSectorsType ==
  ASSUME NEW s \in Nat
  PROVE  DataSectors(s) \in Nat /\ DataSectors(s) > 0
<1>1. Payload \in Nat /\ Payload > 0
  BY DEF Payload
<1>2. s \div Payload \in Nat
  BY <1>1
<1> QED BY <1>2 DEF DataSectors

LEMMA SectorInScan == Sector \subseteq 0 .. BlockSize - 1
<1>1. \A a, b \in Nat : b > 0 => a * b >= a
  OBVIOUS
<1>2. BlockSize \in Nat /\ BlockSize >= SectorCount
  BY <1>1 DEF BlockSize
<1> QED BY <1>2

(* A fit is a run of free sectors inside the partition, although the scan  *)
(* runs far past its end.                                                  *)
LEMMA FitInside ==
  ASSUME NEW m, NEW n \in Nat, NEW i \in Nat, Fits(m, i, n)
  PROVE  \A j \in i .. i + n : j \in Sector /\ m[j] = SECTOR_FREE
<1> SUFFICES ASSUME NEW j \in i .. i + n
             PROVE  j \in Sector /\ m[j] = SECTOR_FREE
  OBVIOUS
<1>1. j - i \in 0 .. n /\ i + (j - i) = j
  OBVIOUS
<1>2. MarkerAt(m, j) = SECTOR_FREE
  BY <1>1 DEF Fits
<1> QED BY <1>2 DEF MarkerAt

LEMMA FirstFitFits ==
  ASSUME NEW m, NEW n \in Nat, FirstFit(m, n) # 0
  PROVE  /\ FirstFit(m, n) \in Nat
         /\ \A j \in FirstFit(m, n) .. FirstFit(m, n) + n :
              j \in Sector /\ m[j] = SECTOR_FREE
<1>1. Candidates(m, n) # {} /\ Candidates(m, n) \subseteq Nat
  BY DEF FirstFit, Candidates
<1>2. \E i \in Candidates(m, n) : \A j \in Candidates(m, n) : i <= j
  BY <1>1, LeastExists
<1>3. FirstFit(m, n) \in Candidates(m, n)
  BY <1>1, <1>2 DEF FirstFit
<1>4. FirstFit(m, n) \in Nat /\ Fits(m, FirstFit(m, n), n)
  BY <1>1, <1>3 DEF Candidates
<1> QED BY <1>4, FitInside

LEMMA NoFit ==
  ASSUME NEW m, NEW n \in Nat, FirstFit(m, n) = 0, m[0] # SECTOR_FREE
  PROVE  \A i \in Sector : ~Fits(m, i, n)
<1>1. Candidates(m, n) = {}
  <2> SUFFICES ASSUME Candidates(m, n) # {} PROVE FALSE
    OBVIOUS
  <2>1. Candidates(m, n) \subseteq Nat
    BY DEF Candidates
  <2>2. \E i \in Candidates(m, n) : \A j \in Candidates(m, n) : i <= j
    BY <2>1, LeastExists
  <2>3. 0 \in Candidates(m, n)
    BY <2>2 DEF FirstFit
  <2>4. Fits(m, 0, n)
    BY <2>3 DEF Candidates
  <2>5. 0 \in 0 .. 0 + n
    OBVIOUS
  <2> QED BY <2>4, <2>5, FitInside
<1> QED BY <1>1, SectorInScan DEF Candidates

-----------------------------------------------------------------------------
(* On a fresh device the root directory is the first block, at sector 1.   *)
LEMMA RootIsFirst == FormatRoot = 1
<1> DEFINE n == DataSectors(DirSize)
<1>1. n \in Nat /\ SectorCount > n + 1
  BY DataSectorsType
<1> HIDE DEF n
<1>2. ASSUME NEW a \in 0 .. n
      PROVE  MarkerAt(Blank, 1 + a) = SECTOR_FREE
  BY <1>1 DEF MarkerAt, Blank
<1>3. 1 \in Candidates(Blank, n)
  BY <1>1, <1>2, SectorInScan DEF Candidates, Fits
<1>4. 0 \notin Candidates(Blank, n)
  <2>1. MarkerAt(Blank, 0) # SECTOR_FREE
    BY <1>1 DEF MarkerAt, Blank
  <2>2. 0 \in 0 .. n
    BY <1>1
  <2> QED BY <2>1, <2>2 DEF Candidates, Fits
<1>5. \A j \in Candidates(Blank, n) : j \in Nat /\ 1 <= j
  BY <1>4 DEF Candidates
<1>6. FirstFit(Blank, n) = 1
  BY <1>3, <1>5 DEF FirstFit
<1> QED BY <1>6 DEF FormatRoot, n

-----------------------------------------------------------------------------
(* The state fsDeviceFormat leaves: one block, the root directory.         *)
LEMMA FormatInv ==
  ASSUME marker = Taken(Blank, FormatRoot, DataSectors(DirSize)),
         size = [i \in Sector |-> IF i = FormatRoot THEN DirSize ELSE 0],
         root = FormatRoot, result = FormatRoot
  PROVE  SectorInv /\ Headers = {1}
<1> DEFINE n == DataSectors(DirSize)
<1>1. n \in Nat /\ SectorCount > n + 1 /\ n > 0
  BY DataSectorsType
<1>2. FormatRoot = 1
  BY RootIsFirst
<1>3. \A i \in Sector : marker[i] = IF i = 1 THEN SECTOR_HEADER
                                    ELSE IF i \in 2 .. 1 + n THEN SECTOR_USED
                                    ELSE IF i = 0 THEN DEVICE ELSE SECTOR_FREE
  BY <1>1, <1>2 DEF Taken, Blank
<1>4. size[1] = DirSize /\ DataSectors(size[1]) = n
  BY <1>1, <1>2
<1> HIDE DEF n
<1>5. Headers = {1}
  BY <1>1, <1>3 DEF Headers
<1>6. TypeOK
  BY <1>1, <1>2 DEF TypeOK, Taken, Blank
<1>7. BlocksWhole
  BY <1>1, <1>3, <1>4, <1>5 DEF BlocksWhole
<1>8. NoOrphans
  <2>1. Block(1) = 1 .. 1 + n
    BY <1>4 DEF Block
  <2>2. \A i \in Sector : marker[i] = SECTOR_USED => i \in 1 .. 1 + n
    BY <1>1, <1>3
  <2> QED BY <1>5, <2>1, <2>2 DEF NoOrphans
<1>9. HeaderKept /\ RootAgrees
  BY <1>1, <1>2, <1>3 DEF HeaderKept, RootAgrees, fsDeviceGetRootDirectory
<1> QED BY <1>5, <1>6, <1>7, <1>8, <1>9 DEF SectorInv

(* Seen through the refinement, that is one run of RootLength sectors.     *)
LEMMA InitInv == Init => SectorInv /\ Storage!Init
<1> SUFFICES ASSUME Init PROVE SectorInv /\ Storage!Init
  OBVIOUS
<1> DEFINE n == DataSectors(DirSize)
<1>1. n \in Nat /\ SectorCount > n + 1
  BY DataSectorsType
<1>2. SectorInv /\ Headers = {1}
  BY FormatInv DEF Init
<1>3. Block(1) = 1 .. 1 + n /\ result = 1
  BY <1>1, RootIsFirst DEF Init, Block
<1> HIDE DEF n
<1>4. Storage!Run(1, n + 1) = 1 .. 1 + n
  BY <1>1 DEF Storage!Run
<1>5. 1 \in 1 .. SectorCount - 1 /\ 1 .. 1 + n \subseteq 1 .. SectorCount - 1
  BY <1>1
<1> QED BY <1>2, <1>3, <1>4, <1>5 DEF Storage!Init, n

(* Formatting again leads back to that state.                              *)
LEMMA FormatStep == fsDeviceFormat => SectorInv' /\ Storage!Emptied
<1>1. fsDeviceFormat => Init'
  BY DEF fsDeviceFormat, Init
<1>2. Init' => SectorInv' /\ Storage!Init'
  BY InitInv, PTL
<1>3. Storage!Init' => Storage!Emptied
  BY DEF Storage!Init, Storage!Emptied
<1> QED BY <1>1, <1>2, <1>3

-----------------------------------------------------------------------------
(* What the invariant says of one block.                                   *)
LEMMA BlockFacts ==
  ASSUME SectorInv, NEW h \in Headers
  PROVE  /\ h \in Sector /\ h # 0
         /\ size[h] \in Nat
         /\ DataSectors(size[h]) \in Nat /\ DataSectors(size[h]) > 0
         /\ Block(h) \subseteq 1 .. SectorCount - 1
         /\ \A i \in Block(h) :
              marker[i] = IF i = h THEN SECTOR_HEADER ELSE SECTOR_USED
<1>1. h \in Sector /\ marker[h] = SECTOR_HEADER /\ h # 0
  BY DEF Headers, SectorInv, HeaderKept
<1>2. size[h] \in Nat
  <2>1. size[h] \in Sizes \cup {0}
    BY <1>1 DEF SectorInv, TypeOK
  <2>2. \A x : x \in Sizes \cup {0} => x \in Nat
    OBVIOUS
  <2> QED BY <2>1, <2>2, Zenon
<1>3. DataSectors(size[h]) \in Nat /\ DataSectors(size[h]) > 0
  BY <1>2, DataSectorsType
<1>4. \A i \in h + 1 .. h + DataSectors(size[h]) :
        i \in Sector /\ marker[i] = SECTOR_USED
  BY DEF SectorInv, BlocksWhole
<1> QED BY <1>1, <1>2, <1>3, <1>4 DEF Block

(* Two blocks are disjoint: the later header would otherwise be one of the *)
(* earlier block's used sectors.                                           *)
LEMMA BlocksDisjoint ==
  ASSUME SectorInv, NEW g \in Headers, NEW h \in Headers, g # h
  PROVE  Block(g) \cap Block(h) = {}
<1>1. /\ g \in Nat /\ DataSectors(size[g]) \in Nat
      /\ \A i \in Block(g) :
           marker[i] = IF i = g THEN SECTOR_HEADER ELSE SECTOR_USED
  BY BlockFacts
<1>2. /\ h \in Nat /\ DataSectors(size[h]) \in Nat
      /\ \A i \in Block(h) :
           marker[i] = IF i = h THEN SECTOR_HEADER ELSE SECTOR_USED
  BY BlockFacts
<1>3. marker[g] = SECTOR_HEADER /\ marker[h] = SECTOR_HEADER
  BY DEF Headers
<1>4. g \notin Block(h) /\ h \notin Block(g)
  BY <1>1, <1>2, <1>3
<1> QED BY <1>1, <1>2, <1>4 DEF Block

(* fsAllocate marks a fresh run and disturbs no block.                     *)
LEMMA AllocateStep ==
  ASSUME SectorInv, NEW s \in Sizes, fsAllocate(s), NEW h, h = result'
  PROVE  /\ SectorInv'
         /\ Headers' = Headers \cup {h}
         /\ h \notin Headers
         /\ Block(h)' = h .. h + DataSectors(s)
         /\ Block(h)' \subseteq 1 .. SectorCount - 1
         /\ \A j \in Block(h)' : j \in Sector /\ marker[j] = SECTOR_FREE
         /\ \A g \in Headers : Block(g)' = Block(g)
<1> DEFINE n == DataSectors(s)
<1>1. n \in Nat /\ n > 0
  BY DataSectorsType
<1>2. /\ h = FirstFit(marker, n) /\ h # 0
      /\ marker' = Taken(marker, h, n) /\ size' = [size EXCEPT ![h] = s]
      /\ root' = root
  BY DEF fsAllocate
<1> HIDE DEF n
<1>3. /\ h \in Nat
      /\ \A j \in h .. h + n : j \in Sector /\ marker[j] = SECTOR_FREE
      /\ \A j \in h + 1 .. h + n : j \in h .. h + n
  <2>1. h \in Nat
    BY <1>1, <1>2, FirstFitFits
  <2>2. \A j \in h + 1 .. h + n : j \in h .. h + n
    BY <1>1, <2>1, RunFacts
  <2> QED BY <1>1, <1>2, <2>1, <2>2, FirstFitFits
<1>4. h \in Sector /\ marker[h] = SECTOR_FREE
  <2>1. h \in h .. h + n
    BY <1>1, <1>3, RunFacts
  <2> QED BY <1>3, <2>1
<1>5. \A j \in Sector : marker'[j] = IF j = h THEN SECTOR_HEADER
                                     ELSE IF j \in h + 1 .. h + n
                                     THEN SECTOR_USED ELSE marker[j]
  BY <1>2 DEF Taken
<1>6. size'[h] = s /\ \A g \in Sector : g # h => size'[g] = size[g]
  BY <1>2, <1>4 DEF SectorInv, TypeOK
<1>7. Headers' = Headers \cup {h} /\ h \notin Headers
  <2>1. \A j \in Sector : j # h =>
          (marker'[j] = SECTOR_HEADER <=> marker[j] = SECTOR_HEADER)
    BY <1>3, <1>5
  <2>2. marker'[h] = SECTOR_HEADER
    BY <1>4, <1>5
  <2> QED BY <1>4, <2>1, <2>2 DEF Headers
<1>8. Block(h)' = h .. h + n
  BY <1>6 DEF Block, n
<1>9. \A g \in Headers : Block(g)' = Block(g)
  BY <1>6, <1>7 DEF Block, Headers
<1>10. \A g \in Headers : \A j \in Block(g) : j \in Sector /\ j \notin h .. h + n
  BY <1>3, BlockFacts
<1>11. TypeOK'
  BY <1>2, <1>4, <1>5 DEF SectorInv, TypeOK, Taken
<1>12. BlocksWhole'
  <2> SUFFICES ASSUME NEW g \in Headers',
                      NEW i \in g + 1 .. g + DataSectors(size'[g])
               PROVE  i \in Sector /\ marker'[i] = SECTOR_USED
    BY DEF BlocksWhole
  <2>1. CASE g = h
    <3>1. i \in h + 1 .. h + n /\ i \in h .. h + n /\ i # h
      BY <1>1, <1>4, <1>6, <2>1 DEF n
    <3> QED BY <1>3, <1>5, <3>1
  <2>2. CASE g # h
    <3>1. g \in Headers /\ size'[g] = size[g]
      BY <1>6, <1>7, <2>2 DEF Headers
    <3>2. /\ i \in Block(g) /\ i # g
          /\ marker[i] = IF i = g THEN SECTOR_HEADER ELSE SECTOR_USED
      BY <3>1, BlockFacts DEF Block
    <3>3. i \in Sector /\ i \notin h .. h + n
      BY <1>10, <3>1, <3>2
    <3> QED BY <1>1, <1>4, <1>5, <3>2, <3>3
  <2> QED BY <2>1, <2>2
<1>13. NoOrphans'
  <2> SUFFICES ASSUME NEW i \in Sector, marker'[i] = SECTOR_USED
               PROVE  \E g \in Headers' : i \in Block(g)'
    BY DEF NoOrphans
  <2>1. CASE i \in h .. h + n
    BY <1>7, <1>8, <2>1
  <2>2. CASE i \notin h .. h + n
    <3>1. i # h /\ i \notin h + 1 .. h + n
      BY <1>1, <1>3, <2>2, RunFacts, ZenonT(40)
    <3>2. marker[i] = SECTOR_USED
      BY <1>5, <3>1
    <3>3. PICK g \in Headers : i \in Block(g)
      BY <3>2 DEF SectorInv, NoOrphans
    <3> QED BY <1>7, <1>9, <3>3
  <2> QED BY <2>1, <2>2
<1>14. HeaderKept' /\ RootAgrees'
  <2>1. ASSUME NEW j \in Sector
        PROVE  marker'[j] = DEVICE <=> marker[j] = DEVICE
    <3>1. CASE j = h
      BY <1>4, <1>5, <3>1
    <3>2. CASE j # h /\ j \in h + 1 .. h + n
      <4>1. marker[j] = SECTOR_FREE /\ marker'[j] = SECTOR_USED
        BY <1>3, <1>5, <3>2
      <4> QED BY <4>1
    <3>3. CASE j # h /\ j \notin h + 1 .. h + n
      BY <1>5, <3>3
    <3> QED BY <3>1, <3>2, <3>3
  <2> QED BY <1>2, <2>1
          DEF SectorInv, HeaderKept, RootAgrees, fsDeviceGetRootDirectory
<1>15. Block(h)' \subseteq 1 .. SectorCount - 1
  BY <1>2, <1>3, <1>8
<1>16. \A j \in Block(h)' : j \in Sector /\ marker[j] = SECTOR_FREE
  BY <1>3, <1>8
<1> QED
  BY <1>7, <1>8, <1>9, <1>11, <1>12, <1>13, <1>14, <1>15, <1>16
  DEF SectorInv, n

(* fsFree takes exactly one block away.                                    *)
LEMMA FreeStep ==
  ASSUME SectorInv, NEW h \in Headers, fsFree(h)
  PROVE  /\ SectorInv'
         /\ Headers' = Headers \ {h}
         /\ \A g \in Headers : g # h => Block(g)' = Block(g)
<1>1. /\ marker' = Freed(h) /\ size' = [size EXCEPT ![h] = 0]
      /\ root' = root /\ result' = result
  BY DEF fsFree
<1>2. /\ h \in Sector /\ h \in Block(h)
      /\ \A i \in Block(h) :
           marker[i] = IF i = h THEN SECTOR_HEADER ELSE SECTOR_USED
  <2>1. h \in Nat /\ DataSectors(size[h]) \in Nat
    BY BlockFacts
  <2>2. h \in Block(h)
    BY <2>1, RunFacts DEF Block
  <2> QED BY <2>2, BlockFacts
<1>3. \A j \in Sector :
        marker'[j] = IF j \in Block(h) THEN SECTOR_FREE ELSE marker[j]
  BY <1>1 DEF Freed
<1>4. \A g \in Sector : g # h => size'[g] = size[g]
  BY <1>1 DEF SectorInv, TypeOK
<1>5. Headers' = Headers \ {h}
  BY <1>2, <1>3 DEF Headers
<1>6. \A g \in Headers : g # h => Block(g)' = Block(g)
  BY <1>4 DEF Block, Headers
<1>7. TypeOK'
  BY <1>1, <1>2, <1>3 DEF SectorInv, TypeOK, Freed
<1>8. BlocksWhole'
  <2> SUFFICES ASSUME NEW g \in Headers',
                      NEW i \in g + 1 .. g + DataSectors(size'[g])
               PROVE  i \in Sector /\ marker'[i] = SECTOR_USED
    BY DEF BlocksWhole
  <2>1. g \in Headers /\ g # h /\ size'[g] = size[g]
    BY <1>4, <1>5 DEF Headers
  <2>2. g \in Nat /\ DataSectors(size[g]) \in Nat
    BY <2>1, BlockFacts
  <2>3. i \in Block(g)
    BY <2>1, <2>2, RunFacts DEF Block
  <2>4. i \in Sector /\ marker[i] = SECTOR_USED
    BY <2>1 DEF SectorInv, BlocksWhole
  <2>5. i \notin Block(h)
    BY <2>1, <2>3, BlocksDisjoint
  <2> QED BY <1>3, <2>4, <2>5
<1>9. NoOrphans'
  <2> SUFFICES ASSUME NEW i \in Sector, marker'[i] = SECTOR_USED
               PROVE  \E g \in Headers' : i \in Block(g)'
    BY DEF NoOrphans
  <2>1. i \notin Block(h) /\ marker[i] = SECTOR_USED
    BY <1>3
  <2>2. PICK g \in Headers : i \in Block(g)
    BY <2>1 DEF SectorInv, NoOrphans
  <2> QED BY <1>5, <1>6, <2>1, <2>2
<1>10. HeaderKept' /\ RootAgrees'
  BY <1>1, <1>2, <1>3
  DEF SectorInv, HeaderKept, RootAgrees, fsDeviceGetRootDirectory
<1> QED BY <1>5, <1>6, <1>7, <1>8, <1>9, <1>10 DEF SectorInv

-----------------------------------------------------------------------------
(* The refinement.  A sector is free in the abstract allocator exactly     *)
(* when its marker says so.                                                *)
Owned == [h \in Headers |-> Block(h)]

LEMMA FreeAgrees ==
  ASSUME SectorInv
  PROVE  \A i \in 1 .. SectorCount - 1 :
           i \in Storage!FreeSectors <=> marker[i] = SECTOR_FREE
<1> SUFFICES ASSUME NEW i \in 1 .. SectorCount - 1
             PROVE  i \in Storage!FreeSectors <=> marker[i] = SECTOR_FREE
  OBVIOUS
<1>1. i \in Storage!FreeSectors <=> \A h \in Headers : i \notin Block(h)
  BY DEF Storage!FreeSectors
<1>2. ASSUME marker[i] = SECTOR_FREE PROVE \A h \in Headers : i \notin Block(h)
  BY <1>2, BlockFacts
<1>3. ASSUME marker[i] # SECTOR_FREE PROVE \E h \in Headers : i \in Block(h)
  <2>1. marker[i] \in {SECTOR_HEADER, SECTOR_USED}
    BY <1>3 DEF SectorInv, TypeOK, HeaderKept
  <2>2. CASE marker[i] = SECTOR_USED
    BY <2>2 DEF SectorInv, NoOrphans
  <2>3. CASE marker[i] = SECTOR_HEADER
    <3>1. i \in Headers
      BY <2>3 DEF Headers
    <3>2. i \in Nat /\ DataSectors(size[i]) \in Nat
      BY <3>1, BlockFacts
    <3>3. i \in Block(i)
      BY <3>2, RunFacts DEF Block
    <3> QED BY <3>1, <3>3
  <2> QED BY <2>1, <2>2, <2>3
<1> QED BY <1>1, <1>2, <1>3

LEMMA RunIsBlock ==
  ASSUME NEW h \in Nat, NEW n \in Nat
  PROVE  Storage!Run(h, n + 1) = h .. h + n
BY DEF Storage!Run

LEMMA GrantStep ==
  ASSUME SectorInv, NEW s \in Sizes, fsAllocate(s)
  PROVE  Storage!Grant(DataSectors(s) + 1)
<1> DEFINE n == DataSectors(s)
<1>1. PICK h : h = result'
  OBVIOUS
<1>2. /\ Headers' = Headers \cup {h} /\ h \notin Headers
      /\ Block(h)' = h .. h + n
      /\ Block(h)' \subseteq 1 .. SectorCount - 1
      /\ \A j \in Block(h)' : j \in Sector /\ marker[j] = SECTOR_FREE
      /\ \A g \in Headers : Block(g)' = Block(g)
  BY <1>1, AllocateStep
<1>3. n \in Nat
  BY DataSectorsType
<1>4. h \in Nat
  <2>1. h = FirstFit(marker, n) /\ h # 0
    BY <1>1 DEF fsAllocate
  <2> QED BY <1>3, <2>1, FirstFitFits
<1> HIDE DEF n
<1>5. Storage!Run(h, n + 1) = h .. h + n /\ h \in h .. h + n
  BY <1>3, <1>4, RunIsBlock, RunFacts
<1>6. h .. h + n \subseteq Storage!FreeSectors
  BY <1>2, FreeAgrees
<1>7. Owned' = [g \in Headers \cup {h} |->
                  IF g = h THEN h .. h + n ELSE Owned[g]]
  <2>1. Owned' = [g \in Headers \cup {h} |-> Block(g)']
    BY <1>2 DEF Owned
  <2>2. \A g \in Headers \cup {h} :
          Block(g)' = IF g = h THEN h .. h + n ELSE Owned[g]
    BY <1>2 DEF Owned
  <2> QED BY <2>1, <2>2
<1> QED BY <1>1, <1>5, <1>6, <1>7 DEF Storage!Grant, Owned, n

LEMMA RefuseStep ==
  ASSUME SectorInv, NEW s \in Sizes, fsAllocateFails(s)
  PROVE  Storage!Refuse(DataSectors(s) + 1) /\ SectorInv'
<1> DEFINE n == DataSectors(s)
<1>1. n \in Nat
  BY DataSectorsType
<1>2. /\ FirstFit(marker, n) = 0 /\ result' = 0
      /\ marker' = marker /\ size' = size /\ root' = root
  BY DEF fsAllocateFails
<1>3. marker[0] # SECTOR_FREE
  <2>1. DataSectors(DirSize) \in Nat
    BY DataSectorsType
  <2>2. 0 \in Sector
    BY <2>1
  <2> QED BY <2>2 DEF SectorInv, HeaderKept
<1>4. \A i \in Sector : ~Fits(marker, i, n)
  BY <1>1, <1>2, <1>3, NoFit
<1> HIDE DEF n
<1>5. ASSUME NEW i \in 1 .. SectorCount - 1,
             Storage!Run(i, n + 1) \subseteq Storage!FreeSectors
      PROVE  FALSE
  <2>1. Storage!Run(i, n + 1) = i .. i + n
    BY <1>1, RunIsBlock
  <2>2. \A j \in i .. i + n : j \in 1 .. SectorCount - 1
    BY <1>5, <2>1 DEF Storage!FreeSectors
  <2>3. \A j \in i .. i + n : marker[j] = SECTOR_FREE
    BY <1>5, <2>1, <2>2, FreeAgrees
  <2>4. \A a \in 0 .. n : i + a \in i .. i + n /\ i + a \in Sector
    BY <1>1, <2>2
  <2>5. Fits(marker, i, n)
    BY <2>3, <2>4 DEF Fits, MarkerAt
  <2> QED BY <1>4, <2>5
<1>6. Owned' = Owned
  BY <1>2 DEF Owned, Headers, Block
<1>7. SectorInv'
  BY <1>2 DEF SectorInv, TypeOK, BlocksWhole, NoOrphans, HeaderKept, RootAgrees,
              Headers, Block, fsDeviceGetRootDirectory
<1> QED BY <1>2, <1>5, <1>6, <1>7 DEF Storage!Refuse, Owned, n

LEMMA ReleaseStep ==
  ASSUME SectorInv, NEW h \in Headers, fsFree(h)
  PROVE  Storage!Release(h)
<1>1. /\ Headers' = Headers \ {h}
      /\ \A g \in Headers : g # h => Block(g)' = Block(g)
  BY FreeStep
<1>2. Owned' = [g \in Headers \ {h} |-> Owned[g]]
  <2>1. Owned' = [g \in Headers \ {h} |-> Block(g)']
    BY <1>1 DEF Owned
  <2>2. \A g \in Headers \ {h} : Block(g)' = Owned[g]
    BY <1>1 DEF Owned
  <2> QED BY <2>1, <2>2
<1>3. result' = result
  BY DEF fsFree
<1> QED BY <1>2, <1>3 DEF Storage!Release, Owned

-----------------------------------------------------------------------------
LEMMA NextStep ==
  ASSUME SectorInv, [Next]_sectorVars
  PROVE  SectorInv' /\ [Storage!Next]_<<Owned, result>>
<1>1. ASSUME NEW s \in Sizes, fsAllocate(s)
      PROVE  SectorInv' /\ Storage!Next
  <2>1. PICK h : h = result'
    OBVIOUS
  <2>2. SectorInv'
    BY <1>1, <2>1, AllocateStep
  <2> QED BY <1>1, <2>2, GrantStep DEF Storage!Next
<1>2. ASSUME NEW s \in Sizes, fsAllocateFails(s)
      PROVE  SectorInv' /\ Storage!Next
  BY <1>2, RefuseStep DEF Storage!Next
<1>3. ASSUME NEW h \in Headers, fsFree(h)
      PROVE  SectorInv' /\ Storage!Next
  BY <1>3, FreeStep, ReleaseStep DEF Storage!Next
<1>4. CASE fsDeviceFormat
  BY <1>4, FormatStep DEF Storage!Next
<1>5. CASE UNCHANGED sectorVars
  BY <1>5 DEF sectorVars, SectorInv, TypeOK, BlocksWhole, NoOrphans, HeaderKept,
              RootAgrees, Headers, Block, fsDeviceGetRootDirectory, Owned
<1> QED BY <1>1, <1>2, <1>3, <1>4, <1>5 DEF Next

(* Markers, sizes and handles keep their types.                            *)
THEOREM TypeCorrect == Spec => []TypeOK
<1>1. SectorInv => TypeOK
  BY DEF SectorInv
<1> QED BY InitInv, NextStep, <1>1, PTL DEF Spec

(* Every block fsAllocate hands out stays whole and inside the partition.  *)
THEOREM BlocksCorrect == Spec => []BlocksWhole
<1>1. SectorInv => BlocksWhole
  BY DEF SectorInv
<1> QED BY InitInv, NextStep, <1>1, PTL DEF Spec

(* fsFree gives back every sector fsAllocate took.                         *)
THEOREM NoLeak == Spec => []NoOrphans
<1>1. SectorInv => NoOrphans
  BY DEF SectorInv
<1> QED BY InitInv, NextStep, <1>1, PTL DEF Spec

(* The root handle is right although it is read from the wrong field.      *)
THEOREM RootCorrect == Spec => []RootAgrees
<1>1. SectorInv => RootAgrees
  BY DEF SectorInv
<1> QED BY InitInv, NextStep, <1>1, PTL DEF Spec

(* fsAllocate and fsFree implement the abstract allocator: blocks are      *)
(* disjoint runs, and 0 is returned only when no run is long enough.       *)
THEOREM SectorsImplementAllocator == Spec => ImplementsAllocator
<1>1. Init => Storage!Init
  BY InitInv
<1>2. SectorInv /\ [Next]_sectorVars =>
        [Storage!Next]_<<[h \in Headers |-> Block(h)], result>>
  BY NextStep DEF Owned
<1> QED
  BY InitInv, NextStep, <1>1, <1>2, PTL
  DEF Spec, ImplementsAllocator, Storage!Spec, Storage!allocVars

HIDE SectorsAssumption DEF Sector, Marker

-----------------------------------------------------------------------------
(* The directory is the n + 1 blocks of c: the root and its n extents.     *)
IsChain(n, c) ==
  /\ c \in [0 .. n -> Headers]
  /\ c[0] = root
  /\ next[c[n]] = 0
  /\ \A i \in 0 .. n - 1 : next[c[i]] = c[i + 1] /\ parent[c[i + 1]] = c[i]
  /\ \A i \in 0 .. n : size[c[i]] = DirSize
  /\ \A i, j \in 0 .. n : c[i] = c[j] => i = j

InChain(n, c, h) == \E i \in 0 .. n : c[i] = h

(* Each block is in the chain, or listed, or held, and only one of these.  *)
Accounted(n, c) ==
  /\ \A h : h \in Headers <=> InChain(n, c, h) \/ h \in listed \/ (h = held /\ held # 0)
  /\ \A h : ~(InChain(n, c, h) /\ (h \in listed \/ h = held))
  /\ held \notin listed

(* The references r of the chain's blocks are the files of L, each once.   *)
Places(c, r, i) == DOMAIN r[c[i]]

Ref(c, r, i, a) == r[c[i]][a]

OnlyListed(n, c, r, L) ==
  \A i \in 0 .. n : \A a \in Places(c, r, i) : Ref(c, r, i, a) \in L

AllListed(n, c, r, L) ==
  \A f \in L : \E i \in 0 .. n : \E a \in Places(c, r, i) : Ref(c, r, i, a) = f

ListedOnce(n, c, r) ==
  \A i, j \in 0 .. n : \A a \in Places(c, r, i), b \in Places(c, r, j) :
    Ref(c, r, i, a) = Ref(c, r, j, b) => i = j /\ a = b

Filed(n, c, r, L) ==
  OnlyListed(n, c, r, L) /\ AllListed(n, c, r, L) /\ ListedOnce(n, c, r)

(* A first extent that cannot be had takes the reference with it, and the  *)
(* device header too: until then the references are complete.              *)
Directory(n, c) ==
  /\ IsChain(n, c)
  /\ Accounted(n, c)
  /\ formatted => Filed(n, c, refs, listed)

DirectoryInv ==
  /\ SectorInv
  /\ DirectoryTypeOK
  /\ \E n \in Nat : \E c : Directory(n, c)

-----------------------------------------------------------------------------
(* The loop over the blocks.                                               *)
LEMMA DirectoryData ==
  /\ DataSectors(DirSize) \in Nat
  /\ DataSectors(DirSize) > 0
  /\ SectorCount \in Nat \ {0}
  /\ SectorCount > DataSectors(DirSize) + 1
<1>1. DirSize \in Nat
  BY SectorsAssumption
<1> QED BY <1>1, DataSectorsType, SectorsAssumption, DirectoryAssumption

LEMMA ZeroSector == 0 \in Sector
BY DirectoryData DEF Sector

LEMMA Quotient ==
  ASSUME NEW s \in Nat, NEW d \in Nat \ {0}
  PROVE  /\ s \div d \in Nat
         /\ \A m \in Nat : m * d <= s => m <= s \div d
<1>1. /\ s \div d \in Nat
      /\ s < (s \div d) * d + d
  OBVIOUS
<1>2. ASSUME NEW m \in Nat, m * d <= s, ~(m <= s \div d)
      PROVE  FALSE
  <2>1. PICK q \in Nat : q = s \div d
    BY <1>1
  <2>2. m >= q + 1
    BY <1>2, <2>1
  <2>3. m * d >= (q + 1) * d
    <3>1. m - (q + 1) \in Nat
      BY <2>2
    <3>2. (m - (q + 1)) * d \in Nat
      BY <3>1
    <3> QED BY <3>2
  <2>4. (q + 1) * d = q * d + d
    OBVIOUS
  <2> QED BY <1>1, <1>2, <2>1, <2>3, <2>4
<1> QED BY <1>1, <1>2

LEMMA MaxHopsType == MaxHops \in Nat
BY DirectoryData, Quotient DEF MaxHops

(* The number of pairs of a row and a column.                              *)
LEMMA GridSize ==
  ASSUME NEW a \in Nat, NEW b \in Nat
  PROVE  Cardinality((0 .. a) \X (0 .. b)) = (a + 1) * (b + 1)
<1> DEFINE A == 0 .. a  B == 0 .. b
<1>1. IsFiniteSet(A) /\ Cardinality(A) = a + 1
  BY FS_Interval
<1>2. IsFiniteSet(B) /\ Cardinality(B) = b + 1
  BY FS_Interval
<1>3. Cardinality(A \X B) = Cardinality(A) * Cardinality(B)
  <2> HIDE DEF A, B
  <2> QED BY <1>1, <1>2, FS_Product
<1> QED BY <1>1, <1>2, <1>3

(* The device has room for the chain, so the loop sees its end.            *)
LEMMA ChainFits ==
  ASSUME SectorInv, NEW n \in Nat, NEW c, IsChain(n, c)
  PROVE  n < MaxHops
<1> DEFINE D == DataSectors(DirSize)
           S == 1 .. SectorCount - 1
           P == (0 .. n) \X (0 .. D)
           place == [p \in P |-> c[p[1]] + p[2]]
<1>1. D \in Nat /\ SectorCount \in Nat \ {0}
  BY DirectoryData
<1>2. ASSUME NEW i \in 0 .. n
      PROVE  /\ c[i] \in Headers /\ c[i] \in Nat
             /\ Block(c[i]) = c[i] .. c[i] + D
             /\ Block(c[i]) \subseteq S
  <2>1. c[i] \in Headers /\ size[c[i]] = DirSize
    BY DEF IsChain
  <2>2. c[i] \in Sector
    BY <2>1 DEF Headers
  <2> QED BY <2>1, <2>2, BlockFacts DEF Block, Sector
<1> HIDE DEF D
<1>3. ASSUME NEW i \in 0 .. n, NEW a \in 0 .. D
      PROVE  c[i] + a \in Block(c[i]) /\ c[i] + a \in S
  BY <1>1, <1>2
<1>4. ASSUME NEW i \in 0 .. n, NEW a \in 0 .. D, NEW j \in 0 .. n, NEW b \in 0 .. D,
             c[i] + a = c[j] + b
      PROVE  i = j /\ a = b
  <2>1. c[i] = c[j]
    <3> SUFFICES ASSUME c[i] # c[j] PROVE FALSE
      OBVIOUS
    <3>1. Block(c[i]) \cap Block(c[j]) = {}
      BY <1>2, BlocksDisjoint
    <3>2. c[i] + a \in Block(c[i]) /\ c[i] + a \in Block(c[j])
      BY <1>3, <1>4
    <3> QED BY <3>1, <3>2
  <2>2. i = j
    BY <2>1 DEF IsChain
  <2>3. a = b
    BY <1>1, <1>2, <1>4, <2>1
  <2> QED BY <2>2, <2>3
<1>5. place \in Injection(P, S)
  <2>1. place \in [P -> S]
    BY <1>3
  <2>2. ASSUME NEW p \in P, NEW q \in P, place[p] = place[q] PROVE p = q
    <3>1. /\ p[1] \in 0 .. n /\ p[2] \in 0 .. D /\ p = <<p[1], p[2]>>
          /\ q[1] \in 0 .. n /\ q[2] \in 0 .. D /\ q = <<q[1], q[2]>>
      OBVIOUS
    <3>2. c[p[1]] + p[2] = c[q[1]] + q[2]
      BY <2>2
    <3>3. p[1] = q[1] /\ p[2] = q[2]
      BY <1>4, <3>1, <3>2
    <3> QED BY <3>1, <3>3
  <2> QED BY <2>1, <2>2 DEF Injection, IsInjective
<1>6. IsFiniteSet(S) /\ Cardinality(S) <= SectorCount - 1
  BY <1>1, FS_Interval
<1>7. Cardinality(P) = (n + 1) * (D + 1)
  <2> HIDE DEF S, place
  <2> QED BY <1>1, GridSize
<1>8. Cardinality(P) <= Cardinality(S)
  <2> HIDE DEF P, S, place
  <2> QED BY <1>5, <1>6, FS_Injection
<1>9. (n + 1) * (D + 1) <= SectorCount
  <2>1. Cardinality(S) \in Nat
    BY <1>6, FS_CardinalityType
  <2>2. (n + 1) * (D + 1) \in Nat
    BY <1>1
  <2> QED BY <1>1, <1>6, <1>7, <1>8, <2>1, <2>2
<1>10. n + 1 <= SectorCount \div (D + 1)
  BY <1>1, <1>9, Quotient
<1> QED BY <1>10, MaxHopsType DEF MaxHops, D

LEMMA HopOfChain ==
  ASSUME SectorInv, NEW n \in Nat, NEW c, IsChain(n, c)
  PROVE  \A k \in 0 .. MaxHops : Hop[k] = IF k <= n THEN c[k] ELSE 0
<1> DEFINE w == [k \in 0 .. MaxHops |-> IF k <= n THEN c[k] ELSE 0]
           E(f) == [k \in 0 .. MaxHops |->
                      IF k = 0 THEN root
                      ELSE IF f[k - 1] = 0 THEN 0 ELSE next[f[k - 1]]]
<1>1. MaxHops \in Nat /\ n < MaxHops
  BY MaxHopsType, ChainFits
<1>2. \A i \in 0 .. n : c[i] # 0
  BY BlockFacts DEF IsChain
<1>3. w = E(w)
  <2> SUFFICES ASSUME NEW k \in 0 .. MaxHops PROVE w[k] = E(w)[k]
    OBVIOUS
  <2>1. CASE k = 0
    BY <2>1 DEF IsChain
  <2>2. CASE k # 0 /\ k <= n
    <3>1. w[k - 1] = c[k - 1] /\ k - 1 \in 0 .. n - 1 /\ k - 1 \in 0 .. n
      BY <1>1, <2>2
    <3>2. next[c[k - 1]] = c[(k - 1) + 1] /\ (k - 1) + 1 = k
      BY <3>1 DEF IsChain
    <3> QED BY <1>2, <2>2, <3>1, <3>2
  <2>3. CASE k = n + 1
    <3>1. w[k - 1] = c[n] /\ next[c[n]] = 0
      BY <1>1, <2>3 DEF IsChain
    <3> QED BY <1>1, <2>3, <3>1
  <2>4. CASE k > n + 1
    BY <1>1, <2>4
  <2> QED BY <2>1, <2>2, <2>3, <2>4
<1>4. Hop = E(Hop)
  <2>1. \E f : f = E(f)
    BY <1>3
  <2>2. Hop = CHOOSE f : f = E(f)
    BY DEF Hop, fsFileGetNextAddress
  <2> QED BY <2>1, <2>2
<1>5. \A k \in 0 .. MaxHops : Hop[k] = w[k]
  <2> DEFINE Bad == {k \in 0 .. MaxHops : Hop[k] # w[k]}
  <2> SUFFICES ASSUME Bad # {} PROVE FALSE
    OBVIOUS
  <2>1. PICK k \in Bad : \A j \in Bad : k <= j
    <3>1. Bad \subseteq Nat
      OBVIOUS
    <3> HIDE DEF Bad
    <3> QED BY <3>1, LeastExists
  <2>2. k # 0
    BY <1>1, <1>3, <1>4
  <2>3. k - 1 \in 0 .. MaxHops /\ Hop[k - 1] = w[k - 1]
    BY <1>1, <2>1, <2>2
  <2>4. E(Hop)[k] = E(w)[k]
    BY <2>2, <2>3
  <2> QED BY <1>3, <1>4, <2>4
<1> QED BY <1>5

LEMMA HopsOfChain ==
  ASSUME SectorInv, NEW n \in Nat, NEW c, IsChain(n, c)
  PROVE  \A h : h \in Hops <=> InChain(n, c, h)
<1>1. \A k \in 0 .. MaxHops : Hop[k] = IF k <= n THEN c[k] ELSE 0
  BY HopOfChain
<1>2. MaxHops \in Nat /\ n < MaxHops
  BY MaxHopsType, ChainFits
<1>3. \A i \in 0 .. n : c[i] # 0
  BY BlockFacts DEF IsChain
<1>4. ASSUME NEW h \in Hops PROVE InChain(n, c, h)
  <2>1. PICK k \in 0 .. MaxHops : h = Hop[k] /\ h # 0
    BY DEF Hops
  <2>2. k <= n
    BY <1>1, <2>1
  <2> QED BY <1>1, <2>1, <2>2 DEF InChain
<1>5. ASSUME NEW h, InChain(n, c, h) PROVE h \in Hops
  <2>1. PICK i \in 0 .. n : c[i] = h
    BY <1>5 DEF InChain
  <2>2. i \in 0 .. MaxHops /\ Hop[i] = c[i]
    BY <1>1, <1>2
  <2> QED BY <1>3, <2>1, <2>2 DEF Hops
<1> QED BY <1>4, <1>5

LEMMA InvChainLinked == DirectoryInv => ChainLinked
<1> SUFFICES ASSUME DirectoryInv PROVE ChainLinked
  OBVIOUS
<1>1. PICK n \in Nat : \E c : Directory(n, c)
  BY DEF DirectoryInv
<1>2. PICK c : Directory(n, c)
  BY <1>1
<1>3. SectorInv /\ IsChain(n, c)
  BY <1>2 DEF DirectoryInv, Directory
<1>4. \A k \in 0 .. MaxHops : Hop[k] = IF k <= n THEN c[k] ELSE 0
  BY <1>3, HopOfChain
<1>5. MaxHops \in Nat /\ n < MaxHops
  BY <1>3, MaxHopsType, ChainFits
<1>6. ASSUME NEW k \in 1 .. MaxHops, Hop[k] # 0
      PROVE  Hop[k] \in Headers /\ size[Hop[k]] = DirSize /\ parent[Hop[k]] = Hop[k - 1]
  <2>1. k \in 0 .. n /\ k - 1 \in 0 .. n - 1 /\ k - 1 \in 0 .. MaxHops
    BY <1>4, <1>5, <1>6
  <2>2. Hop[k] = c[k] /\ Hop[k - 1] = c[k - 1]
    BY <1>4, <1>5, <2>1
  <2>3. parent[c[(k - 1) + 1]] = c[k - 1] /\ (k - 1) + 1 = k
    BY <1>3, <2>1 DEF IsChain
  <2> QED BY <1>3, <2>1, <2>2, <2>3 DEF IsChain
<1> QED BY <1>4, <1>5, <1>6 DEF ChainLinked

LEMMA InvBlocksAccounted == DirectoryInv => BlocksAccounted
<1> SUFFICES ASSUME DirectoryInv PROVE BlocksAccounted
  OBVIOUS
<1>1. PICK n \in Nat : \E c : Directory(n, c)
  BY DEF DirectoryInv
<1>2. PICK c : Directory(n, c)
  BY <1>1
<1>3. \A h : h \in Hops <=> InChain(n, c, h)
  BY <1>2, HopsOfChain DEF DirectoryInv, Directory
<1> QED BY <1>2, <1>3 DEF Directory, Accounted, BlocksAccounted

(* Where fsDirectoryAddFile stops: at an extent, and at the last one when  *)
(* that extent is full.                                                    *)
LEMMA TargetOfChain ==
  ASSUME SectorInv, NEW n \in Nat, NEW c, IsChain(n, c), next[root] # 0
  PROVE  /\ InChain(n, c, Target) /\ \E k \in 1 .. n : Target = c[k]
         /\ ExtentFull(Target) => Target = c[n]
<1> DEFINE S == {k \in 1 .. MaxHops : Stops(k)}
<1>1. \A k \in 0 .. MaxHops : Hop[k] = IF k <= n THEN c[k] ELSE 0
  BY HopOfChain
<1>2. MaxHops \in Nat /\ n < MaxHops
  BY MaxHopsType, ChainFits
<1>3. n \in S
  <2>1. n # 0
    BY DEF IsChain
  <2>2. Hop[n] = c[n] /\ c[n] # 0 /\ next[c[n]] = 0
    BY <1>1, <1>2, BlockFacts DEF IsChain
  <2> QED BY <1>2, <2>1, <2>2 DEF Stops, fsFileGetNextAddress
<1>4. \E k \in 1 .. MaxHops : Stops(k) /\ \A j \in 1 .. k - 1 : ~Stops(j)
  <2>1. S \subseteq Nat
    OBVIOUS
  <2>2. \E k \in S : \A j \in S : k <= j
    <3> HIDE DEF S
    <3> QED BY <1>3, <2>1, LeastExists
  <2>3. PICK k \in S : \A j \in S : k <= j
    BY <2>2
  <2>4. ASSUME NEW j \in 1 .. k - 1 PROVE ~Stops(j)
    BY <1>2, <2>3
  <2> QED BY <2>3, <2>4
<1>5. PICK k \in 1 .. MaxHops : Stops(k) /\ Target = Hop[k]
  BY <1>4 DEF Target
<1>6. k \in 0 .. n /\ k \in 1 .. n /\ Target = c[k]
  BY <1>1, <1>2, <1>5 DEF Stops
<1>7. ASSUME ExtentFull(Target) PROVE k = n
  <2>1. next[c[k]] = 0
    BY <1>5, <1>6, <1>7 DEF Stops, fsFileGetNextAddress
  <2>2. ASSUME k # n PROVE FALSE
    <3>1. k \in 0 .. n - 1 /\ k + 1 \in 0 .. n
      BY <1>6, <2>2
    <3>2. next[c[k]] = c[k + 1] /\ c[k + 1] # 0
      BY <3>1, BlockFacts DEF IsChain
    <3> QED BY <2>1, <3>2
  <2> QED BY <2>2
<1> QED BY <1>6, <1>7 DEF InChain

-----------------------------------------------------------------------------
(* What the operations do to a chain c.  Its blocks are of the set H and   *)
(* are different: an extent h is linked after the last, or the k-th is     *)
(* taken out.                                                              *)
Blocks(n, c, H) ==
  /\ c \in [0 .. n -> H]
  /\ \A i, j \in 0 .. n : c[i] = c[j] => i = j

Longer(n, c, h) == [i \in 0 .. n + 1 |-> IF i <= n THEN c[i] ELSE h]

Shorter(n, c, k) == [i \in 0 .. n - 1 |-> IF i < k THEN c[i] ELSE c[i + 1]]

LEMMA LongerAt ==
  ASSUME NEW n \in Nat, NEW c, NEW h
  PROVE  /\ \A i \in 0 .. n : Longer(n, c, h)[i] = c[i]
         /\ Longer(n, c, h)[n + 1] = h
         /\ \A g : InChain(n + 1, Longer(n, c, h), g) <=> InChain(n, c, g) \/ g = h
<1> DEFINE e == Longer(n, c, h)
<1>1. \A i \in 0 .. n + 1 : i \in 0 .. n \/ i = n + 1
  OBVIOUS
<1>2. 0 .. n \subseteq 0 .. n + 1 /\ n + 1 \in 0 .. n + 1
  OBVIOUS
<1>3. \A i \in 0 .. n : e[i] = c[i]
  BY <1>2 DEF Longer
<1>4. e[n + 1] = h
  BY <1>2 DEF Longer
<1>5. \A g : InChain(n + 1, e, g) <=> InChain(n, c, g) \/ g = h
  <2> HIDE DEF e
  <2> QED BY <1>1, <1>2, <1>3, <1>4 DEF InChain
<1> QED BY <1>3, <1>4, <1>5

LEMMA LongerBlocks ==
  ASSUME NEW n \in Nat, NEW c, NEW H, Blocks(n, c, H), NEW h, h \notin H
  PROVE  Blocks(n + 1, Longer(n, c, h), H \cup {h})
<1> DEFINE e == Longer(n, c, h)
<1>1. \A i \in 0 .. n + 1 : i \in 0 .. n \/ i = n + 1
  OBVIOUS
<1>2. (\A i \in 0 .. n : e[i] = c[i] /\ c[i] \in H) /\ e[n + 1] = h
  BY LongerAt DEF Blocks
<1>3. e \in [0 .. n + 1 -> H \cup {h}]
  BY <1>1, <1>2 DEF Longer
<1>4. \A i, j \in 0 .. n + 1 : e[i] = e[j] => i = j
  <2> HIDE DEF e
  <2> QED BY <1>1, <1>2 DEF Blocks
<1> QED BY <1>3, <1>4 DEF Blocks

LEMMA ShorterAt ==
  ASSUME NEW n \in Nat, NEW c, NEW k \in 1 .. n,
         \A i, j \in 0 .. n : c[i] = c[j] => i = j
  PROVE  /\ n - 1 \in Nat
         /\ \A i \in 0 .. n - 1 :
              Shorter(n, c, k)[i] = IF i < k THEN c[i] ELSE c[i + 1]
         /\ \A g : InChain(n - 1, Shorter(n, c, k), g) <=> InChain(n, c, g) /\ g # c[k]
<1> DEFINE e == Shorter(n, c, k)
<1>1. n - 1 \in Nat
  OBVIOUS
<1>2. \A i \in 0 .. n - 1 : e[i] = IF i < k THEN c[i] ELSE c[i + 1]
  BY DEF Shorter
<1>3. \A i \in 0 .. n - 1 : i \in 0 .. n /\ i + 1 \in 0 .. n
  OBVIOUS
<1>4. ASSUME NEW g PROVE InChain(n - 1, e, g) => InChain(n, c, g) /\ g # c[k]
  <2> SUFFICES ASSUME InChain(n - 1, e, g) PROVE InChain(n, c, g) /\ g # c[k]
    OBVIOUS
  <2>1. PICK i \in 0 .. n - 1 : e[i] = g
    BY DEF InChain
  <2> QED BY <1>2, <1>3, <2>1 DEF InChain
<1>5. ASSUME NEW g PROVE InChain(n, c, g) /\ g # c[k] => InChain(n - 1, e, g)
  <2> SUFFICES ASSUME InChain(n, c, g), g # c[k] PROVE InChain(n - 1, e, g)
    OBVIOUS
  <2>1. PICK i \in 0 .. n : c[i] = g
    BY DEF InChain
  <2>2. CASE i < k
    <3>1. i \in 0 .. n - 1 /\ e[i] = g
      BY <1>2, <2>1, <2>2
    <3> QED BY <3>1 DEF InChain
  <2>3. CASE i > k
    <3>1. i - 1 \in 0 .. n - 1 /\ ~(i - 1 < k) /\ (i - 1) + 1 = i
      BY <2>3
    <3>2. e[i - 1] = g
      BY <1>2, <2>1, <3>1
    <3> QED BY <3>1, <3>2 DEF InChain
  <2>4. i # k
    BY <2>1
  <2> QED BY <2>2, <2>3, <2>4
<1> QED BY <1>1, <1>2, <1>4, <1>5

LEMMA ShorterBlocks ==
  ASSUME NEW n \in Nat, NEW c, NEW H, Blocks(n, c, H), NEW k \in 1 .. n
  PROVE  Blocks(n - 1, Shorter(n, c, k), H \ {c[k]})
<1> DEFINE e == Shorter(n, c, k)
<1>1. \A i, j \in 0 .. n : c[i] = c[j] => i = j
  BY DEF Blocks
<1>2. \A i \in 0 .. n - 1 : e[i] = IF i < k THEN c[i] ELSE c[i + 1]
  BY <1>1, ShorterAt
<1>3. \A i \in 0 .. n - 1 : i \in 0 .. n /\ i + 1 \in 0 .. n
  OBVIOUS
<1>4. \A i \in 0 .. n - 1 : e[i] \in H \ {c[k]}
  BY <1>2, <1>3 DEF Blocks
<1>5. e \in [0 .. n - 1 -> H \ {c[k]}]
  BY <1>4 DEF Shorter
<1> HIDE DEF e
<1>6. ASSUME NEW i \in 0 .. n - 1, NEW j \in 0 .. n - 1, e[i] = e[j]
      PROVE  i = j
  <2>1. (IF i < k THEN c[i] ELSE c[i + 1]) = (IF j < k THEN c[j] ELSE c[j + 1])
    BY <1>2, <1>6
  <2>2. CASE i < k /\ j < k
    BY <1>1, <1>3, <2>1, <2>2
  <2>3. CASE ~(i < k) /\ ~(j < k)
    <3>1. i + 1 = j + 1
      BY <1>1, <1>3, <2>1, <2>3
    <3> QED BY <3>1
  <2>4. CASE i < k /\ ~(j < k)
    <3>1. i = j + 1
      BY <1>1, <1>3, <2>1, <2>4
    <3> QED BY <2>4, <3>1
  <2>5. CASE ~(i < k) /\ j < k
    <3>1. i + 1 = j
      BY <1>1, <1>3, <2>1, <2>5
    <3> QED BY <2>5, <3>1
  <2> QED BY <2>2, <2>3, <2>4, <2>5
<1> QED BY <1>5, <1>6 DEF Blocks, e

-----------------------------------------------------------------------------
(* What they do to the references.                                         *)
LEMMA FiledSame ==
  ASSUME NEW n \in Nat, NEW c, NEW r, NEW L, Filed(n, c, r, L),
         NEW q, \A i \in 0 .. n : q[c[i]] = r[c[i]]
  PROVE  Filed(n, c, q, L)
<1>1. \A i \in 0 .. n : /\ Places(c, q, i) = Places(c, r, i)
                         /\ \A a : Ref(c, q, i, a) = Ref(c, r, i, a)
  BY DEF Places, Ref
<1>2. OnlyListed(n, c, q, L)
  BY <1>1 DEF Filed, OnlyListed
<1>3. AllListed(n, c, q, L)
  BY <1>1 DEF Filed, AllListed
<1>4. ListedOnce(n, c, q)
  BY <1>1 DEF Filed, ListedOnce
<1> QED BY <1>2, <1>3, <1>4 DEF Filed

(* An empty extent is linked.                                              *)
LEMMA FiledLonger ==
  ASSUME NEW n \in Nat, NEW c, NEW h, NEW r, NEW L, Filed(n, c, r, L), r[h] = <<>>
  PROVE  Filed(n + 1, Longer(n, c, h), r, L)
<1> DEFINE e == Longer(n, c, h)
<1>1. (\A i \in 0 .. n : e[i] = c[i]) /\ e[n + 1] = h
  BY LongerAt
<1> HIDE DEF e
<1>2. \A i \in 0 .. n : /\ Places(e, r, i) = Places(c, r, i)
                         /\ \A a : Ref(e, r, i, a) = Ref(c, r, i, a)
  <2>1. \A i \in 0 .. n : r[e[i]] = r[c[i]]
    BY <1>1
  <2> QED BY <2>1 DEF Places, Ref
<1>3. Places(e, r, n + 1) = {}
  BY <1>1 DEF Places
<1>4. \A i \in 0 .. n + 1 : i \in 0 .. n \/ i = n + 1
  OBVIOUS
<1>5. 0 .. n \subseteq 0 .. n + 1
  OBVIOUS
<1>6. OnlyListed(n + 1, e, r, L)
  BY <1>2, <1>3, <1>4 DEF Filed, OnlyListed
<1>7. AllListed(n + 1, e, r, L)
  BY <1>2, <1>5 DEF Filed, AllListed
<1>8. ListedOnce(n + 1, e, r)
  BY <1>2, <1>3, <1>4 DEF Filed, ListedOnce
<1> QED BY <1>6, <1>7, <1>8 DEF Filed, e

(* An empty extent is taken out.                                           *)
LEMMA FiledShorter ==
  ASSUME NEW n \in Nat, NEW c, NEW k \in 1 .. n,
         \A i, j \in 0 .. n : c[i] = c[j] => i = j,
         NEW r, NEW L, Filed(n, c, r, L), r[c[k]] = <<>>
  PROVE  Filed(n - 1, Shorter(n, c, k), r, L)
<1> DEFINE e == Shorter(n, c, k)
           old(i) == IF i < k THEN i ELSE i + 1
<1>1. \A i \in 0 .. n - 1 : e[i] = IF i < k THEN c[i] ELSE c[i + 1]
  BY ShorterAt
<1> HIDE DEF e
<1>2. \A i \in 0 .. n - 1 : old(i) \in 0 .. n
  OBVIOUS
<1>3. \A i, j \in 0 .. n - 1 : old(i) = old(j) => i = j
  OBVIOUS
<1>4. \A j \in 0 .. n : j # k => \E i \in 0 .. n - 1 : old(i) = j
  <2> SUFFICES ASSUME NEW j \in 0 .. n, j # k PROVE \E i \in 0 .. n - 1 : old(i) = j
    OBVIOUS
  <2>1. CASE j < k
    <3>1. j \in 0 .. n - 1 /\ old(j) = j
      BY <2>1
    <3> QED BY <3>1
  <2>2. CASE j > k
    <3>1. j - 1 \in 0 .. n - 1 /\ old(j - 1) = j
      BY <2>2
    <3> QED BY <3>1
  <2> QED BY <2>1, <2>2
<1>5. \A i \in 0 .. n - 1 : /\ Places(e, r, i) = Places(c, r, old(i))
                             /\ \A a : Ref(e, r, i, a) = Ref(c, r, old(i), a)
  <2>1. \A i \in 0 .. n - 1 : r[e[i]] = r[c[old(i)]]
    BY <1>1
  <2> QED BY <2>1 DEF Places, Ref
<1>6. Places(c, r, k) = {}
  BY DEF Places
<1> HIDE DEF old
<1>7. OnlyListed(n - 1, e, r, L)
  BY <1>2, <1>5 DEF Filed, OnlyListed
<1>8. AllListed(n - 1, e, r, L)
  <2> SUFFICES ASSUME NEW f \in L
               PROVE  \E i \in 0 .. n - 1 : \E a \in Places(e, r, i) : Ref(e, r, i, a) = f
    BY DEF AllListed
  <2>1. PICK j \in 0 .. n : \E a \in Places(c, r, j) : Ref(c, r, j, a) = f
    BY DEF Filed, AllListed
  <2>2. PICK i \in 0 .. n - 1 : old(i) = j
    BY <1>4, <1>6, <2>1
  <2> QED BY <1>5, <2>1, <2>2
<1>9. ListedOnce(n - 1, e, r)
  <2> SUFFICES ASSUME NEW i \in 0 .. n - 1, NEW j \in 0 .. n - 1,
                      NEW a \in Places(e, r, i), NEW b \in Places(e, r, j),
                      Ref(e, r, i, a) = Ref(e, r, j, b)
               PROVE  i = j /\ a = b
    BY DEF ListedOnce
  <2>1. old(i) = old(j) /\ a = b
    BY <1>2, <1>5 DEF Filed, ListedOnce
  <2> QED BY <1>3, <2>1
<1> QED BY <1>7, <1>8, <1>9 DEF Filed, e

(* A reference is appended to the k-th block.                              *)
LEMMA FiledAppended ==
  ASSUME NEW n \in Nat, NEW c, NEW k \in 0 .. n,
         \A i, j \in 0 .. n : c[i] = c[j] => i = j,
         NEW T, \A i \in 0 .. n : c[i] \in T,
         NEW r \in [T -> Seq(T)], NEW L, Filed(n, c, r, L),
         NEW f \in T, f \notin L
  PROVE  Filed(n, c, [r EXCEPT ![c[k]] = Append(@, f)], L \cup {f})
<1> DEFINE d == c[k]
           l == Len(r[d])
           q == [r EXCEPT ![d] = Append(@, f)]
<1>1. d \in T /\ r[d] \in Seq(T) /\ l \in Nat /\ DOMAIN r[d] = 1 .. l
  OBVIOUS
<1>2. /\ DOMAIN q[d] = 1 .. l + 1
      /\ q[d][l + 1] = f
      /\ \A a \in 1 .. l : q[d][a] = r[d][a]
  <2>1. q[d] = Append(r[d], f)
    BY <1>1
  <2>2. /\ Len(Append(r[d], f)) = l + 1
        /\ Append(r[d], f) \in Seq(T)
        /\ Append(r[d], f)[l + 1] = f
        /\ \A a \in 1 .. l : Append(r[d], f)[a] = r[d][a]
    BY <1>1, AppendProperties
  <2> HIDE DEF q, d
  <2> QED BY <1>1, <2>1, <2>2
<1>3. \A i \in 0 .. n : i # k => q[c[i]] = r[c[i]]
  OBVIOUS
<1> HIDE DEF q, l
<1>4. /\ Places(c, r, k) = 1 .. l
      /\ Places(c, q, k) = 1 .. l + 1
      /\ Ref(c, q, k, l + 1) = f
      /\ \A a \in 1 .. l : Ref(c, q, k, a) = Ref(c, r, k, a)
  BY <1>1, <1>2 DEF Places, Ref
<1>5. \A i \in 0 .. n : i # k =>
        /\ Places(c, q, i) = Places(c, r, i)
        /\ \A a : Ref(c, q, i, a) = Ref(c, r, i, a)
  BY <1>3 DEF Places, Ref
<1>6. ASSUME NEW i \in 0 .. n, NEW a \in Places(c, q, i)
      PROVE  \/ a \in Places(c, r, i) /\ Ref(c, q, i, a) = Ref(c, r, i, a)
             \/ i = k /\ a = l + 1 /\ Ref(c, q, i, a) = f
  <2>1. CASE i = k
    <3>1. a \in 1 .. l \/ a = l + 1
      BY <1>1, <1>4, <2>1
    <3> QED BY <1>4, <2>1, <3>1
  <2>2. CASE i # k
    BY <1>5, <2>2
  <2> QED BY <2>1, <2>2
<1>7. ASSUME NEW i \in 0 .. n, NEW a \in Places(c, r, i)
      PROVE  /\ a \in Places(c, q, i)
             /\ Ref(c, q, i, a) = Ref(c, r, i, a)
             /\ Ref(c, r, i, a) # f
  <2>1. Ref(c, r, i, a) \in L
    BY DEF Filed, OnlyListed
  <2>2. CASE i = k
    <3>1. a \in 1 .. l /\ a \in 1 .. l + 1
      BY <1>1, <1>4, <2>2
    <3> QED BY <1>4, <2>1, <2>2, <3>1
  <2>3. CASE i # k
    BY <1>5, <2>1, <2>3
  <2> QED BY <2>2, <2>3
<1>8. OnlyListed(n, c, q, L \cup {f})
  BY <1>6 DEF Filed, OnlyListed
<1>9. AllListed(n, c, q, L \cup {f})
  <2>1. l + 1 \in Places(c, q, k)
    BY <1>1, <1>4
  <2> QED BY <1>4, <1>7, <2>1 DEF Filed, AllListed
<1>10. ListedOnce(n, c, q)
  <2> SUFFICES ASSUME NEW i \in 0 .. n, NEW j \in 0 .. n,
                      NEW a \in Places(c, q, i), NEW b \in Places(c, q, j),
                      Ref(c, q, i, a) = Ref(c, q, j, b)
               PROVE  i = j /\ a = b
    BY DEF ListedOnce
  <2>1. CASE Ref(c, q, i, a) = f
    <3>1. i = k /\ a = l + 1
      BY <1>6, <1>7, <2>1
    <3>2. j = k /\ b = l + 1
      BY <1>6, <1>7, <2>1
    <3> QED BY <3>1, <3>2
  <2>2. CASE Ref(c, q, i, a) # f
    BY <1>6, <2>2 DEF Filed, ListedOnce
  <2> QED BY <2>1, <2>2
<1> QED BY <1>8, <1>9, <1>10 DEF Filed, q

(* The last reference of a block replaces the one to f.                    *)
LEMMA ReplacedAt ==
  ASSUME NEW T, NEW s \in Seq(T), NEW p \in 1 .. Len(s)
  PROVE  /\ Replaced(s, p) \in Seq(T)
         /\ Len(Replaced(s, p)) = Len(s) - 1
         /\ \A a \in 1 .. Len(s) - 1 :
              Replaced(s, p)[a] = IF a = p THEN s[Len(s)] ELSE s[a]
<1> DEFINE l == Len(s)
           x == [s EXCEPT ![p] = s[l]]
<1>1. l \in Nat /\ l >= 1 /\ l \in 1 .. l
  OBVIOUS
<1>2. s[l] \in T
  BY <1>1, ElementOfSeq
<1>3. \A a \in 1 .. l : x[a] = IF a = p THEN s[l] ELSE s[a]
  BY <1>2, ExceptSeq
<1>4. x \in Seq(T) /\ Len(x) = l
  BY <1>2, ExceptSeq
<1> HIDE DEF x
<1>5. \A a \in 1 .. l - 1 : x[a] \in T
  BY <1>1, <1>4, ElementOfSeq
<1>6. /\ SubSeq(x, 1, l - 1) \in Seq(T)
      /\ Len(SubSeq(x, 1, l - 1)) = l - 1
      /\ \A a \in 1 .. l - 1 : SubSeq(x, 1, l - 1)[a] = x[a]
  <2>1. l - 1 \in Int /\ 1 \in Int
    BY <1>1
  <2>2. /\ SubSeq(x, 1, l - 1) \in Seq(T)
        /\ Len(SubSeq(x, 1, l - 1)) = IF 1 <= l - 1 THEN (l - 1) - 1 + 1 ELSE 0
        /\ \A a \in 1 .. (l - 1) - 1 + 1 : SubSeq(x, 1, l - 1)[a] = x[1 + a - 1]
    BY <1>5, <2>1, SubSeqProperties
  <2> DEFINE y == SubSeq(x, 1, l - 1)
  <2> HIDE DEF y
  <2>3. Len(y) = l - 1
    <3> HIDE DEF l
    <3>1. (IF 1 <= l - 1 THEN (l - 1) - 1 + 1 ELSE 0) = l - 1
      BY <1>1
    <3>2. Len(y) = IF 1 <= l - 1 THEN (l - 1) - 1 + 1 ELSE 0
      BY <2>2, Zenon DEF y
    <3> QED BY <3>1, <3>2
  <2>4. ASSUME NEW a \in 1 .. l - 1 PROVE y[a] = x[a]
    <3>1. a \in 1 .. (l - 1) - 1 + 1 /\ 1 + a - 1 = a
      BY <1>1
    <3> QED BY <2>2, <3>1 DEF y
  <2> QED BY <2>2, <2>3, <2>4 DEF y
<1>7. Replaced(s, p) = SubSeq(x, 1, l - 1)
  BY DEF Replaced, x
<1> QED BY <1>1, <1>3, <1>6, <1>7

(* The references r with f added to block d, with block d cleared, and     *)
(* with f taken out of block d.                                            *)
Added(r, d, f) == [r EXCEPT ![d] = Append(@, f)]

Cleared(r, d) == [r EXCEPT ![d] = <<>>]

Cut(r, d, f) == [r EXCEPT ![d] = Replaced(@, Entry(@, f))]

LEMMA FiledRemoved ==
  ASSUME NEW n \in Nat, NEW c, NEW k \in 0 .. n,
         \A i, j \in 0 .. n : c[i] = c[j] => i = j,
         NEW T, \A i \in 0 .. n : c[i] \in T,
         NEW r \in [T -> Seq(T)], NEW L, Filed(n, c, r, L),
         NEW f, \E a \in DOMAIN r[c[k]] : r[c[k]][a] = f
  PROVE  /\ Cut(r, c[k], f) \in [T -> Seq(T)]
         /\ Len(Cut(r, c[k], f)[c[k]]) = Len(r[c[k]]) - 1
         /\ Filed(n, c, Cut(r, c[k], f), L \ {f})
<1> DEFINE d == c[k]
           s == r[d]
           l == Len(s)
           p == Entry(s, f)
           q == Cut(r, d, f)
           old(i, a) == IF i = k /\ a = p THEN l ELSE a
<1>1. d \in T /\ s \in Seq(T) /\ l \in Nat /\ DOMAIN s = 1 .. l
  OBVIOUS
<1>2. Places(c, r, k) = 1 .. l /\ \A a : Ref(c, r, k, a) = s[a]
  BY <1>1 DEF Places, Ref
<1>3. p \in 1 .. l /\ s[p] = f
  <2>1. PICK a \in 1 .. l : s[a] = f
    BY <1>1
  <2>2. \A j \in 1 .. l : s[j] = f => j = a
    <3>1. ASSUME NEW j \in 1 .. l, s[j] = f PROVE j = a
      <4>1. Ref(c, r, k, j) = Ref(c, r, k, a)
        BY <1>2, <2>1, <3>1
      <4> QED BY <1>2, <4>1 DEF Filed, ListedOnce
    <3> QED BY <3>1
  <2>3. \A j \in 1 .. a - 1 : s[j] # f
    BY <1>1, <2>1, <2>2
  <2>4. \E i \in DOMAIN s : s[i] = f /\ \A j \in 1 .. i - 1 : s[j] # f
    BY <1>1, <2>1, <2>3
  <2> HIDE DEF s
  <2> QED BY <1>1, <2>4 DEF Entry
<1> HIDE DEF p
<1>4. q[d] = Replaced(s, p)
  BY <1>1 DEF p, Cut
<1>5. /\ q[d] \in Seq(T) /\ Len(q[d]) = l - 1
      /\ \A a \in 1 .. l - 1 : q[d][a] = IF a = p THEN s[l] ELSE s[a]
  <2> HIDE DEF s, l, q
  <2>1. /\ Replaced(s, p) \in Seq(T) /\ Len(Replaced(s, p)) = l - 1
        /\ \A a \in 1 .. l - 1 : Replaced(s, p)[a] = IF a = p THEN s[l] ELSE s[a]
    BY <1>1, <1>3, ReplacedAt DEF l
  <2> QED BY <1>4, <2>1
<1>6. q \in [T -> Seq(T)]
  BY <1>1, <1>4, <1>5 DEF p, Cut
<1>7. \A i \in 0 .. n : i # k => q[c[i]] = r[c[i]]
  BY DEF Cut
<1> HIDE DEF q
<1>8. Places(c, q, k) = 1 .. l - 1
  BY <1>1, <1>5 DEF Places
<1>9. \A a \in 1 .. l - 1 : Ref(c, q, k, a) = Ref(c, r, k, old(k, a))
  BY <1>2, <1>5 DEF Ref
<1>10. \A i \in 0 .. n : i # k =>
         /\ Places(c, q, i) = Places(c, r, i)
         /\ \A a : Ref(c, q, i, a) = Ref(c, r, i, a)
  BY <1>7 DEF Places, Ref
<1> HIDE DEF s, l
<1>11. ASSUME NEW i \in 0 .. n, NEW a \in Places(c, q, i)
       PROVE  /\ old(i, a) \in Places(c, r, i)
              /\ Ref(c, q, i, a) = Ref(c, r, i, old(i, a))
              /\ ~(i = k /\ old(i, a) = p)
  <2>1. CASE i = k
    <3>1. a \in 1 .. l - 1
      BY <1>8, <2>1
    <3>2. old(i, a) \in 1 .. l /\ old(i, a) # p
      BY <1>1, <1>3, <2>1, <3>1
    <3> QED BY <1>2, <1>9, <2>1, <3>1, <3>2
  <2>2. CASE i # k
    BY <1>10, <2>2
  <2> QED BY <2>1, <2>2
<1>12. ASSUME NEW i \in 0 .. n, NEW b \in Places(c, r, i), ~(i = k /\ b = p)
       PROVE  \E a \in Places(c, q, i) : old(i, a) = b
  <2>1. CASE i = k /\ b = l
    <3>1. p \in 1 .. l - 1
      BY <1>1, <1>3, <1>12, <2>1
    <3> QED BY <1>8, <2>1, <3>1
  <2>2. CASE i = k /\ b # l
    <3>1. b \in 1 .. l - 1
      BY <1>1, <1>2, <2>2
    <3> QED BY <1>8, <1>12, <2>2, <3>1
  <2>3. CASE i # k
    BY <1>10, <2>3
  <2> QED BY <2>1, <2>2, <2>3
<1>13. ASSUME NEW i \in 0 .. n, NEW a \in Places(c, q, i), NEW b \in Places(c, q, i),
              old(i, a) = old(i, b)
       PROVE  a = b
  <2>1. CASE i = k
    <3>1. a \in 1 .. l - 1 /\ b \in 1 .. l - 1
      BY <1>8, <2>1
    <3> QED BY <1>1, <1>13, <2>1, <3>1
  <2>2. CASE i # k
    BY <1>13, <2>2
  <2> QED BY <2>1, <2>2
<1> HIDE DEF old
<1>14. Ref(c, r, k, p) = f /\ p \in Places(c, r, k)
  BY <1>2, <1>3
<1>15. OnlyListed(n, c, q, L \ {f})
  <2> SUFFICES ASSUME NEW i \in 0 .. n, NEW a \in Places(c, q, i)
               PROVE  Ref(c, q, i, a) \in L \ {f}
    BY DEF OnlyListed
  <2>1. Ref(c, q, i, a) \in L
    BY <1>11 DEF Filed, OnlyListed
  <2>2. /\ old(i, a) \in Places(c, r, i) /\ ~(i = k /\ old(i, a) = p)
        /\ Ref(c, q, i, a) = Ref(c, r, i, old(i, a))
    BY <1>11
  <2>3. Ref(c, r, i, old(i, a)) # f
    BY <1>14, <2>2 DEF Filed, ListedOnce
  <2> QED BY <2>1, <2>2, <2>3
<1>16. AllListed(n, c, q, L \ {f})
  <2> SUFFICES ASSUME NEW g \in L \ {f}
               PROVE  \E i \in 0 .. n : \E a \in Places(c, q, i) : Ref(c, q, i, a) = g
    BY DEF AllListed
  <2>1. PICK i \in 0 .. n : \E b \in Places(c, r, i) : Ref(c, r, i, b) = g
    BY DEF Filed, AllListed
  <2>2. PICK b \in Places(c, r, i) : Ref(c, r, i, b) = g
    BY <2>1
  <2>3. PICK a \in Places(c, q, i) : old(i, a) = b
    BY <1>12, <1>14, <2>2
  <2> QED BY <1>11, <2>2, <2>3
<1>17. ListedOnce(n, c, q)
  <2> SUFFICES ASSUME NEW i \in 0 .. n, NEW j \in 0 .. n,
                      NEW a \in Places(c, q, i), NEW b \in Places(c, q, j),
                      Ref(c, q, i, a) = Ref(c, q, j, b)
               PROVE  i = j /\ a = b
    BY DEF ListedOnce
  <2>1. /\ old(i, a) \in Places(c, r, i) /\ old(j, b) \in Places(c, r, j)
        /\ Ref(c, r, i, old(i, a)) = Ref(c, r, j, old(j, b))
    BY <1>11
  <2>2. i = j /\ old(i, a) = old(j, b)
    BY <2>1 DEF Filed, ListedOnce
  <2> QED BY <1>13, <2>2
<1> QED BY <1>5, <1>6, <1>15, <1>16, <1>17 DEF Filed, l, s, q

-----------------------------------------------------------------------------
(* What the operations do to the sectors.                                  *)
LEMMA Allocated ==
  ASSUME SectorInv, NEW s \in Sizes, fsAllocate(s), NEW h, h = result'
  PROVE  /\ SectorInv'
         /\ h \in Sector /\ h # 0 /\ h \notin Headers
         /\ Headers' = Headers \cup {h}
         /\ size'[h] = s /\ \A g \in Headers : size'[g] = size[g]
         /\ root' = root
<1>1. /\ SectorInv' /\ Headers' = Headers \cup {h} /\ h \notin Headers
  BY AllocateStep
<1>2. h # 0 /\ size' = [size EXCEPT ![h] = s] /\ root' = root
  BY DEF fsAllocate
<1>3. h \in Headers'
  BY <1>1
<1>4. h \in Sector
  BY <1>3 DEF Headers
<1>5. size \in [Sector -> Sizes \cup {0}]
  BY DEF SectorInv, TypeOK
<1>6. Headers \subseteq Sector
  BY DEF Headers
<1> QED BY <1>1, <1>2, <1>4, <1>5, <1>6

LEMMA Refused ==
  ASSUME SectorInv, NEW s \in Sizes, fsAllocateFails(s)
  PROVE  /\ SectorInv' /\ Headers' = Headers
         /\ size' = size /\ root' = root
<1>1. SectorInv'
  BY RefuseStep
<1> QED BY <1>1 DEF fsAllocateFails, Headers

LEMMA Deleted ==
  ASSUME SectorInv, NEW f \in Headers, fsFileDelete(f)
  PROVE  /\ SectorInv' /\ Headers' = Headers \ {f}
         /\ \A g \in Sector : g # f => size'[g] = size[g]
         /\ root' = root
<1>1. SectorInv' /\ Headers' = Headers \ {f}
  BY FreeStep DEF fsFileDelete
<1>2. size' = [size EXCEPT ![f] = 0] /\ root' = root
  BY DEF fsFileDelete, fsFree
<1>3. size \in [Sector -> Sizes \cup {0}]
  BY DEF SectorInv, TypeOK
<1> QED BY <1>1, <1>2, <1>3

(* A file and the extent that listed it are freed together.                *)
LEMMA BothFreed ==
  ASSUME SectorInv, NEW f \in Headers, NEW d \in Headers, f # d,
         marker' = [i \in Sector |-> IF i \in Block(d) THEN SECTOR_FREE ELSE Freed(f)[i]],
         size' = [size EXCEPT ![f] = 0, ![d] = 0],
         root' = root, result' = result
  PROVE  /\ SectorInv' /\ Headers' = Headers \ {f, d}
         /\ \A g \in Sector : g \notin {f, d} => size'[g] = size[g]
<1>1. /\ f \in Sector /\ f \in Block(f) /\ d \in Sector /\ d \in Block(d)
      /\ f # 0 /\ d # 0
  <2>1. /\ f \in Sector /\ DataSectors(size[f]) \in Nat /\ f # 0
        /\ d \in Sector /\ DataSectors(size[d]) \in Nat /\ d # 0
    BY BlockFacts
  <2>2. f \in Nat /\ d \in Nat
    BY <2>1 DEF Sector
  <2> QED BY <2>1, <2>2, RunFacts DEF Block
<1> DEFINE Gone == Block(f) \cup Block(d)
<1>2. \A i \in Sector : marker'[i] = IF i \in Gone THEN SECTOR_FREE ELSE marker[i]
  BY DEF Freed
<1>3. /\ size \in [Sector -> Sizes \cup {0}] /\ marker \in [Sector -> Marker]
      /\ root \in Sector /\ result \in Sector
  BY DEF SectorInv, TypeOK
<1>4. \A g \in Sector : g \notin {f, d} => size'[g] = size[g]
  BY <1>3
<1>5. \A g \in Headers : g \in Sector /\ marker[g] = SECTOR_HEADER
  BY DEF Headers
<1>6. \A i \in Block(f) : marker[i] = IF i = f THEN SECTOR_HEADER ELSE SECTOR_USED
  BY BlockFacts
<1>7. \A i \in Block(d) : marker[i] = IF i = d THEN SECTOR_HEADER ELSE SECTOR_USED
  BY BlockFacts
<1>8. ASSUME NEW g \in Headers, g \notin {f, d}
      PROVE  /\ Block(g)' = Block(g)
             /\ \A i \in Block(g) : i \notin Gone
  <2>1. Block(g)' = Block(g)
    BY <1>4, <1>5, <1>8 DEF Block
  <2>2. Block(g) \cap Block(f) = {} /\ Block(g) \cap Block(d) = {}
    BY <1>8, BlocksDisjoint
  <2> QED BY <2>1, <2>2
<1> HIDE DEF Gone
<1>9. f \in Gone /\ d \in Gone /\ \A i \in Gone : i \notin {f, d} => marker[i] = SECTOR_USED
  BY <1>1, <1>6, <1>7 DEF Gone
<1>10. Headers' = Headers \ {f, d}
  <2>1. ASSUME NEW g \in Sector
        PROVE  marker'[g] = SECTOR_HEADER <=> marker[g] = SECTOR_HEADER /\ g \notin {f, d}
    BY <1>2, <1>9, SectorsAssumption
  <2> QED BY <2>1 DEF Headers
<1>11. TypeOK'
  <2>1. marker' \in [Sector -> Marker]
    <3>1. \A i \in Sector : marker'[i] \in Marker
      BY <1>2, <1>3 DEF Marker
    <3> QED BY <3>1
  <2>2. size' \in [Sector -> Sizes \cup {0}]
    BY <1>3
  <2> QED BY <1>3, <2>1, <2>2 DEF TypeOK
<1>12. BlocksWhole'
  <2> SUFFICES ASSUME NEW g \in Headers',
                      NEW i \in g + 1 .. g + DataSectors(size'[g])
               PROVE  i \in Sector /\ marker'[i] = SECTOR_USED
    BY DEF BlocksWhole
  <2>1. g \in Headers /\ g \notin {f, d} /\ size'[g] = size[g]
    BY <1>4, <1>5, <1>10
  <2>2. g \in Nat /\ DataSectors(size[g]) \in Nat
    BY <2>1, BlockFacts DEF Sector
  <2>3. i \in Block(g)
    BY <2>1, <2>2, RunFacts DEF Block
  <2>4. i \in Sector /\ marker[i] = SECTOR_USED
    BY <2>1 DEF SectorInv, BlocksWhole
  <2> QED BY <1>2, <1>8, <2>1, <2>3, <2>4
<1>13. NoOrphans'
  <2> SUFFICES ASSUME NEW i \in Sector, marker'[i] = SECTOR_USED
               PROVE  \E g \in Headers' : i \in Block(g)'
    BY DEF NoOrphans
  <2>1. i \notin Gone /\ marker[i] = SECTOR_USED
    BY <1>2, SectorsAssumption
  <2>2. PICK g \in Headers : i \in Block(g)
    BY <2>1 DEF SectorInv, NoOrphans
  <2>3. g \notin {f, d}
    BY <2>1, <2>2 DEF Gone
  <2> QED BY <1>8, <1>10, <2>2, <2>3
<1>14. HeaderKept' /\ RootAgrees'
  <2>1. ASSUME NEW i \in Sector PROVE marker'[i] = DEVICE <=> i = 0
    <3>1. marker[i] = DEVICE <=> i = 0
      BY DEF SectorInv, HeaderKept
    <3>2. i \in Gone => marker[i] # DEVICE
      BY <1>1, <1>5, <1>9, SectorsAssumption
    <3> QED BY <1>2, <3>1, <3>2, SectorsAssumption
  <2> QED BY <2>1 DEF SectorInv, HeaderKept, RootAgrees, fsDeviceGetRootDirectory
<1> QED BY <1>4, <1>10, <1>11, <1>12, <1>13, <1>14 DEF SectorInv

-----------------------------------------------------------------------------
(* What the operations do to the links.                                    *)
LEMMA ChainKept ==
  ASSUME NEW n \in Nat, NEW c, IsChain(n, c), root' = root,
         \A i \in 0 .. n : /\ c[i] \in Headers' /\ size'[c[i]] = size[c[i]]
                           /\ next'[c[i]] = next[c[i]] /\ parent'[c[i]] = parent[c[i]]
  PROVE  IsChain(n, c)'
<1>1. 0 \in 0 .. n /\ n \in 0 .. n
  OBVIOUS
<1>2. \A i \in 0 .. n - 1 : i \in 0 .. n /\ i + 1 \in 0 .. n
  OBVIOUS
<1>3. c \in [0 .. n -> Headers']
  BY DEF IsChain
<1>4. next'[c[n]] = 0 /\ c[0] = root'
  BY <1>1 DEF IsChain
<1>5. \A i \in 0 .. n - 1 : next'[c[i]] = c[i + 1] /\ parent'[c[i + 1]] = c[i]
  BY <1>2 DEF IsChain
<1> QED BY <1>3, <1>4, <1>5 DEF IsChain

LEMMA ChainLonger ==
  ASSUME NEW n \in Nat, NEW c, IsChain(n, c), root' = root,
         NEW h \in Sector, h \notin Headers, Headers' = Headers \cup {h},
         size'[h] = DirSize, \A g \in Headers : size'[g] = size[g],
         next \in [Sector -> Sector], parent \in [Sector -> Sector],
         next' = [next EXCEPT ![c[n]] = h, ![h] = 0],
         parent' = [parent EXCEPT ![h] = c[n]]
  PROVE  IsChain(n + 1, Longer(n, c, h))'
<1> DEFINE e == Longer(n, c, h)
<1>1. /\ \A i \in 0 .. n : e[i] = c[i]
      /\ e[n + 1] = h
  BY LongerAt
<1>2. /\ e \in [0 .. n + 1 -> Headers']
      /\ \A i, j \in 0 .. n + 1 : e[i] = e[j] => i = j
  <2>1. Blocks(n, c, Headers)
    BY DEF IsChain, Blocks
  <2>2. Blocks(n + 1, e, Headers \cup {h})
    BY <2>1, LongerBlocks
  <2> QED BY <2>2 DEF Blocks
<1> HIDE DEF e
<1>3. \A i \in 0 .. n : c[i] \in Headers /\ c[i] \in Sector /\ c[i] # h
  BY DEF IsChain, Headers
<1>4. n \in 0 .. n /\ 0 \in 0 .. n
  OBVIOUS
<1>5. next'[h] = 0 /\ next'[c[n]] = h /\ parent'[h] = c[n]
  BY <1>3, <1>4
<1>6. ASSUME NEW i \in 0 .. n - 1
      PROVE  next'[c[i]] = c[i + 1] /\ parent'[c[i + 1]] = c[i]
  <2>1. i \in 0 .. n /\ i + 1 \in 0 .. n /\ i # n
    OBVIOUS
  <2>2. c[i] # c[n]
    BY <1>4, <2>1 DEF IsChain
  <2>3. next'[c[i]] = next[c[i]]
    BY <1>3, <2>1, <2>2
  <2>4. parent'[c[i + 1]] = parent[c[i + 1]]
    BY <1>3, <2>1
  <2> QED BY <2>3, <2>4 DEF IsChain
<1>7. ASSUME NEW i \in 0 .. n
      PROVE  next'[e[i]] = e[i + 1] /\ parent'[e[i + 1]] = e[i]
  <2>1. CASE i = n
    BY <1>1, <1>5, <2>1
  <2>2. CASE i # n
    <3>1. i \in 0 .. n - 1 /\ i + 1 \in 0 .. n
      BY <2>2
    <3> QED BY <1>1, <1>6, <3>1
  <2> QED BY <2>1, <2>2
<1>8. ASSUME NEW i \in 0 .. n + 1 PROVE size'[e[i]] = DirSize
  <2>1. CASE i = n + 1
    BY <1>1, <2>1
  <2>2. CASE i # n + 1
    <3>1. i \in 0 .. n
      BY <2>2
    <3> QED BY <1>1, <1>3, <3>1 DEF IsChain
  <2> QED BY <2>1, <2>2
<1>9. e[0] = root'
  BY <1>1, <1>4 DEF IsChain
<1>10. 0 .. n = 0 .. (n + 1) - 1
  OBVIOUS
<1>11. next'[e[n + 1]] = 0
  BY <1>1, <1>5
<1>12. IsChain(n + 1, e)'
  BY <1>2, <1>7, <1>8, <1>9, <1>10, <1>11 DEF IsChain
<1> QED BY <1>12 DEF e

LEMMA ChainShorter ==
  ASSUME NEW n \in Nat, NEW c, IsChain(n, c), root' = root, NEW k \in 1 .. n,
         SectorInv, NEW H, Headers' = H,
         \A i \in 0 .. n : i # k => c[i] \in H /\ size'[c[i]] = size[c[i]],
         next \in [Sector -> Sector], parent \in [Sector -> Sector],
         next' = [next EXCEPT ![parent[c[k]]] = next[c[k]]],
         parent' = [parent EXCEPT ![next[c[k]]] = parent[c[k]]]
  PROVE  IsChain(n - 1, Shorter(n, c, k))'
<1> DEFINE e == Shorter(n, c, k)
<1>1. \A i, j \in 0 .. n : c[i] = c[j] => i = j
  BY DEF IsChain
<1>2. n - 1 \in Nat /\ \A i \in 0 .. n - 1 : e[i] = IF i < k THEN c[i] ELSE c[i + 1]
  BY DEF Shorter
<1>3. \A i \in 0 .. n : c[i] \in Headers /\ c[i] \in Sector /\ c[i] # 0
  BY BlockFacts DEF IsChain
<1>4. /\ k - 1 \in 0 .. n - 1 /\ k - 1 \in 0 .. n /\ k \in 0 .. n
      /\ 0 \in 0 .. n /\ n \in 0 .. n
  OBVIOUS
<1>5. parent[c[k]] = c[k - 1]
  <2>1. parent[c[(k - 1) + 1]] = c[k - 1] /\ (k - 1) + 1 = k
    BY <1>4 DEF IsChain
  <2> QED BY <2>1
<1>6. /\ next'[c[k - 1]] = next[c[k]]
      /\ \A i \in 0 .. n : i # k - 1 => next'[c[i]] = next[c[i]]
  <2>1. c[k - 1] \in Sector /\ next' = [next EXCEPT ![c[k - 1]] = next[c[k]]]
    BY <1>3, <1>4, <1>5
  <2>2. \A i \in 0 .. n : i # k - 1 => c[i] # c[k - 1] /\ c[i] \in Sector
    BY <1>1, <1>3, <1>4
  <2> QED BY <2>1, <2>2
<1>7. next[c[k]] = IF k = n THEN 0 ELSE c[k + 1]
  BY <1>4 DEF IsChain
<1>8. /\ k # n => parent'[c[k + 1]] = c[k - 1]
      /\ \A i \in 0 .. n : i # k + 1 => parent'[c[i]] = parent[c[i]]
  <2>1. ASSUME k # n PROVE parent'[c[k + 1]] = c[k - 1]
    <3>1. k + 1 \in 0 .. n
      BY <2>1
    <3> QED BY <1>3, <1>5, <1>7, <2>1, <3>1
  <2>2. ASSUME NEW i \in 0 .. n, i # k + 1 PROVE parent'[c[i]] = parent[c[i]]
    <3>1. c[i] # next[c[k]]
      <4>1. CASE k = n
        BY <1>3, <1>7, <4>1
      <4>2. CASE k # n
        <5>1. k + 1 \in 0 .. n
          BY <4>2
        <5> QED BY <1>1, <1>7, <2>2, <4>2, <5>1
      <4> QED BY <4>1, <4>2
    <3> QED BY <1>3, <3>1
  <2> QED BY <2>1, <2>2
<1>9. /\ e \in [0 .. n - 1 -> Headers']
      /\ \A i, j \in 0 .. n - 1 : e[i] = e[j] => i = j
  <2>1. Blocks(n, c, Headers)
    BY DEF IsChain, Blocks
  <2>2. Blocks(n - 1, e, Headers \ {c[k]})
    BY <2>1, ShorterBlocks
  <2>3. \A i \in 0 .. n - 1 : e[i] \in H
    BY <1>2
  <2> QED BY <2>2, <2>3 DEF Blocks
<1> HIDE DEF e
<1>10. e[0] = root'
  BY <1>2 DEF IsChain
<1>11. next'[e[n - 1]] = 0
  <2>1. CASE k = n
    <3>1. e[n - 1] = c[k - 1]
      BY <1>2, <2>1
    <3> QED BY <1>6, <1>7, <2>1, <3>1
  <2>2. CASE k # n
    <3>1. n - 1 \in 0 .. n - 1 /\ ~(n - 1 < k) /\ (n - 1) + 1 = n /\ n # k - 1
      BY <2>2
    <3>2. e[n - 1] = c[n]
      BY <1>2, <3>1
    <3> QED BY <1>4, <1>6, <3>1, <3>2 DEF IsChain
  <2> QED BY <2>1, <2>2
<1>12. ASSUME NEW i \in 0 .. (n - 1) - 1
       PROVE  next'[e[i]] = e[i + 1] /\ parent'[e[i + 1]] = e[i]
  <2>1. i \in 0 .. n - 1 /\ i + 1 \in 0 .. n - 1 /\ i \in 0 .. n /\ i + 1 \in 0 .. n
    OBVIOUS
  <2>2. next[c[i]] = c[i + 1] /\ parent[c[i + 1]] = c[i]
    BY <2>1 DEF IsChain
  <2>3. CASE i + 1 < k
    <3>1. e[i] = c[i] /\ e[i + 1] = c[i + 1] /\ i # k - 1 /\ i + 1 # k + 1
      BY <1>2, <2>1, <2>3
    <3> QED BY <1>6, <1>8, <2>1, <2>2, <3>1
  <2>4. CASE i + 1 = k
    <3>1. e[i] = c[k - 1] /\ e[i + 1] = c[k + 1] /\ k # n
      BY <1>2, <2>1, <2>4
    <3> QED BY <1>6, <1>7, <1>8, <3>1
  <2>5. CASE i + 1 > k
    <3>1. e[i] = c[i + 1] /\ e[i + 1] = c[(i + 1) + 1]
      BY <1>2, <2>1, <2>5
    <3>2. i + 1 \in 0 .. n - 1 /\ (i + 1) + 1 \in 0 .. n
      BY <2>1
    <3>3. next[c[i + 1]] = c[(i + 1) + 1] /\ parent[c[(i + 1) + 1]] = c[i + 1]
      BY <3>2 DEF IsChain
    <3>4. i + 1 # k - 1 /\ (i + 1) + 1 # k + 1
      BY <2>5
    <3> QED BY <1>6, <1>8, <2>1, <3>1, <3>2, <3>3, <3>4
  <2> QED BY <2>3, <2>4, <2>5
<1>13. ASSUME NEW i \in 0 .. n - 1 PROVE size'[e[i]] = DirSize
  <2>1. PICK j \in 0 .. n : j # k /\ e[i] = c[j]
    BY <1>2
  <2> QED BY <2>1 DEF IsChain
<1>14. IsChain(n - 1, e)'
  BY <1>9, <1>10, <1>11, <1>12, <1>13 DEF IsChain
<1> QED BY <1>14 DEF e

-----------------------------------------------------------------------------
(* What the operations do to the account of the blocks.                    *)
LEMMA AccountedCreated ==
  ASSUME NEW n \in Nat, NEW c, Accounted(n, c), held = 0,
         NEW h, h # 0, h \notin Headers, Headers' = Headers \cup {h},
         held' = h, listed' = listed
  PROVE  Accounted(n, c)'
BY DEF Accounted

LEMMA AccountedAdded ==
  ASSUME NEW n \in Nat, NEW c, Accounted(n, c), held # 0,
         Headers' = Headers, held' = 0, listed' = listed \cup {held},
         ~InChain(n, c, 0), 0 \notin listed
  PROVE  Accounted(n, c)'
BY DEF Accounted

(* A file is added with the extent h it needs.                             *)
LEMMA AccountedLonger ==
  ASSUME NEW n \in Nat, NEW c, Accounted(n, c), held # 0,
         NEW h, h # 0, h \notin Headers, Headers' = Headers \cup {h},
         held' = 0, listed' = listed \cup {held},
         ~InChain(n, c, 0), 0 \notin listed
  PROVE  Accounted(n + 1, Longer(n, c, h))'
<1>1. \A g : InChain(n + 1, Longer(n, c, h), g) <=> InChain(n, c, g) \/ g = h
  BY LongerAt
<1> QED BY <1>1 DEF Accounted

LEMMA AccountedRemoved ==
  ASSUME NEW n \in Nat, NEW c, Accounted(n, c), NEW f \in listed,
         Headers' = Headers \ {f}, held' = held, listed' = listed \ {f}
  PROVE  Accounted(n, c)'
BY DEF Accounted

LEMMA AccountedShorter ==
  ASSUME NEW n \in Nat, NEW c, Accounted(n, c), NEW k \in 1 .. n,
         \A i, j \in 0 .. n : c[i] = c[j] => i = j,
         NEW f \in listed, NEW d, d = c[k],
         Headers' = Headers \ {f, d}, held' = held, listed' = listed \ {f}
  PROVE  Accounted(n - 1, Shorter(n, c, k))'
<1>1. \A g : InChain(n - 1, Shorter(n, c, k), g) <=> InChain(n, c, g) /\ g # d
  BY ShorterAt
<1>2. InChain(n, c, d)
  BY DEF InChain
<1> QED BY <1>1, <1>2 DEF Accounted

-----------------------------------------------------------------------------
(* The invariant, step by step.                                            *)
LEMMA Updated ==
  ASSUME NEW S, NEW T, NEW f \in [S -> T], NEW x, NEW v \in T
  PROVE  /\ [f EXCEPT ![x] = v] \in [S -> T]
         /\ \A y \in S : y # x => [f EXCEPT ![x] = v][y] = f[y]
OBVIOUS

LEMMA DirectoryFacts ==
  ASSUME DirectoryInv, NEW n \in Nat, NEW c, Directory(n, c)
  PROVE  /\ SectorInv /\ IsChain(n, c) /\ Accounted(n, c)
         /\ \A i \in 0 .. n : /\ c[i] \in Headers /\ c[i] \in Sector /\ c[i] # 0
                              /\ c[i] \notin listed /\ c[i] # held
         /\ \A i, j \in 0 .. n : c[i] = c[j] => i = j
         /\ ~InChain(n, c, 0)
         /\ listed \subseteq Headers /\ listed \subseteq Sector /\ 0 \notin listed
         /\ held \in Sector /\ held \notin listed
         /\ refs \in [Sector -> Seq(Sector)]
         /\ next \in [Sector -> Sector] /\ parent \in [Sector -> Sector]
         /\ formatted \in BOOLEAN /\ root \in Sector /\ root = c[0]
<1>1. SectorInv /\ IsChain(n, c) /\ Accounted(n, c)
  BY DEF DirectoryInv, Directory
<1>2. \A g \in Headers : g \in Sector /\ g # 0
  BY <1>1, BlockFacts
<1>3. ASSUME NEW i \in 0 .. n
      PROVE  /\ c[i] \in Headers /\ c[i] \in Sector /\ c[i] # 0
             /\ c[i] \notin listed /\ c[i] # held
  <2>1. c[i] \in Headers
    BY <1>1 DEF IsChain
  <2>2. InChain(n, c, c[i])
    BY DEF InChain
  <2> QED BY <1>1, <1>2, <2>1, <2>2 DEF Accounted
<1>4. \A i, j \in 0 .. n : c[i] = c[j] => i = j
  BY <1>1 DEF IsChain
<1>5. ~InChain(n, c, 0)
  BY <1>3 DEF InChain
<1>6. listed \subseteq Headers /\ held \notin listed
  BY <1>1 DEF Accounted
<1>7. /\ held \in Sector /\ refs \in [Sector -> Seq(Sector)]
      /\ next \in [Sector -> Sector] /\ parent \in [Sector -> Sector]
      /\ formatted \in BOOLEAN /\ root \in Sector /\ listed \subseteq Sector
  BY DEF DirectoryInv, DirectoryTypeOK, TypeOK
<1>8. root = c[0]
  BY <1>1 DEF IsChain
<1> QED BY <1>1, <1>2, <1>3, <1>4, <1>5, <1>6, <1>7, <1>8

LEMMA Kept ==
  ASSUME NEW n \in Nat, NEW c,
         SectorInv', IsChain(n, c)', Accounted(n, c)',
         formatted' => Filed(n, c, refs', listed'),
         refs' \in [Sector -> Seq(Sector)],
         next' \in [Sector -> Sector], parent' \in [Sector -> Sector],
         formatted' \in BOOLEAN, held' \in Sector, listed' \subseteq Sector
  PROVE  DirectoryInv'
<1>1. Directory(n, c)'
  BY DEF Directory
<1>2. DirectoryTypeOK'
  BY DEF DirectoryTypeOK, SectorInv
<1> QED BY <1>1, <1>2 DEF DirectoryInv

(* A root directory without references on a device just formatted.         *)
EmptyDirectory ==
  /\ refs \in [Sector -> Seq(Sector)]
  /\ next \in [Sector -> Sector] /\ parent \in [Sector -> Sector]
  /\ refs[root] = <<>> /\ next[root] = 0
  /\ formatted = TRUE /\ held = 0 /\ listed = {}

LEMMA FreshDirectory == Init /\ EmptyDirectory => DirectoryInv
<1> SUFFICES ASSUME Init, EmptyDirectory PROVE DirectoryInv
  OBVIOUS
<1> DEFINE c == [i \in 0 .. 0 |-> root]
<1>1. SectorInv /\ Headers = {1}
  BY FormatInv DEF Init
<1>2. /\ refs \in [Sector -> Seq(Sector)]
      /\ next \in [Sector -> Sector] /\ parent \in [Sector -> Sector]
      /\ refs[root] = <<>> /\ next[root] = 0
      /\ formatted = TRUE /\ held = 0 /\ listed = {}
  BY DEF EmptyDirectory
<1>3. root = 1 /\ root \in Sector /\ 0 \in Sector /\ size[root] = DirSize
  <2>1. /\ root = FormatRoot
        /\ size = [i \in Sector |-> IF i = FormatRoot THEN DirSize ELSE 0]
    BY DEF Init
  <2>2. root \in Sector
    BY <1>1 DEF SectorInv, TypeOK
  <2>3. 0 \in Sector
    BY ZeroSector
  <2> QED BY <2>1, <2>2, <2>3, RootIsFirst
<1>4. DirectoryTypeOK
  BY <1>1, <1>2, <1>3 DEF DirectoryTypeOK, SectorInv
<1>5. 0 .. 0 = {0} /\ 0 .. 0 - 1 = {}
  OBVIOUS
<1>6. c[0] = root /\ c \in [0 .. 0 -> Headers]
  BY <1>1, <1>3
<1> HIDE DEF c
<1>7. IsChain(0, c)
  BY <1>2, <1>3, <1>5, <1>6 DEF IsChain
<1>8. \A h : InChain(0, c, h) <=> h = root
  BY <1>5, <1>6 DEF InChain
<1>9. Accounted(0, c)
  BY <1>1, <1>2, <1>3, <1>8 DEF Accounted
<1>10. Filed(0, c, refs, listed)
  <2>1. \A i \in 0 .. 0 : Places(c, refs, i) = {}
    BY <1>2, <1>3, <1>5, <1>6 DEF Places
  <2>2. OnlyListed(0, c, refs, listed)
    BY <2>1 DEF OnlyListed
  <2>3. AllListed(0, c, refs, listed)
    BY <1>2 DEF AllListed
  <2>4. ListedOnce(0, c, refs)
    BY <2>1 DEF ListedOnce
  <2> QED BY <2>2, <2>3, <2>4 DEF Filed
<1>11. Directory(0, c)
  BY <1>7, <1>9, <1>10 DEF Directory
<1> QED BY <1>1, <1>4, <1>11 DEF DirectoryInv

LEMMA InitDirectory == DirectoryInit => DirectoryInv
<1> SUFFICES ASSUME DirectoryInit PROVE DirectoryInv
  OBVIOUS
<1>1. Init /\ 0 \in Sector /\ <<>> \in Seq(Sector)
  BY ZeroSector DEF DirectoryInit
<1>2. root \in Sector
  BY <1>1, FormatInv DEF Init, SectorInv, TypeOK
<1>3. EmptyDirectory
  BY <1>1, <1>2 DEF DirectoryInit, EmptyDirectory
<1> QED BY <1>1, <1>3, FreshDirectory

(* fsFileCreate and fsDirectoryCreate: neither touches the directory.      *)
LEMMA CreatedKept ==
  ASSUME DirectoryInv, NEW s \in Sizes, fsAllocate(s), held = 0, held' = result',
         fsFileSetNextAddress(result', 0), fsFileSetParentAddress(result', 0),
         refs' = refs \/ fsDirectorySetReferenceCount(result'),
         formatted' = formatted, listed' = listed
  PROVE  DirectoryInv'
<1>1. PICK n \in Nat : \E c : Directory(n, c)
  BY DEF DirectoryInv
<1>2. PICK c : Directory(n, c)
  BY <1>1
<1>3. /\ SectorInv /\ IsChain(n, c) /\ Accounted(n, c)
      /\ \A i \in 0 .. n : c[i] \in Headers /\ c[i] \in Sector
      /\ listed \subseteq Sector /\ refs \in [Sector -> Seq(Sector)]
      /\ next \in [Sector -> Sector] /\ parent \in [Sector -> Sector]
      /\ formatted \in BOOLEAN
  BY <1>2, DirectoryFacts
<1>4. PICK h : h = result'
  OBVIOUS
<1>5. /\ SectorInv'
      /\ h \in Sector /\ h # 0 /\ h \notin Headers
      /\ Headers' = Headers \cup {h}
      /\ \A g \in Headers : size'[g] = size[g]
      /\ root' = root
  BY <1>3, <1>4, Allocated
<1>6. /\ next' = [next EXCEPT ![h] = 0] /\ parent' = [parent EXCEPT ![h] = 0]
      /\ refs' = refs \/ refs' = [refs EXCEPT ![h] = <<>>]
  BY <1>4 DEF fsFileSetNextAddress, fsFileSetParentAddress, fsDirectorySetReferenceCount
<1>7. 0 \in Sector /\ <<>> \in Seq(Sector)
  BY ZeroSector
<1>8. /\ next' \in [Sector -> Sector] /\ parent' \in [Sector -> Sector]
      /\ refs' \in [Sector -> Seq(Sector)]
  BY <1>3, <1>6, <1>7, Updated
<1>9. \A g \in Sector : g # h => /\ next'[g] = next[g] /\ parent'[g] = parent[g]
                                 /\ refs'[g] = refs[g]
  BY <1>3, <1>6, <1>7, Updated
<1>10. IsChain(n, c)'
  BY <1>3, <1>5, <1>9, ChainKept
<1>11. Accounted(n, c)'
  BY <1>3, <1>4, <1>5, AccountedCreated
<1>12. ASSUME formatted' PROVE Filed(n, c, refs', listed')
  <2>1. \A i \in 0 .. n : refs'[c[i]] = refs[c[i]]
    BY <1>3, <1>5, <1>9
  <2>2. Filed(n, c, refs, listed)
    BY <1>2, <1>12 DEF Directory
  <2> QED BY <2>1, <2>2, FiledSame
<1> QED BY <1>3, <1>4, <1>5, <1>8, <1>10, <1>11, <1>12, Kept

(* A refused allocation that leaves the caller's side alone.               *)
LEMMA RefusedKept ==
  ASSUME DirectoryInv, NEW s \in Sizes, fsAllocateFails(s),
         linkVars' = linkVars, callerVars' = callerVars,
         formatted' = formatted \/ formatted' = FALSE
  PROVE  DirectoryInv'
<1>1. PICK n \in Nat : \E c : Directory(n, c)
  BY DEF DirectoryInv
<1>2. PICK c : Directory(n, c)
  BY <1>1
<1>3. /\ SectorInv /\ IsChain(n, c) /\ Accounted(n, c)
      /\ \A i \in 0 .. n : c[i] \in Headers
      /\ held \in Sector
      /\ listed \subseteq Sector /\ refs \in [Sector -> Seq(Sector)]
      /\ next \in [Sector -> Sector] /\ parent \in [Sector -> Sector]
      /\ formatted \in BOOLEAN
  BY <1>2, DirectoryFacts
<1>4. /\ SectorInv' /\ Headers' = Headers /\ size' = size /\ root' = root
  BY <1>3, Refused
<1>5. /\ refs' = refs /\ next' = next /\ parent' = parent
      /\ held' = held /\ listed' = listed
  BY DEF linkVars, callerVars
<1>6. IsChain(n, c)'
  BY <1>3, <1>4, <1>5, ChainKept
<1>7. Accounted(n, c)'
  BY <1>3, <1>4, <1>5 DEF Accounted
<1>8. formatted' => Filed(n, c, refs', listed')
  BY <1>2, <1>5 DEF Directory
<1> QED BY <1>3, <1>4, <1>5, <1>6, <1>7, <1>8, Kept

(* A reference is added to a block that the directory has.                 *)
LEMMA AddedKept ==
  ASSUME DirectoryInv, held # 0, Listed,
         NEW n \in Nat, NEW c, Directory(n, c), NEW k \in 0 .. n,
         SectorInv', Headers' = Headers, size' = size, root' = root,
         refs' = Added(refs, c[k], held),
         next' = next, parent' = parent,
         formatted' = formatted \/ formatted' = FALSE
  PROVE  DirectoryInv'
<1>1. /\ SectorInv /\ IsChain(n, c) /\ Accounted(n, c)
      /\ \A i \in 0 .. n : c[i] \in Headers /\ c[i] \in Sector
      /\ \A i, j \in 0 .. n : c[i] = c[j] => i = j
      /\ ~InChain(n, c, 0)
      /\ held \in Sector /\ held \notin listed /\ 0 \notin listed
      /\ listed \subseteq Sector /\ refs \in [Sector -> Seq(Sector)]
      /\ next \in [Sector -> Sector] /\ parent \in [Sector -> Sector]
      /\ formatted \in BOOLEAN
  BY DirectoryFacts
<1>2. held' = 0 /\ listed' = listed \cup {held}
  BY DEF Listed
<1>3. 0 \in Sector
  BY ZeroSector
<1>4. refs' \in [Sector -> Seq(Sector)]
  <2>1. refs[c[k]] \in Seq(Sector)
    BY <1>1
  <2>2. Append(refs[c[k]], held) \in Seq(Sector)
    BY <1>1, <2>1, AppendProperties
  <2>3. refs' = [refs EXCEPT ![c[k]] = Append(refs[c[k]], held)]
    BY DEF Added
  <2> QED BY <1>1, <2>2, <2>3, Updated
<1>5. IsChain(n, c)'
  BY <1>1, ChainKept
<1>6. Accounted(n, c)'
  BY <1>1, <1>2, AccountedAdded
<1>7. ASSUME formatted' PROVE Filed(n, c, refs', listed')
  <2>1. Filed(n, c, refs, listed)
    BY <1>7 DEF Directory
  <2>2. Filed(n, c, Added(refs, c[k], held), listed \cup {held})
    BY <1>1, <2>1, FiledAppended DEF Added
  <2> QED BY <1>2, <2>2
<1> QED BY <1>1, <1>2, <1>3, <1>4, <1>5, <1>6, <1>7, Kept

(* An extent is linked after the last block, and the reference is added to *)
(* it or to that block.                                                    *)
LEMMA LinkedKept ==
  ASSUME DirectoryInv, held # 0, Listed, fsAllocate(DirSize),
         NEW n \in Nat, NEW c, Directory(n, c), fsDirectoryExtentCreate(c[n]),
         NEW h, h = result', NEW k \in 0 .. n + 1,
         refs' = Added(Cleared(refs, h), Longer(n, c, h)[k], held),
         formatted' = formatted
  PROVE  DirectoryInv'
<1> DEFINE e == Longer(n, c, h)
           r == Cleared(refs, h)
           q == Added(r, e[k], held)
<1>1. /\ SectorInv /\ IsChain(n, c) /\ Accounted(n, c)
      /\ \A i \in 0 .. n : c[i] \in Headers /\ c[i] \in Sector
      /\ \A i, j \in 0 .. n : c[i] = c[j] => i = j
      /\ ~InChain(n, c, 0)
      /\ held \in Sector /\ held \notin listed /\ 0 \notin listed
      /\ listed \subseteq Sector /\ refs \in [Sector -> Seq(Sector)]
      /\ next \in [Sector -> Sector] /\ parent \in [Sector -> Sector]
      /\ formatted \in BOOLEAN
  BY DirectoryFacts
<1>2. held' = 0 /\ listed' = listed \cup {held}
  BY DEF Listed
<1>3. 0 \in Sector /\ <<>> \in Seq(Sector)
  BY ZeroSector
<1>4. /\ SectorInv'
      /\ h \in Sector /\ h # 0 /\ h \notin Headers
      /\ Headers' = Headers \cup {h}
      /\ size'[h] = DirSize /\ \A g \in Headers : size'[g] = size[g]
      /\ root' = root
  BY <1>1, Allocated, SectorsAssumption
<1>5. /\ next' = [next EXCEPT ![c[n]] = h, ![h] = 0]
      /\ parent' = [parent EXCEPT ![h] = c[n]]
  BY DEF fsDirectoryExtentCreate, fsFileSetParentAddress
<1>6. c[n] \in Sector
  BY <1>1
<1>7. next' \in [Sector -> Sector] /\ parent' \in [Sector -> Sector]
  BY <1>1, <1>3, <1>4, <1>5, <1>6
<1>8. IsChain(n + 1, e)'
  BY <1>1, <1>4, <1>5, ChainLonger
<1>9. Accounted(n + 1, e)'
  BY <1>1, <1>2, <1>4, AccountedLonger
<1>10. /\ \A i \in 0 .. n + 1 : e[i] \in Sector
       /\ \A i, j \in 0 .. n + 1 : e[i] = e[j] => i = j
  <2>1. e \in [0 .. n + 1 -> Headers'] /\ \A i, j \in 0 .. n + 1 : e[i] = e[j] => i = j
    BY <1>8 DEF IsChain
  <2>2. \A i \in 0 .. n + 1 : e[i] \in Headers'
    BY <2>1
  <2>3. Headers' \subseteq Sector
    BY DEF Headers
  <2> QED BY <2>1, <2>2, <2>3
<1>11. /\ r \in [Sector -> Seq(Sector)] /\ r[h] = <<>>
       /\ \A g \in Sector : g # h => r[g] = refs[g]
  <2>1. r \in [Sector -> Seq(Sector)] /\ \A g \in Sector : g # h => r[g] = refs[g]
    BY <1>1, <1>3, Updated DEF Cleared
  <2>2. r[h] = <<>>
    BY <1>1, <1>4 DEF Cleared
  <2> QED BY <2>1, <2>2
<1> HIDE DEF e, r
<1>12. q \in [Sector -> Seq(Sector)]
  <2>1. r[e[k]] \in Seq(Sector)
    BY <1>10, <1>11
  <2>2. Append(r[e[k]], held) \in Seq(Sector)
    BY <1>1, <2>1, AppendProperties
  <2>3. q = [r EXCEPT ![e[k]] = Append(r[e[k]], held)]
    BY DEF Added
  <2> QED BY <1>11, <2>2, <2>3, Updated
<1>13. ASSUME formatted' PROVE Filed(n + 1, e, q, listed \cup {held})
  <2>1. Filed(n, c, refs, listed)
    BY <1>13 DEF Directory
  <2>2. \A i \in 0 .. n : r[c[i]] = refs[c[i]]
    BY <1>1, <1>4, <1>11
  <2>3. Filed(n, c, r, listed)
    BY <2>1, <2>2, FiledSame
  <2>4. Filed(n + 1, e, r, listed)
    BY <1>11, <2>3, FiledLonger DEF e
  <2>5. n + 1 \in Nat
    OBVIOUS
  <2> QED BY <1>1, <1>10, <1>11, <2>4, <2>5, FiledAppended DEF Added
<1>14. refs' = q /\ n + 1 \in Nat
  BY DEF e, r
<1>15. formatted' => Filed(n + 1, e, refs', listed')
  <2> HIDE DEF q
  <2> QED BY <1>2, <1>13, <1>14
<1>16. refs' \in [Sector -> Seq(Sector)]
  <2> HIDE DEF q
  <2> QED BY <1>12, <1>14
<1>17. held' \in Sector /\ listed' \subseteq Sector
  BY <1>1, <1>2, <1>3
<1> QED BY <1>1, <1>4, <1>7, <1>8, <1>9, <1>14, <1>15, <1>16, <1>17, Kept

(* The extent that cannot be had takes the first reference with it.        *)
LEMMA LostKept ==
  ASSUME DirectoryInv, held # 0, Listed, fsAllocateFails(DirSize),
         linkVars' = linkVars, formatted' = FALSE
  PROVE  DirectoryInv'
<1>1. PICK n \in Nat : \E c : Directory(n, c)
  BY DEF DirectoryInv
<1>2. PICK c : Directory(n, c)
  BY <1>1
<1>3. /\ SectorInv /\ IsChain(n, c) /\ Accounted(n, c)
      /\ \A i \in 0 .. n : c[i] \in Headers
      /\ ~InChain(n, c, 0)
      /\ held \in Sector /\ 0 \notin listed
      /\ listed \subseteq Sector /\ refs \in [Sector -> Seq(Sector)]
      /\ next \in [Sector -> Sector] /\ parent \in [Sector -> Sector]
  BY <1>2, DirectoryFacts
<1>4. /\ SectorInv' /\ Headers' = Headers /\ size' = size /\ root' = root
  BY <1>3, Refused, SectorsAssumption
<1>5. /\ refs' = refs /\ next' = next /\ parent' = parent
      /\ held' = 0 /\ listed' = listed \cup {held}
  BY DEF linkVars, Listed
<1>6. IsChain(n, c)'
  BY <1>3, <1>4, <1>5, ChainKept
<1>7. Accounted(n, c)'
  BY <1>3, <1>4, <1>5, AccountedAdded
<1> QED BY <1>3, <1>4, <1>5, <1>6, <1>7, ZeroSector, Kept

(* The block that holds a reference is one of the chain.                   *)
LEMMA HoldsInChain ==
  ASSUME SectorInv, NEW n \in Nat, NEW c, IsChain(n, c),
         NEW k \in 0 .. MaxHops, NEW f, FoundIn(k, f)
  PROVE  /\ k \in 0 .. n /\ Hop[k] = c[k]
         /\ \E a \in DOMAIN refs[c[k]] : refs[c[k]][a] = f
<1>1. Hop[k] # 0 /\ \E a \in DOMAIN refs[Hop[k]] : refs[Hop[k]][a] = f
  BY DEF FoundIn, Holds
<1>2. Hop[k] = IF k <= n THEN c[k] ELSE 0
  BY HopOfChain
<1>3. k \in 0 .. n /\ Hop[k] = c[k]
  BY <1>1, <1>2, MaxHopsType
<1> QED BY <1>1, <1>3

LEMMA RemoveEntryKept ==
  ASSUME DirectoryInv, NEW k \in 0 .. MaxHops, NEW f \in listed, RemoveEntry(k, f)
  PROVE  DirectoryInv'
<1>1. PICK n \in Nat : \E c : Directory(n, c)
  BY DEF DirectoryInv
<1>2. PICK c : Directory(n, c)
  BY <1>1
<1>3. /\ SectorInv /\ IsChain(n, c) /\ Accounted(n, c)
      /\ \A i \in 0 .. n : c[i] \in Headers /\ c[i] \in Sector /\ c[i] \notin listed
      /\ \A i, j \in 0 .. n : c[i] = c[j] => i = j
      /\ held \in Sector /\ listed \subseteq Headers
      /\ listed \subseteq Sector /\ refs \in [Sector -> Seq(Sector)]
      /\ next \in [Sector -> Sector] /\ parent \in [Sector -> Sector]
      /\ formatted \in BOOLEAN
  BY <1>2, DirectoryFacts
<1>4. /\ formatted /\ FoundIn(k, f) /\ fsFileDelete(f)
      /\ refs' = Cut(refs, Hop[k], f) /\ listed' = listed \ {f}
      /\ next' = next /\ parent' = parent /\ formatted' = formatted /\ held' = held
  BY DEF RemoveEntry, Usable, fsDeviceOpen, Removed, Cut
<1>5. /\ k \in 0 .. n /\ Hop[k] = c[k]
      /\ \E a \in DOMAIN refs[c[k]] : refs[c[k]][a] = f
  BY <1>3, <1>4, HoldsInChain
<1>6. /\ SectorInv' /\ Headers' = Headers \ {f}
      /\ \A g \in Sector : g # f => size'[g] = size[g]
      /\ root' = root
  BY <1>3, <1>4, Deleted
<1>7. IsChain(n, c)'
  BY <1>3, <1>4, <1>6, ChainKept
<1>8. Accounted(n, c)'
  BY <1>3, <1>4, <1>6, AccountedRemoved
<1>9. /\ Cut(refs, c[k], f) \in [Sector -> Seq(Sector)]
      /\ Filed(n, c, Cut(refs, c[k], f), listed \ {f})
  <2>1. Filed(n, c, refs, listed)
    BY <1>2, <1>4 DEF Directory
  <2> QED BY <1>3, <1>5, <2>1, FiledRemoved
<1>10. refs' = Cut(refs, c[k], f)
  BY <1>4, <1>5
<1> QED BY <1>3, <1>4, <1>6, <1>7, <1>8, <1>9, <1>10, Kept

LEMMA RemoveExtentKept ==
  ASSUME DirectoryInv, NEW k \in 0 .. MaxHops, NEW f \in listed, RemoveExtent(k, f)
  PROVE  DirectoryInv'
<1>1. PICK n \in Nat : \E c : Directory(n, c)
  BY DEF DirectoryInv
<1>2. PICK c : Directory(n, c)
  BY <1>1
<1>3. /\ SectorInv /\ IsChain(n, c) /\ Accounted(n, c)
      /\ \A i \in 0 .. n : c[i] \in Headers /\ c[i] \in Sector /\ c[i] \notin listed
      /\ \A i, j \in 0 .. n : c[i] = c[j] => i = j
      /\ held \in Sector /\ listed \subseteq Headers
      /\ listed \subseteq Sector /\ refs \in [Sector -> Seq(Sector)]
      /\ next \in [Sector -> Sector] /\ parent \in [Sector -> Sector]
      /\ formatted \in BOOLEAN
  BY <1>2, DirectoryFacts
<1> DEFINE d == Hop[k]
<1>4. /\ formatted /\ FoundIn(k, f) /\ k > 0 /\ Len(refs[d]) <= 1
      /\ marker' = [i \in Sector |-> IF i \in Block(d) THEN SECTOR_FREE ELSE Freed(f)[i]]
      /\ size' = [size EXCEPT ![f] = 0, ![d] = 0]
      /\ refs' = Cut(refs, d, f) /\ listed' = listed \ {f}
      /\ next' = [next EXCEPT ![parent[d]] = next[d]]
      /\ parent' = [parent EXCEPT ![next[d]] = parent[d]]
      /\ root' = root /\ result' = result /\ formatted' = formatted /\ held' = held
  BY DEF RemoveExtent, Usable, fsDeviceOpen, Removed, Cut, fsFileGetNextAddress,
         fsDirectoryGetReferenceCount, fsFileGetParentAddress,
         fsFileSetNextAddress, fsFileSetParentAddress
<1>5. /\ k \in 0 .. n /\ d = c[k]
      /\ \E a \in DOMAIN refs[c[k]] : refs[c[k]][a] = f
  BY <1>3, <1>4, HoldsInChain
<1>6. k \in 1 .. n /\ d \in Headers /\ d \in Sector /\ f # d /\ f \in Headers
  BY <1>3, <1>4, <1>5
<1> HIDE DEF d
<1>7. /\ SectorInv' /\ Headers' = Headers \ {f, d}
      /\ \A g \in Sector : g \notin {f, d} => size'[g] = size[g]
  BY <1>3, <1>4, <1>6, BothFreed
<1>8. \A i \in 0 .. n : i # k => c[i] \notin {f, d}
  BY <1>3, <1>5
<1>9. IsChain(n - 1, Shorter(n, c, k))'
  <2>1. \A i \in 0 .. n : i # k => c[i] \in Headers \ {f, d} /\ size'[c[i]] = size[c[i]]
    BY <1>3, <1>7, <1>8
  <2>2. /\ next' = [next EXCEPT ![parent[c[k]]] = next[c[k]]]
        /\ parent' = [parent EXCEPT ![next[c[k]]] = parent[c[k]]]
    BY <1>4, <1>5
  <2> QED BY <1>3, <1>4, <1>6, <1>7, <2>1, <2>2, ChainShorter
<1>10. Accounted(n - 1, Shorter(n, c, k))'
  BY <1>3, <1>4, <1>5, <1>6, <1>7, AccountedShorter
<1> DEFINE q == Cut(refs, c[k], f)
<1>11. /\ q \in [Sector -> Seq(Sector)]
       /\ Len(q[c[k]]) = Len(refs[c[k]]) - 1
       /\ Filed(n, c, q, listed \ {f})
  <2>1. Filed(n, c, refs, listed)
    BY <1>2, <1>4 DEF Directory
  <2> QED BY <1>3, <1>5, <2>1, FiledRemoved
<1>12. refs' = q
  BY <1>4, <1>5
<1> HIDE DEF q
<1>13. q[c[k]] = <<>>
  <2>1. refs[c[k]] \in Seq(Sector) /\ q[c[k]] \in Seq(Sector)
    BY <1>3, <1>5, <1>6, <1>11
  <2>2. Len(refs[c[k]]) <= 1
    BY <1>4, <1>5
  <2>3. Len(refs[c[k]]) \in Nat /\ Len(q[c[k]]) \in Nat
    BY <2>1
  <2>4. Len(q[c[k]]) = 0
    <3> DEFINE x == Len(refs[c[k]])
               y == Len(q[c[k]])
    <3>1. x \in Nat /\ y \in Nat /\ x <= 1 /\ y = x - 1
      BY <1>11, <2>2, <2>3
    <3> HIDE DEF x, y
    <3>2. y = 0
      BY <3>1
    <3> QED BY <3>2 DEF y
  <2> QED BY <2>1, <2>4, EmptySeq
<1>14. Filed(n - 1, Shorter(n, c, k), q, listed \ {f})
  BY <1>3, <1>6, <1>11, <1>13, FiledShorter
<1>15. next' \in [Sector -> Sector] /\ parent' \in [Sector -> Sector]
  BY <1>3, <1>4, <1>6
<1>16. n - 1 \in Nat
  BY <1>6
<1>17. /\ refs' \in [Sector -> Seq(Sector)]
       /\ formatted' => Filed(n - 1, Shorter(n, c, k), refs', listed')
  BY <1>4, <1>11, <1>12, <1>14
<1>18. formatted' \in BOOLEAN /\ held' \in Sector /\ listed' \subseteq Sector
  BY <1>3, <1>4
<1> QED BY <1>7, <1>9, <1>10, <1>15, <1>16, <1>17, <1>18, Kept

LEMMA AddFileKept ==
  ASSUME DirectoryInv, AddFile
  PROVE  DirectoryInv'
<1>1. PICK n \in Nat : \E c : Directory(n, c)
  BY DEF DirectoryInv
<1>2. PICK c : Directory(n, c)
  BY <1>1
<1>3. /\ SectorInv /\ IsChain(n, c) /\ root = c[0]
      /\ \A i \in 0 .. n : c[i] \in Headers /\ c[i] \in Sector /\ c[i] # 0
      /\ refs \in [Sector -> Seq(Sector)]
  BY <1>2, DirectoryFacts
<1>4. DirSize \in Sizes
  BY SectorsAssumption
<1>5. ASSUME sectorVars' = sectorVars
      PROVE  SectorInv' /\ Headers' = Headers /\ size' = size /\ root' = root
  BY <1>3, <1>5 DEF sectorVars, SectorInv, TypeOK, BlocksWhole, NoOrphans, HeaderKept,
     RootAgrees, Headers, Block, fsDeviceGetRootDirectory
<1>6. CASE AddToDirectory
  <2>1. 0 \in 0 .. n /\ refs' = Added(refs, c[0], held)
    BY <1>3, <1>6 DEF AddToDirectory, Added
  <2>2. /\ held # 0 /\ Listed /\ next' = next /\ parent' = parent
        /\ formatted' = formatted /\ sectorVars' = sectorVars
    BY <1>6 DEF AddToDirectory
  <2> QED BY <1>2, <1>5, <2>1, <2>2, AddedKept
<1>7. CASE AddToExtent
  <2>1. /\ held # 0 /\ Listed /\ next' = next /\ parent' = parent
        /\ formatted' = formatted /\ sectorVars' = sectorVars
        /\ next[root] # 0 /\ refs' = Added(refs, Target, held)
    BY <1>7 DEF AddToExtent, Added
  <2>2. PICK k \in 0 .. n : c[k] = Target
    BY <1>3, <2>1, TargetOfChain DEF InChain
  <2>3. refs' = Added(refs, c[k], held)
    BY <2>1, <2>2
  <2> QED BY <1>2, <1>5, <2>1, <2>3, AddedKept
<1>8. CASE AddFirstExtent
  <2>1. /\ held # 0 /\ Listed /\ formatted' = formatted /\ fsAllocate(DirSize)
        /\ next[root] = 0 /\ refs' = [refs EXCEPT ![result'] = <<held>>]
        /\ fsDirectoryExtentCreate(root)
    BY <1>8 DEF AddFirstExtent
  <2>2. n = 0
    <3>1. ASSUME n # 0 PROVE FALSE
      <4>1. 0 \in 0 .. n - 1 /\ 1 \in 0 .. n /\ 0 + 1 = 1
        BY <3>1
      <4>2. next[c[0]] = c[1]
        BY <1>3, <4>1 DEF IsChain
      <4> QED BY <1>3, <2>1, <4>1, <4>2
    <3> QED BY <3>1
  <2>3. root = c[n]
    BY <1>3, <2>2
  <2>4. PICK h : h = result'
    OBVIOUS
  <2>5. h \in Sector
    BY <1>3, <1>4, <2>1, <2>4, Allocated
  <2>6. PICK r : r = Cleared(refs, h)
    OBVIOUS
  <2>7. PICK k \in 0 .. n + 1 : Longer(n, c, h)[k] = h
    <3>1. n + 1 \in 0 .. n + 1 /\ Longer(n, c, h)[n + 1] = h
      BY LongerAt
    <3> QED BY <3>1
  <2>8. refs' = Added(r, h, held)
    <3>1. r[h] = <<>> /\ Append(<<>>, held) = <<held>>
      BY <1>3, <2>5, <2>6 DEF Cleared
    <3>2. Added(r, h, held) = [r EXCEPT ![h] = <<held>>]
      BY <3>1 DEF Added
    <3>3. [r EXCEPT ![h] = <<held>>] = [refs EXCEPT ![h] = <<held>>]
      BY <1>3, <2>5, <2>6 DEF Cleared
    <3> QED BY <2>1, <2>4, <3>2, <3>3
  <2>9. refs' = Added(Cleared(refs, h), Longer(n, c, h)[k], held)
    BY <2>6, <2>7, <2>8
  <2>10. fsDirectoryExtentCreate(c[n])
    BY <2>1, <2>3
  <2> QED BY <1>2, <2>1, <2>4, <2>7, <2>9, <2>10, LinkedKept
<1>9. CASE AddNextExtent
  <2>1. /\ held # 0 /\ Listed /\ formatted' = formatted /\ fsAllocate(DirSize)
        /\ next[root] # 0 /\ ExtentFull(Target)
        /\ refs' = [refs EXCEPT ![result'] = <<>>, ![Target] = Append(@, held)]
        /\ fsDirectoryExtentCreate(Target)
    BY <1>9 DEF AddNextExtent
  <2>2. Target = c[n]
    BY <1>3, <2>1, TargetOfChain
  <2>3. PICK h : h = result'
    OBVIOUS
  <2>4. h \in Sector /\ h \notin Headers
    BY <1>3, <1>4, <2>1, <2>3, Allocated
  <2>5. PICK d : d = c[n] /\ d \in Sector /\ d # h
    BY <1>3, <2>4
  <2>6. refs' = Added(Cleared(refs, h), d, held)
    <3>1. refs' = [refs EXCEPT ![h] = <<>>, ![d] = Append(@, held)]
      BY <2>1, <2>2, <2>3, <2>5
    <3>2. Cleared(refs, h)[d] = refs[d]
      BY <1>3, <2>4, <2>5 DEF Cleared
    <3> QED BY <1>3, <2>4, <2>5, <3>1, <3>2 DEF Added, Cleared
  <2>7. PICK k \in 0 .. n + 1 : Longer(n, c, h)[k] = d
    <3>1. n \in 0 .. n + 1 /\ Longer(n, c, h)[n] = c[n]
      BY LongerAt
    <3> QED BY <2>5, <3>1
  <2>8. refs' = Added(Cleared(refs, h), Longer(n, c, h)[k], held)
    BY <2>6, <2>7
  <2>9. fsDirectoryExtentCreate(c[n])
    BY <2>1, <2>2
  <2> QED BY <1>2, <2>1, <2>3, <2>8, <2>9, LinkedKept
<1>10. CASE AddFirstExtentFails
  BY <1>10, LostKept DEF AddFirstExtentFails
<1>11. CASE AddNextExtentFails
  <2>1. /\ held # 0 /\ Listed /\ formatted' = FALSE /\ fsAllocateFails(DirSize)
        /\ next[root] # 0 /\ ExtentFull(Target)
        /\ refs' = Added(refs, Target, held)
        /\ next' = next /\ parent' = parent
    BY <1>11 DEF AddNextExtentFails, Added
  <2>2. n \in 0 .. n /\ refs' = Added(refs, c[n], held)
    BY <1>3, <2>1, TargetOfChain
  <2>3. SectorInv' /\ Headers' = Headers /\ size' = size /\ root' = root
    BY <1>3, <1>4, <2>1, Refused
  <2> QED BY <1>2, <2>1, <2>2, <2>3, AddedKept
<1> QED BY <1>6, <1>7, <1>8, <1>9, <1>10, <1>11 DEF AddFile

LEMMA DirectoryStep ==
  ASSUME DirectoryInv, [DirectoryNext]_dirVars
  PROVE  DirectoryInv'
<1>1. ASSUME NEW s \in Sizes, CreateFile(s) PROVE DirectoryInv'
  BY <1>1, CreatedKept DEF CreateFile
<1>2. ASSUME NEW s \in Sizes, CreateFileFails(s) PROVE DirectoryInv'
  BY <1>2, RefusedKept DEF CreateFileFails
<1>3. CASE CreateDirectory
  BY <1>3, CreatedKept, SectorsAssumption DEF CreateDirectory
<1>4. CASE CreateDirectoryFails
  BY <1>4, RefusedKept, SectorsAssumption DEF CreateDirectoryFails
<1>5. CASE AddFile
  BY <1>5, AddFileKept
<1>6. ASSUME NEW f \in listed, RemoveFile(f) PROVE DirectoryInv'
  BY <1>6, RemoveEntryKept, RemoveExtentKept DEF RemoveFile
<1>7. CASE UNCHANGED dirVars
  <2>1. /\ marker' = marker /\ size' = size /\ root' = root /\ result' = result
        /\ refs' = refs /\ next' = next /\ parent' = parent
        /\ formatted' = formatted /\ held' = held /\ listed' = listed
    BY <1>7 DEF dirVars, sectorVars, linkVars, callerVars
  <2>2. SectorInv'
    BY <2>1 DEF DirectoryInv, SectorInv, TypeOK, BlocksWhole, NoOrphans, HeaderKept,
       RootAgrees, Headers, Block, fsDeviceGetRootDirectory
  <2>3. DirectoryTypeOK'
    BY <2>1 DEF DirectoryInv, DirectoryTypeOK, TypeOK
  <2>4. ASSUME NEW n \in Nat, NEW c, Directory(n, c) PROVE Directory(n, c)'
    BY <2>1, <2>4 DEF Directory, IsChain, Accounted, Headers
  <2> QED BY <2>2, <2>3, <2>4 DEF DirectoryInv
<1> QED BY <1>1, <1>2, <1>3, <1>4, <1>5, <1>6, <1>7 DEF DirectoryNext

-----------------------------------------------------------------------------
(* The numbering of the references.  f sums the weights w of the places    *)
(* before each of the places 0 .. m + 1.                                   *)
Sums(m, w, f) ==
  /\ f \in [0 .. m + 1 -> Nat]
  /\ f[0] = 0
  /\ \A k \in 0 .. m : f[k + 1] = f[k] + w[k]

LEMMA SumsAt ==
  ASSUME NEW m \in Nat, NEW w, NEW f, Sums(m, w, f), NEW k \in 0 .. m
  PROVE  f[k] \in Nat /\ f[k + 1] = f[k] + w[k]
BY DEF Sums

LEMMA SumsExist ==
  ASSUME NEW m \in Nat, NEW w \in [0 .. m -> Nat]
  PROVE  \E f : Sums(m, w, f)
<1> DEFINE G(j, f) == /\ f \in [0 .. j -> Nat] /\ f[0] = 0
                      /\ \A k \in 0 .. j - 1 : f[k + 1] = f[k] + w[k]
           Bad == {j \in 0 .. m + 1 : ~\E f : G(j, f)}
<1> HIDE DEF G
<1>1. Bad = {}
  <2> SUFFICES ASSUME Bad # {} PROVE FALSE
    OBVIOUS
  <2>1. PICK j \in Bad : \A i \in Bad : j <= i
    <3>1. Bad \subseteq Nat
      OBVIOUS
    <3> HIDE DEF Bad
    <3> QED BY <3>1, LeastExists
  <2>2. /\ j \in 0 .. m + 1 /\ ~\E f : G(j, f)
        /\ \A i \in 0 .. m + 1 : i < j => \E f : G(i, f)
    BY <2>1
  <2> HIDE DEF Bad
  <2>3. CASE j = 0
    <3>1. G(0, [i \in 0 .. 0 |-> 0])
      BY DEF G
    <3> QED BY <2>2, <2>3, <3>1
  <2>4. CASE j # 0
    <3>1. j - 1 \in 0 .. m /\ j - 1 \in 0 .. m + 1 /\ j - 1 < j
      BY <2>2, <2>4
    <3>2. PICK f : G(j - 1, f)
      BY <2>2, <3>1
    <3> DEFINE g == [i \in 0 .. j |-> IF i = j THEN f[j - 1] + w[j - 1] ELSE f[i]]
    <3>3. \A i \in 0 .. j - 1 : g[i] = f[i] /\ f[i] \in Nat
      <4>1. \A i \in 0 .. j - 1 : i \in 0 .. j /\ i # j
        BY <2>2
      <4>2. \A i \in 0 .. j - 1 : f[i] \in Nat
        BY <3>2 DEF G
      <4> QED BY <4>1, <4>2
    <3>4. g[j] = f[j - 1] + w[j - 1] /\ w[j - 1] \in Nat
      BY <2>2, <3>1
    <3>5. j \in Nat /\ \A i \in 0 .. j : i \in 0 .. j - 1 \/ i = j
      BY <2>2
    <3>6. g \in [0 .. j -> Nat]
      <4>1. j - 1 \in 0 .. j - 1
        BY <3>1, <3>5
      <4>2. g[j] \in Nat
        <5>1. f[j - 1] \in Nat
          BY <3>3, <4>1
        <5> HIDE DEF g
        <5> QED BY <3>4, <5>1
      <4>3. \A i \in 0 .. j : g[i] \in Nat
        <5> HIDE DEF g
        <5> QED BY <3>3, <3>5, <4>2
      <4> QED BY <4>3
    <3> HIDE DEF g
    <3>7. g[0] = 0
      BY <2>2, <2>4, <3>2, <3>3 DEF G
    <3>8. ASSUME NEW k \in 0 .. j - 1 PROVE g[k + 1] = g[k] + w[k]
      <4>1. CASE k = j - 1
        BY <3>3, <3>4, <3>5, <4>1
      <4>2. CASE k # j - 1
        <5>1. k \in 0 .. (j - 1) - 1 /\ k + 1 \in 0 .. j - 1
          BY <3>5, <4>2
        <5> QED BY <3>2, <3>3, <5>1 DEF G
      <4> QED BY <4>1, <4>2
    <3>9. G(j, g)
      BY <3>6, <3>7, <3>8 DEF G
    <3> QED BY <2>2, <3>9
  <2> QED BY <2>3, <2>4
<1>2. m + 1 \in 0 .. m + 1 /\ (m + 1) - 1 = m
  OBVIOUS
<1>3. \E f : G(m + 1, f)
  BY <1>1, <1>2
<1> QED BY <1>2, <1>3 DEF Sums, G

LEMMA SumsMonotone ==
  ASSUME NEW m \in Nat, NEW w \in [0 .. m -> Nat], NEW f, Sums(m, w, f),
         NEW i \in 0 .. m + 1, NEW j \in 0 .. m + 1, i <= j
  PROVE  f[i] <= f[j]
<1> DEFINE Bad == {k \in 0 .. m + 1 : i <= k /\ ~(f[i] <= f[k])}
<1> SUFFICES ASSUME Bad # {} PROVE FALSE
  OBVIOUS
<1>1. PICK k \in Bad : \A l \in Bad : k <= l
  <2>1. Bad \subseteq Nat
    OBVIOUS
  <2> HIDE DEF Bad
  <2> QED BY <2>1, LeastExists
<1>2. f[i] \in Nat /\ k # i
  BY <1>1 DEF Sums
<1>3. k - 1 \in 0 .. m /\ k - 1 \in 0 .. m + 1 /\ i <= k - 1 /\ (k - 1) + 1 = k
  BY <1>1, <1>2
<1>4. f[i] <= f[k - 1]
  BY <1>1, <1>3
<1>5. f[k] = f[k - 1] + w[k - 1] /\ f[k - 1] \in Nat /\ w[k - 1] \in Nat
  BY <1>3 DEF Sums
<1>6. f[i] <= f[k]
  <2> DEFINE x == f[i]  y == f[k - 1]  z == w[k - 1]
  <2>1. x \in Nat /\ y \in Nat /\ z \in Nat /\ x <= y
    BY <1>2, <1>4, <1>5
  <2>2. f[k] = y + z
    BY <1>5
  <2> HIDE DEF x, y, z
  <2>3. x <= y + z
    BY <2>1
  <2> QED BY <2>2, <2>3 DEF x
<1> QED BY <1>1, <1>6

(* Each number below the sum falls to one place.                           *)
LEMMA SumsFind ==
  ASSUME NEW m \in Nat, NEW w, NEW f, Sums(m, w, f), NEW x \in Nat, x < f[m + 1]
  PROVE  \E k \in 0 .. m : f[k] <= x /\ x < f[k + 1]
<1> DEFINE S == {k \in 0 .. m + 1 : x < f[k]}
<1>1. PICK k \in S : \A l \in S : k <= l
  <2>1. S \subseteq Nat /\ m + 1 \in S
    OBVIOUS
  <2> HIDE DEF S
  <2> QED BY <2>1, LeastExists
<1>2. k # 0
  BY <1>1 DEF Sums
<1>3. k - 1 \in 0 .. m /\ k - 1 \in 0 .. m + 1 /\ (k - 1) + 1 = k
  BY <1>1, <1>2
<1>4. k - 1 \notin S /\ f[k - 1] \in Nat
  BY <1>1, <1>3 DEF Sums
<1>5. f[k - 1] <= x
  BY <1>3, <1>4
<1> QED BY <1>1, <1>3, <1>5

LEMMA SumsUnique ==
  ASSUME NEW m \in Nat, NEW w \in [0 .. m -> Nat], NEW f, Sums(m, w, f),
         NEW x \in Nat, NEW j \in 0 .. m, NEW k \in 0 .. m,
         f[j] <= x, x < f[j + 1], f[k] <= x, x < f[k + 1]
  PROVE  j = k
<1>1. \A i \in 0 .. m + 1 : f[i] \in Nat
  BY DEF Sums
<1>2. ASSUME NEW a \in 0 .. m, NEW b \in 0 .. m, x < f[a + 1], f[b] <= x PROVE ~(a < b)
  <2> SUFFICES ASSUME a < b PROVE FALSE
    OBVIOUS
  <2>1. a + 1 \in 0 .. m + 1 /\ b \in 0 .. m + 1 /\ a + 1 <= b
    OBVIOUS
  <2>2. f[a + 1] <= f[b] /\ f[a + 1] \in Nat /\ f[b] \in Nat
    BY <1>1, <2>1, SumsMonotone
  <2> QED BY <1>2, <2>2
<1>3. ~(j < k) /\ ~(k < j)
  BY <1>2
<1> QED BY <1>3

(* The references in each block the loops visit.                           *)
Weight == [k \in 0 .. MaxHops |->
             IF Hop[k] = 0 THEN 0 ELSE fsDirectoryGetReferenceCount(Hop[k])]

LEMMA WeightOfChain ==
  ASSUME SectorInv, refs \in [Sector -> Seq(Sector)], NEW n \in Nat, NEW c, IsChain(n, c)
  PROVE  /\ Weight \in [0 .. MaxHops -> Nat]
         /\ \A k \in 0 .. MaxHops :
              /\ k <= n => Weight[k] = Len(refs[c[k]])
              /\ k > n => Weight[k] = 0
<1>1. \A k \in 0 .. MaxHops : Hop[k] = IF k <= n THEN c[k] ELSE 0
  BY HopOfChain
<1>2. MaxHops \in Nat
  BY MaxHopsType
<1>3. \A k \in 0 .. n : c[k] # 0 /\ c[k] \in Sector
  BY BlockFacts DEF IsChain
<1>4. \A h \in Sector : Len(refs[h]) \in Nat
  OBVIOUS
<1>5. ASSUME NEW k \in 0 .. MaxHops, k <= n
      PROVE  Weight[k] = Len(refs[c[k]]) /\ Weight[k] \in Nat
  <2>1. Hop[k] = c[k] /\ c[k] # 0 /\ c[k] \in Sector
    BY <1>1, <1>2, <1>3, <1>5
  <2>2. Weight[k] = Len(refs[c[k]])
    BY <2>1 DEF Weight, fsDirectoryGetReferenceCount
  <2> QED BY <1>4, <2>1, <2>2
<1>6. ASSUME NEW k \in 0 .. MaxHops, k > n
      PROVE  Weight[k] = 0
  BY <1>1, <1>2, <1>6 DEF Weight
<1>7. \A k \in 0 .. MaxHops : k <= n \/ k > n
  BY <1>2
<1>8. \A k \in 0 .. MaxHops : Weight[k] \in Nat
  BY <1>5, <1>6, <1>7
<1>9. Weight \in [0 .. MaxHops -> Nat]
  BY <1>8 DEF Weight
<1> QED BY <1>5, <1>6, <1>9

LEMMA CounterSums ==
  ASSUME Weight \in [0 .. MaxHops -> Nat]
  PROVE  Sums(MaxHops, Weight, Counter)
<1> DEFINE M == MaxHops
           E(f) == [k \in 0 .. M + 1 |->
                      IF k = 0 THEN 0
                      ELSE f[k - 1] + (IF Hop[k - 1] = 0 THEN 0
                                       ELSE fsDirectoryGetReferenceCount(Hop[k - 1]))]
<1>1. M \in Nat
  BY MaxHopsType
<1>2. PICK w : w = Weight /\ w \in [0 .. M -> Nat]
  OBVIOUS
<1>3. \A k \in 1 .. M + 1 : k - 1 \in 0 .. M /\ k - 1 \in 0 .. M + 1
  BY <1>1
<1>4. ASSUME NEW f PROVE E(f) = [k \in 0 .. M + 1 |-> IF k = 0 THEN 0 ELSE f[k - 1] + w[k - 1]]
  <2>1. \A k \in 0 .. M + 1 : k # 0 =>
          w[k - 1] = IF Hop[k - 1] = 0 THEN 0 ELSE fsDirectoryGetReferenceCount(Hop[k - 1])
    <3> SUFFICES ASSUME NEW k \in 0 .. M + 1, k # 0
                 PROVE  w[k - 1] = IF Hop[k - 1] = 0 THEN 0
                                   ELSE fsDirectoryGetReferenceCount(Hop[k - 1])
      OBVIOUS
    <3>1. k - 1 \in 0 .. M
      BY <1>1
    <3> QED BY <1>2, <3>1 DEF Weight
  <2> QED BY <2>1
<1>5. PICK f : Sums(M, w, f)
  BY <1>1, <1>2, SumsExist
<1>6. f = E(f)
  <2> DEFINE g == [k \in 0 .. M + 1 |-> IF k = 0 THEN 0 ELSE f[k - 1] + w[k - 1]]
  <2>1. ASSUME NEW k \in 0 .. M + 1 PROVE f[k] = g[k]
    <3>1. CASE k = 0
      BY <1>5, <3>1 DEF Sums
    <3>2. CASE k # 0
      <4>1. k - 1 \in 0 .. M /\ (k - 1) + 1 = k
        BY <1>1, <3>2
      <4>2. f[(k - 1) + 1] = f[k - 1] + w[k - 1]
        BY <1>5, <4>1 DEF Sums
      <4> QED BY <3>2, <4>1, <4>2
    <3> QED BY <3>1, <3>2
  <2>2. f \in [0 .. M + 1 -> Nat]
    BY <1>5 DEF Sums
  <2>3. f = g
    BY <2>1, <2>2
  <2> QED BY <1>4, <2>3
<1>7. Counter = E(Counter)
  <2>1. \E g : g = E(g)
    BY <1>6
  <2>2. Counter = CHOOSE g : g = E(g)
    BY DEF Counter
  <2> QED BY <2>1, <2>2
<1>8. Counter = [k \in 0 .. M + 1 |-> IF k = 0 THEN 0 ELSE Counter[k - 1] + w[k - 1]]
  BY <1>4, <1>7, Zenon
<1>9. PICK g : g = Counter
  OBVIOUS
<1>10. g = [k \in 0 .. M + 1 |-> IF k = 0 THEN 0 ELSE g[k - 1] + w[k - 1]]
  BY <1>8, <1>9
<1> HIDE DEF E, M
<1>11. /\ f \in [0 .. M + 1 -> Nat] /\ f[0] = 0
       /\ \A k \in 0 .. M : f[k + 1] = f[k] + w[k]
  BY <1>5 DEF Sums
<1>12. \A k \in 0 .. M + 1 : g[k] = f[k]
  <2> DEFINE Bad == {k \in 0 .. M + 1 : g[k] # f[k]}
  <2> SUFFICES ASSUME Bad # {} PROVE FALSE
    OBVIOUS
  <2>1. PICK k \in Bad : \A j \in Bad : k <= j
    <3>1. Bad \subseteq Nat
      BY <1>1
    <3> HIDE DEF Bad
    <3> QED BY <3>1, LeastExists
  <2>2. g[0] = 0
    <3>1. 0 \in 0 .. M + 1
      BY <1>1
    <3> QED BY <1>10, <3>1
  <2>3. k # 0
    BY <1>11, <2>1, <2>2
  <2>4. k - 1 \in 0 .. M /\ k - 1 \in 0 .. M + 1 /\ (k - 1) + 1 = k
    BY <1>1, <2>1, <2>3
  <2>5. g[k - 1] = f[k - 1]
    BY <1>1, <2>1, <2>4
  <2>6. g[k] = g[k - 1] + w[k - 1]
    BY <1>10, <2>1, <2>3
  <2>7. f[(k - 1) + 1] = f[k - 1] + w[k - 1]
    BY <1>11, <2>4
  <2> QED BY <2>1, <2>4, <2>5, <2>6, <2>7
<1>13. g = f
  <2>1. g = [k \in 0 .. M + 1 |-> g[k]]
    BY <1>10
  <2> QED BY <1>11, <1>12, <2>1
<1> QED BY <1>2, <1>5, <1>9, <1>13 DEF M

(* fsDirectoryFindByIndex finds the a-th reference of the k-th block at    *)
(* the number of the references before it.                                 *)
LEMMA FoundAt ==
  ASSUME SectorInv, refs \in [Sector -> Seq(Sector)],
         NEW n \in Nat, NEW c, IsChain(n, c),
         NEW k \in 0 .. n, NEW a \in Places(c, refs, k)
  PROVE  /\ Counter[k] \in Nat /\ a \in Nat
         /\ Counter[k] + a \in 1 .. fsDirectoryGetTotalSize
         /\ fsDirectoryFindByIndex(Counter[k] + a - 1) = Ref(c, refs, k, a)
<1> DEFINE M == MaxHops
           x == Counter[k] + a - 1
           has(j) == Counter[j] <= x /\ x < Counter[j + 1]
<1>1. M \in Nat /\ n < M
  BY MaxHopsType, ChainFits
<1>2. /\ Weight \in [0 .. M -> Nat]
      /\ \A j \in 0 .. M : j <= n => Weight[j] = Len(refs[c[j]])
  BY WeightOfChain
<1>3. Sums(M, Weight, Counter)
  BY <1>2, CounterSums
<1>4. k \in 0 .. M /\ k \in 0 .. M + 1 /\ k + 1 \in 0 .. M + 1 /\ k <= n
  BY <1>1
<1>5. Hop[k] = c[k]
  BY <1>4, HopOfChain
<1>6. Weight[k] \in Nat /\ a \in 1 .. Weight[k]
  <2>1. c[k] \in Sector
    BY BlockFacts DEF IsChain
  <2>2. DOMAIN refs[c[k]] = 1 .. Len(refs[c[k]])
    BY <2>1
  <2> QED BY <1>2, <1>4, <2>2 DEF Places
<1>7. /\ Counter[k] \in Nat /\ Counter[k + 1] \in Nat
      /\ Counter[k + 1] = Counter[k] + Weight[k]
  BY <1>3, <1>4 DEF Sums
<1>8. x \in Nat /\ has(k)
  <2> DEFINE u == Counter[k]  v == Weight[k]
  <2>1. u \in Nat /\ v \in Nat /\ a \in 1 .. v
    BY <1>6, <1>7
  <2>2. Counter[k + 1] = u + v /\ x = u + a - 1
    BY <1>7
  <2> HIDE DEF u, v
  <2>3. u + a - 1 \in Nat /\ u <= u + a - 1 /\ u + a - 1 < u + v
    BY <2>1
  <2> HIDE DEF x
  <2>4. x \in Nat /\ u <= x /\ x < Counter[k + 1]
    BY <2>2, <2>3
  <2> QED BY <2>4 DEF u
<1>9. Counter[k + 1] <= Counter[M + 1] /\ Counter[M + 1] \in Nat
  <2>1. M + 1 \in 0 .. M + 1 /\ k + 1 <= M + 1
    BY <1>1, <1>4
  <2>2. Counter[M + 1] \in Nat
    BY <1>3, <2>1 DEF Sums
  <2> QED BY <1>1, <1>2, <1>3, <1>4, <2>1, <2>2, SumsMonotone
<1>10. Counter[k] + a \in 1 .. fsDirectoryGetTotalSize
  <2> DEFINE u == Counter[k]  t == Counter[M + 1]
  <2>1. u \in Nat /\ t \in Nat /\ a \in Nat /\ a >= 1
    BY <1>6, <1>7, <1>9
  <2>2. u + a - 1 < t
    BY <1>7, <1>8, <1>9
  <2> HIDE DEF u, t
  <2>3. u + a \in 1 .. t
    BY <2>1, <2>2
  <2> QED BY <2>3 DEF u, t, fsDirectoryGetTotalSize
<1> HIDE DEF x
<1>11. \A j \in 0 .. M : has(j) => j = k
  BY <1>1, <1>2, <1>3, <1>4, <1>8, SumsUnique
<1>12. (CHOOSE j \in 0 .. M : has(j)) = k
  BY <1>4, <1>8, <1>11
<1>13. fsDirectoryFindByIndex(x) = refs[Hop[k]][x - Counter[k] + 1]
  BY <1>4, <1>8, <1>12 DEF fsDirectoryFindByIndex
<1>14. x - Counter[k] + 1 = a
  BY <1>6, <1>7 DEF x
<1>15. fsDirectoryFindByIndex(x) = Ref(c, refs, k, a)
  BY <1>5, <1>13, <1>14 DEF Ref
<1>16. a \in Nat
  BY <1>6
<1> QED BY <1>7, <1>10, <1>15, <1>16 DEF x

(* Every number is that of a reference.                                    *)
LEMMA PlaceOf ==
  ASSUME SectorInv, refs \in [Sector -> Seq(Sector)],
         NEW n \in Nat, NEW c, IsChain(n, c),
         NEW y \in 1 .. fsDirectoryGetTotalSize
  PROVE  \E k \in 0 .. n : \E a \in Places(c, refs, k) : y = Counter[k] + a
<1> DEFINE M == MaxHops
<1>1. M \in Nat /\ n < M
  BY MaxHopsType, ChainFits
<1>2. /\ Weight \in [0 .. M -> Nat]
      /\ \A j \in 0 .. M : j <= n => Weight[j] = Len(refs[c[j]])
      /\ \A j \in 0 .. M : j > n => Weight[j] = 0
  BY WeightOfChain
<1>3. Sums(M, Weight, Counter)
  BY <1>2, CounterSums
<1>4. M + 1 \in 0 .. M + 1 /\ Counter[M + 1] \in Nat
  BY <1>1, <1>3 DEF Sums
<1>5. y - 1 \in Nat /\ y \in Nat /\ y - 1 < Counter[M + 1]
  BY <1>4 DEF fsDirectoryGetTotalSize
<1>6. PICK k \in 0 .. M : Counter[k] <= y - 1 /\ y - 1 < Counter[k + 1]
  BY <1>1, <1>3, <1>5, SumsFind
<1>7. /\ Counter[k] \in Nat /\ Weight[k] \in Nat
      /\ Counter[k + 1] = Counter[k] + Weight[k]
  <2>1. Weight[k] \in Nat
    BY <1>2
  <2> HIDE DEF M
  <2> QED BY <1>1, <1>3, <2>1, SumsAt
<1>8. y - Counter[k] \in 1 .. Weight[k] /\ y = Counter[k] + (y - Counter[k])
  <2> DEFINE u == Counter[k]  v == Weight[k]
  <2>1. u \in Nat /\ v \in Nat /\ u <= y - 1 /\ y - 1 < u + v
    BY <1>6, <1>7
  <2> HIDE DEF u, v
  <2>2. y - u \in 1 .. v /\ y = u + (y - u)
    BY <1>5, <2>1
  <2> QED BY <2>2 DEF u, v
<1>9. k <= n
  <2> SUFFICES ASSUME k > n PROVE FALSE
    BY <1>1
  <2>1. Weight[k] = 0
    BY <1>2
  <2> QED BY <1>8, <2>1
<1>10. k \in 0 .. n /\ Weight[k] = Len(refs[c[k]])
  BY <1>1, <1>2, <1>9
<1>11. DOMAIN refs[c[k]] = 1 .. Len(refs[c[k]])
  <2>1. c[k] \in Sector
    BY <1>10, BlockFacts DEF IsChain
  <2> QED BY <2>1
<1>12. y - Counter[k] \in Places(c, refs, k)
  BY <1>8, <1>10, <1>11 DEF Places
<1> QED BY <1>8, <1>10, <1>12

(* The listed files, each under a number of its own.                       *)
LEMMA Shown ==
  ASSUME DirectoryInv, formatted
  PROVE  \E m \in Nat : /\ vfsList \in Bijection(1 .. m, listed)
                        /\ DOMAIN vfsList = 1 .. m /\ Len(vfsList) = m
                        /\ Cardinality(listed) = m
<1>1. PICK n \in Nat : \E c : Directory(n, c)
  BY DEF DirectoryInv
<1>2. PICK c : Directory(n, c)
  BY <1>1
<1>3. SectorInv /\ IsChain(n, c) /\ refs \in [Sector -> Seq(Sector)]
  BY <1>2, DirectoryFacts
<1>4. /\ OnlyListed(n, c, refs, listed) /\ AllListed(n, c, refs, listed)
      /\ ListedOnce(n, c, refs)
  BY <1>2 DEF Directory, Filed
<1> DEFINE t == fsDirectoryGetTotalSize
           At(k, a) == Counter[k] + a
           s == vfsList
<1>5. t \in Nat
  <2>1. MaxHops \in Nat /\ Weight \in [0 .. MaxHops -> Nat]
    BY <1>3, MaxHopsType, WeightOfChain
  <2>2. Sums(MaxHops, Weight, Counter)
    BY <2>1, CounterSums
  <2> QED BY <2>1, <2>2 DEF Sums, fsDirectoryGetTotalSize
<1>6. ASSUME NEW k \in 0 .. n, NEW a \in Places(c, refs, k)
      PROVE  At(k, a) \in 1 .. t /\ s[At(k, a)] = Ref(c, refs, k, a)
  <2>1. /\ At(k, a) \in 1 .. t
        /\ fsDirectoryFindByIndex(At(k, a) - 1) = Ref(c, refs, k, a)
    BY <1>3, FoundAt
  <2> HIDE DEF At
  <2> QED BY <2>1 DEF vfsList
<1>7. ASSUME NEW x \in 1 .. t
      PROVE  \E k \in 0 .. n : \E a \in Places(c, refs, k) : x = At(k, a)
  BY <1>3, PlaceOf
<1>8. DOMAIN s = 1 .. t /\ s = [x \in 1 .. t |-> s[x]]
  BY DEF vfsList
<1> HIDE DEF t, s, At
<1>9. \A x \in 1 .. t : s[x] \in listed
  BY <1>4, <1>6, <1>7 DEF OnlyListed
<1>10. \A f \in listed : \E x \in 1 .. t : s[x] = f
  BY <1>4, <1>6 DEF AllListed
<1>11. ASSUME NEW x \in 1 .. t, NEW y \in 1 .. t, s[x] = s[y] PROVE x = y
  <2>1. PICK k \in 0 .. n : \E a \in Places(c, refs, k) : x = At(k, a)
    BY <1>7
  <2>2. PICK a \in Places(c, refs, k) : x = At(k, a)
    BY <2>1
  <2>3. PICK l \in 0 .. n : \E b \in Places(c, refs, l) : y = At(l, b)
    BY <1>7
  <2>4. PICK b \in Places(c, refs, l) : y = At(l, b)
    BY <2>3
  <2>5. Ref(c, refs, k, a) = Ref(c, refs, l, b)
    BY <1>6, <1>11, <2>2, <2>4
  <2>6. k = l /\ a = b
    BY <1>4, <2>5 DEF ListedOnce
  <2> QED BY <2>2, <2>4, <2>6
<1>12. s \in Bijection(1 .. t, listed)
  <2>1. s \in [1 .. t -> listed]
    BY <1>8, <1>9
  <2> QED BY <1>10, <1>11, <2>1 DEF Bijection, Injection, Surjection, IsInjective
<1>13. Cardinality(listed) = t
  BY <1>5, <1>12, FS_CountingElements DEF ExistsBijection
<1>14. Len(s) = t
  <2>1. s \in Seq(listed)
    BY <1>5, <1>8, <1>9, SeqDef
  <2> QED BY <1>5, <1>8, <2>1, LenProperties
<1> QED BY <1>5, <1>8, <1>12, <1>13, <1>14 DEF s

LEMMA InvContentsListed == DirectoryInv => ContentsListed
<1> SUFFICES ASSUME DirectoryInv, Usable
             PROVE  /\ {vfsList[x] : x \in DOMAIN vfsList} = listed
                    /\ Len(vfsList) = Cardinality(listed)
  BY DEF ContentsListed
<1>1. PICK m \in Nat : /\ vfsList \in Bijection(1 .. m, listed)
                       /\ DOMAIN vfsList = 1 .. m /\ Len(vfsList) = m
                       /\ Cardinality(listed) = m
  BY Shown DEF Usable, fsDeviceOpen
<1>2. /\ \A x \in 1 .. m : vfsList[x] \in listed
      /\ \A f \in listed : \E x \in 1 .. m : vfsList[x] = f
  BY <1>1 DEF Bijection, Injection, Surjection
<1> QED BY <1>1, <1>2

-----------------------------------------------------------------------------
(* The order of the references.  While no file is removed each block but   *)
(* the last is full, and a reference is added at the end of all.           *)
FullAt(k, l) == (l + (IF k = 0 THEN 1 ELSE 2)) * RefSize >= SectorSize

Packed(n, c, r) == \A k \in 0 .. n - 1 : FullAt(k, Len(r[c[k]]))

(* s is the references of the blocks of c, one block after another; f is   *)
(* how many come before each block.                                        *)
InOrder(n, c, r, f, s) ==
  /\ f \in [0 .. n + 1 -> Nat] /\ f[0] = 0
  /\ \A k \in 0 .. n : f[k + 1] = f[k] + Len(r[c[k]])
  /\ s \in Seq(Sector) /\ Len(s) = f[n + 1]
  /\ \A k \in 0 .. n : \A a \in Places(c, r, k) :
       f[k] + a \in 1 .. Len(s) /\ s[f[k] + a] = Ref(c, r, k, a)

Chained(s) ==
  \E n \in Nat : \E c, f :
    IsChain(n, c) /\ Packed(n, c, refs) /\ InOrder(n, c, refs, f, s)

LEMMA OrderSame ==
  ASSUME NEW n \in Nat, NEW c, NEW r, NEW f, NEW s, InOrder(n, c, r, f, s), Packed(n, c, r),
         NEW q, \A i \in 0 .. n : q[c[i]] = r[c[i]]
  PROVE  InOrder(n, c, q, f, s) /\ Packed(n, c, q)
<1>1. \A i \in 0 .. n : Len(q[c[i]]) = Len(r[c[i]])
  OBVIOUS
<1>2. \A i \in 0 .. n : /\ Places(c, q, i) = Places(c, r, i)
                         /\ \A a : Ref(c, q, i, a) = Ref(c, r, i, a)
  BY DEF Places, Ref
<1>3. InOrder(n, c, q, f, s)
  BY <1>1, <1>2 DEF InOrder
<1>4. ASSUME NEW k \in 0 .. n - 1 PROVE FullAt(k, Len(q[c[k]]))
  <2>1. k \in 0 .. n
    OBVIOUS
  <2>2. q[c[k]] = r[c[k]]
    BY <2>1
  <2>3. FullAt(k, Len(r[c[k]]))
    BY DEF Packed
  <2> QED BY <2>2, <2>3
<1> QED BY <1>3, <1>4 DEF Packed

(* An empty extent is linked to a chain that is full to its end.           *)
LEMMA OrderLonger ==
  ASSUME NEW n \in Nat, NEW c, \A i \in 0 .. n : c[i] \in Sector,
         NEW r \in [Sector -> Seq(Sector)], NEW f, NEW s, InOrder(n, c, r, f, s),
         Packed(n, c, r), FullAt(n, Len(r[c[n]])),
         NEW h \in Sector, r[h] = <<>>
  PROVE  /\ \E g : InOrder(n + 1, Longer(n, c, h), r, g, s)
         /\ Packed(n + 1, Longer(n, c, h), r)
<1> DEFINE e == Longer(n, c, h)
           g == [k \in 0 .. n + 2 |-> IF k <= n + 1 THEN f[k] ELSE f[n + 1]]
<1>1. (\A i \in 0 .. n : e[i] = c[i]) /\ e[n + 1] = h
  BY LongerAt
<1> HIDE DEF e
<1>2. \A k \in 0 .. n + 1 : k \in 0 .. n \/ k = n + 1
  OBVIOUS
<1>3. /\ f \in [0 .. n + 1 -> Nat] /\ f[0] = 0
      /\ \A k \in 0 .. n : f[k + 1] = f[k] + Len(r[c[k]])
      /\ s \in Seq(Sector) /\ Len(s) = f[n + 1]
  BY DEF InOrder
<1>4. /\ g \in [0 .. n + 2 -> Nat]
      /\ (\A k \in 0 .. n + 1 : g[k] = f[k]) /\ g[n + 2] = f[n + 1]
  <2>1. n + 1 \in 0 .. n + 1 /\ 0 .. n + 1 \subseteq 0 .. n + 2
    OBVIOUS
  <2>2. \A k \in 0 .. n + 2 : k <= n + 1 => k \in 0 .. n + 1
    OBVIOUS
  <2> QED BY <1>3, <2>1, <2>2
<1> HIDE DEF g
<1>5. \A k \in 0 .. n + 1 : e[k] \in Sector
  BY <1>1, <1>2
<1>7. ASSUME NEW k \in 0 .. n + 1 PROVE g[k + 1] = g[k] + Len(r[e[k]])
  <2>1. CASE k \in 0 .. n
    <3>1. k + 1 \in 0 .. n + 1
      BY <2>1
    <3> QED BY <1>1, <1>3, <1>4, <2>1, <3>1
  <2>2. CASE k = n + 1
    <3>1. Len(r[e[k]]) = 0
      BY <1>1, <2>2
    <3>2. g[k + 1] = f[n + 1] /\ g[k] = f[n + 1] /\ f[n + 1] \in Nat
      BY <1>3, <1>4, <2>2
    <3> QED BY <3>1, <3>2
  <2> QED BY <1>2, <2>1, <2>2
<1>8. g \in [0 .. (n + 1) + 1 -> Nat] /\ g[0] = 0
  <2>1. 0 \in 0 .. n + 1 /\ (n + 1) + 1 = n + 2
    OBVIOUS
  <2> QED BY <1>3, <1>4, <2>1
<1>9. ASSUME NEW k \in 0 .. n + 1, NEW a \in Places(e, r, k)
      PROVE  g[k] + a \in 1 .. Len(s) /\ s[g[k] + a] = Ref(e, r, k, a)
  <2>1. CASE k \in 0 .. n
    <3>1. a \in Places(c, r, k) /\ Ref(e, r, k, a) = Ref(c, r, k, a)
      BY <1>1, <2>1 DEF Places, Ref
    <3>2. g[k] = f[k]
      BY <1>4
    <3> QED BY <2>1, <3>1, <3>2 DEF InOrder
  <2>2. CASE k = n + 1
    <3>1. Places(e, r, k) = {}
      BY <1>1, <2>2 DEF Places
    <3> QED BY <3>1
  <2> QED BY <1>2, <2>1, <2>2
<1>10. Len(s) = g[(n + 1) + 1]
  <2>1. (n + 1) + 1 = n + 2
    OBVIOUS
  <2> QED BY <1>3, <1>4, <2>1
<1>11. InOrder(n + 1, e, r, g, s)
  BY <1>3, <1>7, <1>8, <1>9, <1>10 DEF InOrder
<1>12. ASSUME NEW k \in 0 .. (n + 1) - 1 PROVE FullAt(k, Len(r[e[k]]))
  <2>1. k \in 0 .. n
    OBVIOUS
  <2>2. e[k] = c[k]
    BY <1>1, <2>1
  <2>3. CASE k = n
    BY <2>2, <2>3
  <2>4. CASE k # n
    <3>1. k \in 0 .. n - 1
      BY <2>1, <2>4
    <3> QED BY <2>2, <3>1 DEF Packed
  <2> QED BY <2>3, <2>4
<1>13. Packed(n + 1, e, r)
  BY <1>12 DEF Packed
<1> QED BY <1>11, <1>13 DEF e

(* A reference is added to the last block.                                 *)
LEMMA OrderAppended ==
  ASSUME NEW n \in Nat, NEW c, \A i \in 0 .. n : c[i] \in Sector,
         \A i, j \in 0 .. n : c[i] = c[j] => i = j,
         NEW r \in [Sector -> Seq(Sector)], NEW f, NEW s, InOrder(n, c, r, f, s),
         Packed(n, c, r), NEW x \in Sector
  PROVE  /\ \E g : InOrder(n, c, Added(r, c[n], x), g, Append(s, x))
         /\ Packed(n, c, Added(r, c[n], x))
         /\ Added(r, c[n], x) \in [Sector -> Seq(Sector)]
         /\ Len(Added(r, c[n], x)[c[n]]) = Len(r[c[n]]) + 1
         /\ \A d \in Sector : d # c[n] => Added(r, c[n], x)[d] = r[d]
<1>1. PICK d : d = c[n] /\ d \in Sector
  OBVIOUS
<1>2. PICK l \in Nat : l = Len(r[d])
  BY <1>1
<1>3. PICK q : q = Added(r, d, x)
  OBVIOUS
<1>4. q = [r EXCEPT ![d] = Append(r[d], x)]
  BY <1>3 DEF Added
<1>5. /\ r[d] \in Seq(Sector) /\ Append(r[d], x) \in Seq(Sector)
      /\ Len(Append(r[d], x)) = l + 1 /\ Append(r[d], x)[l + 1] = x
      /\ \A a \in 1 .. l : Append(r[d], x)[a] = r[d][a]
  BY <1>1, <1>2, AppendProperties
<1>6. /\ q \in [Sector -> Seq(Sector)] /\ q[d] = Append(r[d], x)
      /\ \A b \in Sector : b # d => q[b] = r[b]
  BY <1>1, <1>4, <1>5, Updated
<1>7. \A k \in 0 .. n : k # n => c[k] # d /\ q[c[k]] = r[c[k]]
  BY <1>1, <1>6
<1>8. /\ f \in [0 .. n + 1 -> Nat] /\ f[0] = 0
      /\ \A k \in 0 .. n : f[k + 1] = f[k] + Len(r[c[k]])
      /\ s \in Seq(Sector) /\ Len(s) = f[n + 1] /\ Len(s) \in Nat
      /\ \A k \in 0 .. n : \A a \in Places(c, r, k) :
           f[k] + a \in 1 .. Len(s) /\ s[f[k] + a] = Ref(c, r, k, a)
  BY DEF InOrder
<1>9. f[n + 1] = f[n] + l /\ f[n] \in Nat
  <2>1. n \in 0 .. n /\ n \in 0 .. n + 1
    OBVIOUS
  <2> QED BY <1>1, <1>2, <1>8, <2>1
<1>10. PICK g : g = [k \in 0 .. n + 1 |-> IF k = n + 1 THEN f[n + 1] + 1 ELSE f[k]]
  OBVIOUS
<1>11. /\ g \in [0 .. n + 1 -> Nat] /\ g[n + 1] = f[n + 1] + 1
       /\ \A k \in 0 .. n : g[k] = f[k]
  BY <1>8, <1>10
<1>12. ASSUME NEW k \in 0 .. n PROVE g[k + 1] = g[k] + Len(q[c[k]])
  <2>1. CASE k = n
    <3>1. Len(q[c[k]]) = l + 1
      BY <1>1, <1>5, <1>6, <2>1
    <3>2. PICK y \in Nat : y = f[n]
      BY <1>9
    <3>3. g[k + 1] = y + l + 1 /\ g[k] = y
      BY <1>9, <1>11, <2>1, <3>2
    <3> QED BY <3>1, <3>3
  <2>2. CASE k # n
    <3>1. k + 1 \in 0 .. n
      BY <2>2
    <3>2. q[c[k]] = r[c[k]]
      BY <1>7, <2>2
    <3> QED BY <1>8, <1>11, <3>1, <3>2
  <2> QED BY <2>1, <2>2
<1>13. g[0] = 0
  <2>1. 0 \in 0 .. n
    OBVIOUS
  <2> QED BY <1>8, <1>11, <2>1
<1>14. /\ Append(s, x) \in Seq(Sector)
       /\ Len(Append(s, x)) = Len(s) + 1 /\ Append(s, x)[Len(s) + 1] = x
       /\ \A y \in 1 .. Len(s) : Append(s, x)[y] = s[y]
  BY <1>8, AppendProperties
<1>15. PICK t : t = Append(s, x)
  OBVIOUS
<1>16. ASSUME NEW k \in 0 .. n, NEW a \in Places(c, r, k), Ref(c, q, k, a) = Ref(c, r, k, a)
       PROVE  g[k] + a \in 1 .. Len(s) + 1 /\ t[g[k] + a] = Ref(c, q, k, a)
  <2>1. g[k] = f[k]
    BY <1>11
  <2>2. f[k] + a \in 1 .. Len(s) /\ s[f[k] + a] = Ref(c, r, k, a)
    BY <1>8
  <2>3. t[f[k] + a] = s[f[k] + a]
    BY <1>14, <1>15, <2>2
  <2>4. f[k] + a \in 1 .. Len(s) + 1
    BY <1>8, <2>2
  <2> QED BY <1>16, <2>1, <2>2, <2>3, <2>4
<1>17. ASSUME NEW k \in 0 .. n, NEW a \in Places(c, q, k)
       PROVE  g[k] + a \in 1 .. Len(s) + 1 /\ t[g[k] + a] = Ref(c, q, k, a)
  <2>1. CASE k = n
    <3>1. Places(c, r, k) = 1 .. l /\ Places(c, q, k) = 1 .. l + 1
      BY <1>1, <1>2, <1>5, <1>6, <2>1 DEF Places
    <3>2. CASE a = l + 1
      <4>1. Ref(c, q, k, a) = x
        BY <1>1, <1>5, <1>6, <2>1, <3>2 DEF Ref
      <4>2. g[k] + a = Len(s) + 1 /\ Len(s) + 1 \in 1 .. Len(s) + 1
        BY <1>8, <1>9, <1>11, <2>1, <3>2
      <4> QED BY <1>14, <1>15, <4>1, <4>2
    <3>3. CASE a # l + 1
      <4>1. a \in 1 .. l
        BY <1>2, <3>1, <3>3
      <4>2. Ref(c, q, k, a) = Ref(c, r, k, a)
        BY <1>1, <1>5, <1>6, <2>1, <4>1 DEF Ref
      <4> QED BY <1>16, <3>1, <4>1, <4>2
    <3> QED BY <3>2, <3>3
  <2>2. CASE k # n
    <3>1. Places(c, q, k) = Places(c, r, k) /\ Ref(c, q, k, a) = Ref(c, r, k, a)
      BY <1>7, <2>2 DEF Places, Ref
    <3> QED BY <1>16, <3>1
  <2> QED BY <2>1, <2>2
<1>18. InOrder(n, c, q, g, t)
  <2>1. Len(t) = g[n + 1] /\ t \in Seq(Sector) /\ Len(t) = Len(s) + 1
    BY <1>8, <1>11, <1>14, <1>15
  <2> QED BY <1>11, <1>12, <1>13, <1>17, <2>1 DEF InOrder
<1>19. Packed(n, c, q)
  <2> SUFFICES ASSUME NEW k \in 0 .. n - 1 PROVE FullAt(k, Len(q[c[k]]))
    BY DEF Packed
  <2>1. k \in 0 .. n /\ k # n
    OBVIOUS
  <2>2. q[c[k]] = r[c[k]]
    BY <1>7, <2>1
  <2>3. FullAt(k, Len(r[c[k]]))
    BY DEF Packed
  <2> QED BY <2>2, <2>3
<1>20. Len(q[d]) = l + 1
  BY <1>5, <1>6
<1>21. InOrder(n, c, Added(r, c[n], x), g, Append(s, x))
  BY <1>1, <1>3, <1>15, <1>18
<1> QED BY <1>1, <1>2, <1>3, <1>6, <1>19, <1>20, <1>21

(* The files the walk shows.                                               *)
LEMMA ShownInOrder ==
  ASSUME DirectoryInv, NEW s, Chained(s)
  PROVE  vfsList = s
<1>1. SectorInv /\ refs \in [Sector -> Seq(Sector)]
  BY DEF DirectoryInv, DirectoryTypeOK
<1>2. PICK n \in Nat : \E c, f :
        IsChain(n, c) /\ Packed(n, c, refs) /\ InOrder(n, c, refs, f, s)
  BY DEF Chained
<1>3. PICK c, f : IsChain(n, c) /\ Packed(n, c, refs) /\ InOrder(n, c, refs, f, s)
  BY <1>2
<1>4. \A i \in 0 .. n : c[i] \in Sector
  BY <1>3 DEF IsChain, Headers
<1>5. /\ f \in [0 .. n + 1 -> Nat] /\ f[0] = 0
      /\ \A k \in 0 .. n : f[k + 1] = f[k] + Len(refs[c[k]])
      /\ s \in Seq(Sector) /\ Len(s) = f[n + 1] /\ Len(s) \in Nat
      /\ \A k \in 0 .. n : \A a \in Places(c, refs, k) :
           f[k] + a \in 1 .. Len(s) /\ s[f[k] + a] = Ref(c, refs, k, a)
  BY <1>3 DEF InOrder
<1>6. PICK M \in Nat : M = MaxHops /\ n < M
  BY <1>1, <1>3, MaxHopsType, ChainFits
<1>7. /\ Weight \in [0 .. M -> Nat]
      /\ \A k \in 0 .. M : k <= n => Weight[k] = Len(refs[c[k]])
  BY <1>1, <1>3, <1>6, WeightOfChain
<1>8. Sums(M, Weight, Counter)
  BY <1>6, <1>7, CounterSums
<1>9. \A k \in 0 .. n + 1 : Counter[k] = f[k]
  <2> DEFINE Bad == {k \in 0 .. n + 1 : Counter[k] # f[k]}
  <2> SUFFICES ASSUME Bad # {} PROVE FALSE
    OBVIOUS
  <2>1. PICK k \in Bad : \A j \in Bad : k <= j
    <3>1. Bad \subseteq Nat
      OBVIOUS
    <3> HIDE DEF Bad
    <3> QED BY <3>1, LeastExists
  <2>2. Counter[0] = 0
    BY <1>8 DEF Sums
  <2>3. k # 0
    BY <1>5, <2>1, <2>2
  <2>4. PICK j \in Nat : k = j + 1
    BY <2>1, <2>3
  <2>5. j \in 0 .. n /\ j \in 0 .. n + 1 /\ j \in 0 .. M /\ j <= n
    BY <1>6, <2>1, <2>4
  <2>6. Counter[j] = f[j]
    BY <2>1, <2>4, <2>5
  <2>7. Counter[j + 1] = Counter[j] + Weight[j]
    BY <1>8, <2>5 DEF Sums
  <2>8. f[j + 1] = f[j] + Weight[j]
    BY <1>5, <1>7, <2>5
  <2> QED BY <2>1, <2>4, <2>6, <2>7, <2>8
<1>10. PICK t \in Nat : t = fsDirectoryGetTotalSize
  BY <1>6, <1>8 DEF Sums, fsDirectoryGetTotalSize
<1>11. Len(s) <= t
  <2>1. n + 1 \in 0 .. M + 1 /\ M + 1 \in 0 .. M + 1 /\ n + 1 <= M + 1 /\ n + 1 \in 0 .. n + 1
    BY <1>6
  <2>2. Counter[n + 1] <= Counter[M + 1]
    BY <1>6, <1>7, <1>8, <2>1, SumsMonotone
  <2>3. Counter[n + 1] = Len(s)
    BY <1>5, <1>9, <2>1
  <2> QED BY <1>6, <1>10, <2>2, <2>3 DEF fsDirectoryGetTotalSize
<1>12. ASSUME NEW y \in 1 .. t PROVE y \in 1 .. Len(s) /\ fsDirectoryFindByIndex(y - 1) = s[y]
  <2>1. PICK k \in 0 .. n : \E a \in Places(c, refs, k) : y = Counter[k] + a
    BY <1>1, <1>3, <1>10, PlaceOf
  <2>2. PICK a \in Places(c, refs, k) : y = Counter[k] + a
    BY <2>1
  <2>3. fsDirectoryFindByIndex(Counter[k] + a - 1) = Ref(c, refs, k, a)
    BY <1>1, <1>3, FoundAt
  <2>4. Counter[k] = f[k]
    BY <1>9
  <2>5. y = f[k] + a
    BY <2>2, <2>4
  <2>6. f[k] + a \in 1 .. Len(s) /\ s[f[k] + a] = Ref(c, refs, k, a)
    BY <1>5
  <2>7. y \in 1 .. Len(s) /\ s[y] = Ref(c, refs, k, a)
    BY <2>5, <2>6
  <2>8. fsDirectoryFindByIndex(y - 1) = Ref(c, refs, k, a)
    <3>1. PICK b \in Nat : b = Counter[k]
      BY <1>5, <2>4
    <3>2. a \in Int
      <4>1. refs[c[k]] \in Seq(Sector)
        BY <1>1, <1>4
      <4> QED BY <4>1 DEF Places
    <3>3. b + a - 1 = y - 1
      BY <2>2, <3>1, <3>2
    <3>4. fsDirectoryFindByIndex(b + a - 1) = Ref(c, refs, k, a)
      BY <2>3, <3>1
    <3> QED BY <3>3, <3>4
  <2> QED BY <2>7, <2>8
<1>13. t = Len(s)
  <2>1. t = 0 \/ t \in 1 .. t
    BY <1>10
  <2>2. t \in 1 .. t => t <= Len(s)
    BY <1>12
  <2> QED BY <1>5, <1>10, <1>11, <2>1, <2>2
<1>14. vfsList = [y \in 1 .. t |-> s[y]]
  BY <1>10, <1>12 DEF vfsList
<1>15. s = [y \in 1 .. t |-> s[y]]
  BY <1>5, <1>13
<1> QED BY <1>14, <1>15

LEMMA FullMore ==
  ASSUME NEW k, NEW l \in Nat, FullAt(k, l)
  PROVE  FullAt(k, l + 1)
<1>1. PICK b \in Nat : b = IF k = 0 THEN 1 ELSE 2
  OBVIOUS
<1>2. RefSize \in Nat /\ SectorSize \in Nat
  BY DirectoryAssumption, SectorsAssumption
<1>3. (l + b) * RefSize >= SectorSize
  BY <1>1 DEF FullAt
<1>4. (l + 1 + b) * RefSize = (l + b) * RefSize + RefSize
  BY <1>2
<1>5. (l + b) * RefSize \in Nat
  BY <1>2
<1>6. (l + 1 + b) * RefSize >= SectorSize
  BY <1>2, <1>3, <1>4, <1>5
<1> QED BY <1>1, <1>6 DEF FullAt

(* A file is created: the chain does not notice.                           *)
LEMMA CreatedInOrder ==
  ASSUME DirectoryInv, NEW s, Chained(s), NEW z \in Sizes, fsAllocate(z),
         next' = [next EXCEPT ![result'] = 0], parent' = [parent EXCEPT ![result'] = 0],
         refs' = refs \/ refs' = [refs EXCEPT ![result'] = <<>>]
  PROVE  Chained(s)'
<1>1. /\ SectorInv /\ refs \in [Sector -> Seq(Sector)]
      /\ next \in [Sector -> Sector] /\ parent \in [Sector -> Sector]
  BY DEF DirectoryInv, DirectoryTypeOK
<1>2. PICK n \in Nat : \E c, f :
        IsChain(n, c) /\ Packed(n, c, refs) /\ InOrder(n, c, refs, f, s)
  BY DEF Chained
<1>3. PICK c, f : IsChain(n, c) /\ Packed(n, c, refs) /\ InOrder(n, c, refs, f, s)
  BY <1>2
<1>4. PICK h : h = result'
  OBVIOUS
<1>5. /\ h \in Sector /\ h # 0 /\ h \notin Headers /\ Headers' = Headers \cup {h}
      /\ (\A g \in Headers : size'[g] = size[g]) /\ root' = root
  BY <1>1, <1>4, Allocated
<1>6. \A i \in 0 .. n : c[i] \in Headers /\ c[i] \in Sector /\ c[i] # h
  BY <1>3, <1>5 DEF IsChain, Headers
<1>7. /\ next' = [next EXCEPT ![h] = 0] /\ parent' = [parent EXCEPT ![h] = 0]
      /\ refs' = refs \/ refs' = [refs EXCEPT ![h] = <<>>]
  BY <1>4
<1>8. \A i \in 0 .. n : /\ next'[c[i]] = next[c[i]] /\ parent'[c[i]] = parent[c[i]]
                         /\ refs'[c[i]] = refs[c[i]]
  BY <1>1, <1>6, <1>7
<1>9. IsChain(n, c)'
  BY <1>3, <1>5, <1>6, <1>8, ChainKept
<1>10. InOrder(n, c, refs', f, s) /\ Packed(n, c, refs')
  BY <1>3, <1>8, OrderSame
<1> QED BY <1>9, <1>10 DEF Chained

(* A file is added: it follows the others.                                 *)
LEMMA AddedInOrder ==
  ASSUME DirectoryInv, NEW s, Chained(s), AddFile, formatted', NEW x, x = held
  PROVE  Chained(Append(s, x))'
<1>1. /\ SectorInv /\ refs \in [Sector -> Seq(Sector)] /\ x \in Sector
      /\ next \in [Sector -> Sector] /\ parent \in [Sector -> Sector]
  BY DEF DirectoryInv, DirectoryTypeOK
<1>2. PICK n \in Nat : \E c, f :
        IsChain(n, c) /\ Packed(n, c, refs) /\ InOrder(n, c, refs, f, s)
  BY DEF Chained
<1>3. PICK c, f : IsChain(n, c) /\ Packed(n, c, refs) /\ InOrder(n, c, refs, f, s)
  BY <1>2
<1>4. /\ \A i \in 0 .. n : c[i] \in Headers /\ c[i] \in Sector /\ c[i] # 0
      /\ \A i, j \in 0 .. n : c[i] = c[j] => i = j
      /\ root = c[0] /\ next[c[n]] = 0
  BY <1>1, <1>3, BlockFacts DEF IsChain, Headers
<1>5. PICK l \in Nat : l = Len(refs[c[n]])
  BY <1>1, <1>4
<1>6. \A k \in 0 .. n - 1 : FullAt(k, Len(refs[c[k]]))
  BY <1>3 DEF Packed
<1>7. DirectoryFull <=> FullAt(0, Len(refs[c[0]]))
  BY <1>4 DEF DirectoryFull, FullAt, fsDirectoryGetReferenceCount
<1>8. ASSUME NEW k \in 1 .. n PROVE ExtentFull(c[k]) <=> FullAt(k, Len(refs[c[k]]))
  <2>1. k # 0
    OBVIOUS
  <2> QED BY <2>1 DEF ExtentFull, FullAt, fsDirectoryGetReferenceCount
(* No block is linked.                                                     *)
<1>9. ASSUME sectorVars' = sectorVars, next' = next, parent' = parent,
             refs' = Added(refs, c[n], x)
      PROVE  Chained(Append(s, x))'
  <2>1. Headers' = Headers /\ size' = size /\ root' = root
    BY <1>9 DEF sectorVars, Headers
  <2>2. IsChain(n, c)'
    BY <1>3, <1>4, <1>9, <2>1, ChainKept
  <2>3. /\ \E g : InOrder(n, c, Added(refs, c[n], x), g, Append(s, x))
        /\ Packed(n, c, Added(refs, c[n], x))
    BY <1>1, <1>3, <1>4, OrderAppended
  <2>4. (\E g : InOrder(n, c, refs', g, Append(s, x))) /\ Packed(n, c, refs')
    BY <1>9, <2>3
  <2> QED BY <2>2, <2>4 DEF Chained
<1>10. CASE AddToDirectory
  <2>1. /\ ~DirectoryFull /\ sectorVars' = sectorVars /\ next' = next /\ parent' = parent
        /\ refs' = Added(refs, root, x)
    BY <1>10 DEF AddToDirectory, Added
  <2>2. n = 0
    <3>1. ~(0 \in 0 .. n - 1)
      BY <1>6, <1>7, <2>1
    <3> QED BY <3>1
  <2> QED BY <1>4, <1>9, <2>1, <2>2
<1>11. CASE AddToExtent
  <2>1. /\ next[root] # 0 /\ ~ExtentFull(Target)
        /\ sectorVars' = sectorVars /\ next' = next /\ parent' = parent
        /\ refs' = Added(refs, Target, x)
    BY <1>11 DEF AddToExtent, Added
  <2>2. PICK k \in 1 .. n : Target = c[k]
    BY <1>1, <1>3, <2>1, TargetOfChain
  <2>3. ~(k \in 0 .. n - 1)
    BY <1>6, <1>8, <2>1, <2>2
  <2>4. k = n
    BY <2>3
  <2> QED BY <1>9, <2>1, <2>2, <2>4
<1>12. PICK h : h = result'
  OBVIOUS
<1>13. PICK r : r = Cleared(refs, h)
  OBVIOUS
<1>14. ASSUME fsAllocate(DirSize), fsDirectoryExtentCreate(c[n])
       PROVE  /\ IsChain(n + 1, Longer(n, c, h))' /\ h \in Sector
              /\ r \in [Sector -> Seq(Sector)] /\ r[h] = <<>>
              /\ \A i \in 0 .. n : r[c[i]] = refs[c[i]] /\ c[i] # h
  <2>1. DirSize \in Sizes
    BY SectorsAssumption
  <2>2. /\ h \in Sector /\ h # 0 /\ h \notin Headers
        /\ Headers' = Headers \cup {h}
        /\ size'[h] = DirSize /\ \A g \in Headers : size'[g] = size[g]
        /\ root' = root
    BY <1>1, <1>12, <1>14, <2>1, Allocated
  <2>3. /\ next' = [next EXCEPT ![c[n]] = h, ![h] = 0]
        /\ parent' = [parent EXCEPT ![h] = c[n]]
    BY <1>12, <1>14 DEF fsDirectoryExtentCreate, fsFileSetParentAddress
  <2>4. IsChain(n + 1, Longer(n, c, h))'
    BY <1>1, <1>3, <2>2, <2>3, ChainLonger
  <2>5. <<>> \in Seq(Sector)
    OBVIOUS
  <2>6. r \in [Sector -> Seq(Sector)] /\ \A g \in Sector : g # h => r[g] = refs[g]
    BY <1>1, <1>13, <2>5, Updated DEF Cleared
  <2>7. r[h] = <<>>
    BY <1>1, <1>13, <2>2 DEF Cleared
  <2>8. \A i \in 0 .. n : c[i] # h
    BY <1>4, <2>2
  <2> QED BY <1>4, <2>2, <2>4, <2>6, <2>7, <2>8
<1>15. CASE AddFirstExtent
  <2>1. /\ DirectoryFull /\ next[root] = 0 /\ fsAllocate(DirSize)
        /\ refs' = [refs EXCEPT ![h] = <<x>>] /\ fsDirectoryExtentCreate(root)
    BY <1>12, <1>15 DEF AddFirstExtent
  <2>2. n = 0
    <3> SUFFICES ASSUME n # 0 PROVE FALSE
      OBVIOUS
    <3>1. 0 \in 0 .. n - 1 /\ 1 \in 0 .. n /\ 0 + 1 = 1
      OBVIOUS
    <3>2. next[c[0]] = c[1]
      BY <1>3, <3>1 DEF IsChain
    <3> QED BY <1>4, <2>1, <3>1, <3>2
  <2>3. /\ IsChain(n + 1, Longer(n, c, h))' /\ h \in Sector
        /\ r \in [Sector -> Seq(Sector)] /\ r[h] = <<>>
        /\ \A i \in 0 .. n : r[c[i]] = refs[c[i]] /\ c[i] # h
    BY <1>4, <1>14, <2>1, <2>2
  <2>4. InOrder(n, c, r, f, s) /\ Packed(n, c, r)
    BY <1>3, <2>3, OrderSame
  <2>5. FullAt(n, Len(r[c[n]]))
    BY <1>7, <2>1, <2>2, <2>3
  <2>6. PICK e : e = Longer(n, c, h)
    OBVIOUS
  <2>7. (\E g : InOrder(n + 1, e, r, g, s)) /\ Packed(n + 1, e, r)
    BY <1>4, <2>3, <2>4, <2>5, <2>6, OrderLonger
  <2>8. PICK g : InOrder(n + 1, e, r, g, s)
    BY <2>7
  <2>9. IsChain(n + 1, e)'
    BY <2>3, <2>6
  <2>10. /\ \A i \in 0 .. n + 1 : e[i] \in Sector
         /\ \A i, j \in 0 .. n + 1 : e[i] = e[j] => i = j
    <3>1. e \in [0 .. n + 1 -> Headers'] /\ \A i, j \in 0 .. n + 1 : e[i] = e[j] => i = j
      BY <2>9 DEF IsChain
    <3>2. Headers' \subseteq Sector
      BY DEF Headers
    <3> QED BY <3>1, <3>2
  <2>11. e[n + 1] = h /\ n + 1 \in Nat
    BY <2>6, LongerAt
  <2>12. /\ \E q : InOrder(n + 1, e, Added(r, h, x), q, Append(s, x))
         /\ Packed(n + 1, e, Added(r, h, x))
    BY <1>1, <2>3, <2>7, <2>8, <2>10, <2>11, OrderAppended
  <2>13. refs' = Added(r, h, x)
    <3>1. Append(<<>>, x) = <<x>>
      OBVIOUS
    <3>2. Added(r, h, x) = [r EXCEPT ![h] = <<x>>]
      BY <2>3, <3>1 DEF Added
    <3>3. [r EXCEPT ![h] = <<x>>] = [refs EXCEPT ![h] = <<x>>]
      BY <1>1, <1>13, <2>3 DEF Cleared
    <3> QED BY <2>1, <3>2, <3>3
  <2>14. (\E q : InOrder(n + 1, e, refs', q, Append(s, x))) /\ Packed(n + 1, e, refs')
    BY <2>12, <2>13
  <2> QED BY <2>9, <2>11, <2>14 DEF Chained
<1>16. CASE AddNextExtent
  <2>1. /\ next[root] # 0 /\ ExtentFull(Target) /\ fsAllocate(DirSize)
        /\ refs' = [refs EXCEPT ![h] = <<>>, ![Target] = Append(@, x)]
        /\ fsDirectoryExtentCreate(Target)
    BY <1>12, <1>16 DEF AddNextExtent
  <2>2. Target = c[n] /\ n \in 1 .. n
    BY <1>1, <1>3, <2>1, TargetOfChain
  <2>3. /\ IsChain(n + 1, Longer(n, c, h))' /\ h \in Sector
        /\ r \in [Sector -> Seq(Sector)] /\ r[h] = <<>>
        /\ \A i \in 0 .. n : r[c[i]] = refs[c[i]] /\ c[i] # h
    BY <1>14, <2>1, <2>2
  <2>4. InOrder(n, c, r, f, s) /\ Packed(n, c, r)
    BY <1>3, <2>3, OrderSame
  <2>5. PICK q : q = Added(r, c[n], x)
    OBVIOUS
  <2>6. PICK t : t = Append(s, x)
    OBVIOUS
  <2>7. /\ \E g : InOrder(n, c, q, g, t)
        /\ Packed(n, c, q) /\ q \in [Sector -> Seq(Sector)]
        /\ Len(q[c[n]]) = Len(r[c[n]]) + 1
        /\ \A d \in Sector : d # c[n] => q[d] = r[d]
    <3>1. \A i \in 0 .. n : c[i] \in Sector
      BY <1>4
    <3>2. \A i, j \in 0 .. n : c[i] = c[j] => i = j
      BY <1>4
    <3>3. r \in [Sector -> Seq(Sector)] /\ x \in Sector
      BY <1>1, <2>3
    <3>4. InOrder(n, c, r, f, s)
      BY <2>4
    <3>5. Packed(n, c, r)
      BY <2>4
    <3>6. /\ \E g : InOrder(n, c, Added(r, c[n], x), g, Append(s, x))
          /\ Packed(n, c, Added(r, c[n], x))
      BY <3>1, <3>2, <3>3, <3>4, <3>5, OrderAppended
    <3>7. Added(r, c[n], x) \in [Sector -> Seq(Sector)]
      BY <3>1, <3>2, <3>3, <3>4, <3>5, OrderAppended
    <3>8. Len(Added(r, c[n], x)[c[n]]) = Len(r[c[n]]) + 1
      BY <3>1, <3>2, <3>3, <3>4, <3>5, OrderAppended
    <3>9. \A d \in Sector : d # c[n] => Added(r, c[n], x)[d] = r[d]
      BY <3>3 DEF Added
    <3> QED BY <2>5, <2>6, <3>6, <3>7, <3>8, <3>9
  <2>8. PICK g : InOrder(n, c, q, g, t)
    BY <2>7
  <2>9. FullAt(n, Len(q[c[n]]))
    <3>1. FullAt(n, l)
      BY <1>5, <1>8, <2>1, <2>2
    <3>2. r[c[n]] = refs[c[n]]
      BY <2>2, <2>3
    <3>3. Len(q[c[n]]) = l + 1
      BY <1>5, <2>7, <3>2
    <3> QED BY <3>1, <3>3, FullMore
  <2>10. q[h] = <<>>
    BY <2>3, <2>7
  <2>11. /\ \E j : InOrder(n + 1, Longer(n, c, h), q, j, t)
         /\ Packed(n + 1, Longer(n, c, h), q)
    BY <1>4, <2>3, <2>7, <2>8, <2>9, <2>10, OrderLonger
  <2>12. refs' = q
    <3>1. PICK d : d = c[n] /\ d \in Sector /\ d # h
      BY <1>4, <2>3
    <3>2. refs' = [refs EXCEPT ![h] = <<>>, ![d] = Append(@, x)]
      BY <2>1, <2>2, <3>1
    <3>3. q = [r EXCEPT ![d] = Append(@, x)]
      BY <2>5, <3>1 DEF Added
    <3> QED BY <1>1, <1>13, <2>3, <3>1, <3>2, <3>3 DEF Cleared
  <2>13. n + 1 \in Nat
    OBVIOUS
  <2>14. Chained(t)'
    BY <2>3, <2>11, <2>12, <2>13 DEF Chained
  <2> QED BY <2>6, <2>14
<1>17. ~AddFirstExtentFails /\ ~AddNextExtentFails
  BY DEF AddFirstExtentFails, AddNextExtentFails
<1> QED BY <1>10, <1>11, <1>15, <1>16, <1>17 DEF AddFile

-----------------------------------------------------------------------------
(* Room: while all the sectors from t on are free, a block that fits there *)
(* is had, and leaves those after it free.                                 *)
FreeFrom(t) == \A i \in Sector : i >= t => marker[i] = SECTOR_FREE

LEMMA RoomFits ==
  ASSUME SectorInv, NEW n \in Nat, NEW t \in Nat, FreeFrom(t), t + n < SectorCount
  PROVE  FirstFit(marker, n) # 0 /\ FirstFit(marker, n) \in Nat /\ FirstFit(marker, n) <= t
<1>1. SectorCount \in Nat
  BY DirectoryData
<1>2. \A a \in 0 .. n : t + a \in Sector
  BY <1>1 DEF Sector
<1>3. Fits(marker, t, n)
  BY <1>2 DEF Fits, MarkerAt, FreeFrom
<1>4. t \in Sector
  BY <1>1 DEF Sector
<1>5. t \in Candidates(marker, n)
  BY <1>3, <1>4, SectorInScan DEF Candidates
<1>6. marker[0] # SECTOR_FREE
  BY ZeroSector, SectorsAssumption DEF SectorInv, HeaderKept
<1>7. FirstFit(marker, n) # 0
  BY <1>3, <1>4, <1>6, NoFit
<1>8. Candidates(marker, n) \subseteq Nat
  BY DEF Candidates
<1>9. \E i \in Candidates(marker, n) : \A j \in Candidates(marker, n) : i <= j
  BY <1>5, <1>8, LeastExists
<1>10. FirstFit(marker, n) <= t
  BY <1>5, <1>9 DEF FirstFit
<1> QED BY <1>7, <1>10, FirstFitFits

LEMMA RoomTaken ==
  ASSUME SectorInv, NEW z \in Sizes, NEW t \in Nat, FreeFrom(t),
         t + DataSectors(z) < SectorCount, fsAllocate(z)
  PROVE  FreeFrom(t + DataSectors(z) + 1)'
<1>1. PICK n \in Nat : n = DataSectors(z)
  BY SectorsAssumption, DataSectorsType
<1>2. PICK h \in Nat : h = FirstFit(marker, n) /\ h <= t
  BY <1>1, RoomFits
<1>3. marker' = [i \in Sector |-> IF i = h THEN SECTOR_HEADER
                                  ELSE IF i \in h + 1 .. h + n THEN SECTOR_USED
                                  ELSE marker[i]]
  BY <1>1, <1>2 DEF fsAllocate, Taken
<1>4. ASSUME NEW i \in Sector, i >= t + n + 1 PROVE marker'[i] = SECTOR_FREE
  <2>1. i \in Int
    BY DEF Sector
  <2>2. i # h /\ i \notin h + 1 .. h + n /\ i >= t
    BY <1>2, <1>4, <2>1
  <2> QED BY <1>3, <2>2 DEF FreeFrom
<1> QED BY <1>1, <1>4 DEF FreeFrom

LEMMA RoomLess ==
  ASSUME NEW t \in Nat, NEW u \in Nat, t <= u, FreeFrom(t)
  PROVE  FreeFrom(u)
<1>1. \A i \in Sector : i \in Int
  BY DEF Sector
<1> QED BY <1>1 DEF FreeFrom

(* A file is added.  It needs an extent only when the directory is full.   *)
LEMMA AddedRoom ==
  ASSUME SectorInv, AddFile, NEW t \in Nat, FreeFrom(t),
         DirectoryFull => t + DataSectors(DirSize) < SectorCount
  PROVE  /\ formatted' = formatted
         /\ ~DirectoryFull => FreeFrom(t)'
         /\ DirectoryFull => FreeFrom(t + DataSectors(DirSize) + 1)'
<1>1. DirSize \in Sizes
  BY SectorsAssumption
<1>2. PICK n \in Nat : n = DataSectors(DirSize)
  BY DirectoryData
<1>3. ASSUME sectorVars' = sectorVars PROVE FreeFrom(t)'
  BY <1>3 DEF sectorVars, FreeFrom
<1>4. ASSUME sectorVars' = sectorVars PROVE FreeFrom(t + n + 1)'
  <2>1. t + n + 1 \in Nat /\ t <= t + n + 1
    OBVIOUS
  <2>2. FreeFrom(t + n + 1)
    BY <2>1, RoomLess
  <2> QED BY <1>4, <2>2 DEF sectorVars, FreeFrom
<1>5. CASE AddToDirectory \/ AddToExtent
  <2>1. formatted' = formatted /\ sectorVars' = sectorVars
    BY <1>5 DEF AddToDirectory, AddToExtent
  <2> QED BY <1>2, <1>3, <1>4, <2>1
<1>6. CASE AddFirstExtent \/ AddNextExtent
  <2>1. formatted' = formatted /\ DirectoryFull /\ fsAllocate(DirSize)
    BY <1>6 DEF AddFirstExtent, AddNextExtent
  <2>2. FreeFrom(t + DataSectors(DirSize) + 1)'
    BY <1>1, <2>1, RoomTaken
  <2> QED BY <2>1, <2>2
<1>7. CASE AddFirstExtentFails \/ AddNextExtentFails
  <2>1. DirectoryFull /\ FirstFit(marker, DataSectors(DirSize)) = 0
    BY <1>7 DEF AddFirstExtentFails, AddNextExtentFails, fsAllocateFails
  <2>2. FirstFit(marker, n) # 0
    BY <1>2, <2>1, RoomFits
  <2> QED BY <1>2, <2>1, <2>2
<1> QED BY <1>5, <1>6, <1>7 DEF AddFile

(* The root directory holds some of the references.                        *)
LEMMA RootCount ==
  ASSUME DirectoryInv, NEW s, Chained(s)
  PROVE  /\ s \in Seq(Sector) /\ Len(refs[root]) \in Nat
         /\ Len(refs[root]) <= Len(s)
<1>1. SectorInv /\ refs \in [Sector -> Seq(Sector)]
  BY DEF DirectoryInv, DirectoryTypeOK
<1>2. PICK n \in Nat : \E c, f :
        IsChain(n, c) /\ Packed(n, c, refs) /\ InOrder(n, c, refs, f, s)
  BY DEF Chained
<1>3. PICK c, f : IsChain(n, c) /\ Packed(n, c, refs) /\ InOrder(n, c, refs, f, s)
  BY <1>2
<1>4. 0 \in 0 .. n
  OBVIOUS
<1>5. c[0] = root /\ root \in Sector
  BY <1>3, <1>4 DEF IsChain, Headers
<1>6. PICK r \in Seq(Sector) : r = refs[root]
  BY <1>1, <1>5
<1>7. PICK l \in Nat : l = Len(r)
  OBVIOUS
<1>8. DOMAIN r = 1 .. l
  BY <1>7
<1>9. s \in Seq(Sector) /\ f[0] = 0 /\ \A a \in 1 .. l : f[0] + a \in 1 .. Len(s)
  BY <1>3, <1>4, <1>5, <1>6, <1>8 DEF InOrder, Places
<1>10. Len(s) \in Nat
  BY <1>9
<1>11. l <= Len(s)
  <2>1. CASE l = 0
    BY <1>10, <2>1
  <2>2. CASE l # 0
    <3>1. l \in 1 .. l
      BY <2>2
    <3>2. 0 + l \in 1 .. Len(s)
      BY <1>9, <3>1
    <3> QED BY <1>10, <3>2
  <2> QED BY <2>1, <2>2
<1> QED BY <1>6, <1>7, <1>9, <1>11

(* A device just formatted: no references, and room after the directory.   *)
LEMMA FreshChained == Init /\ EmptyDirectory => Chained(<<>>)
<1> SUFFICES ASSUME Init, EmptyDirectory PROVE Chained(<<>>)
  OBVIOUS
<1> DEFINE c == [i \in 0 .. 0 |-> root]
           f == [i \in 0 .. 0 + 1 |-> 0]
<1>1. SectorInv /\ Headers = {1}
  BY FormatInv DEF Init
<1>2. refs[root] = <<>> /\ next[root] = 0
  BY DEF EmptyDirectory
<1>3. root = 1 /\ size[root] = DirSize
  <2>1. /\ root = FormatRoot
        /\ size = [i \in Sector |-> IF i = FormatRoot THEN DirSize ELSE 0]
    BY DEF Init
  <2>2. root \in Sector
    BY <1>1 DEF SectorInv, TypeOK
  <2> QED BY <2>1, <2>2, RootIsFirst
<1>4. 0 .. 0 = {0} /\ 0 .. 0 - 1 = {} /\ 0 + 1 \in 0 .. 0 + 1 /\ 0 \in 0 .. 0 + 1
  OBVIOUS
<1>5. c[0] = root /\ c \in [0 .. 0 -> Headers]
  BY <1>1, <1>3
<1>6. f \in [0 .. 0 + 1 -> Nat] /\ f[0] = 0 /\ f[0 + 1] = 0
  BY <1>4
<1> HIDE DEF c, f
<1>7. IsChain(0, c)
  BY <1>2, <1>3, <1>4, <1>5 DEF IsChain
<1>8. Packed(0, c, refs)
  BY <1>4 DEF Packed
<1>9. <<>> \in Seq(Sector) /\ Len(<<>>) = 0 /\ DOMAIN <<>> = {}
  OBVIOUS
<1>10. refs[c[0]] = <<>>
  BY <1>2, <1>5
<1>11. \A k \in 0 .. 0 : f[k + 1] = f[k] + Len(refs[c[k]])
  BY <1>4, <1>6, <1>9, <1>10
<1>12. \A k \in 0 .. 0 : Places(c, refs, k) = {}
  BY <1>4, <1>9, <1>10 DEF Places
<1>13. InOrder(0, c, refs, f, <<>>)
  BY <1>6, <1>9, <1>11, <1>12 DEF InOrder
<1> QED BY <1>7, <1>8, <1>13 DEF Chained

LEMMA FreshRoom == Init => FreeFrom(DataSectors(DirSize) + 2)
<1> SUFFICES ASSUME Init, NEW i \in Sector, i >= DataSectors(DirSize) + 2
             PROVE  marker[i] = SECTOR_FREE
  BY DEF FreeFrom
<1>1. PICK n \in Nat : n = DataSectors(DirSize)
  BY DirectoryData
<1>2. i \in Nat /\ i >= n + 2
  BY <1>1 DEF Sector
<1>3. i # 1 /\ i \notin 1 + 1 .. 1 + n /\ i # 0
  BY <1>2
<1>4. marker = Taken(Blank, 1, n)
  BY <1>1, RootIsFirst DEF Init
<1> QED BY <1>3, <1>4 DEF Taken, Blank

-----------------------------------------------------------------------------
(* The operations keep every field of the directory of its type.           *)
THEOREM DirectoryTypeCorrect == DirectorySpec => []DirectoryTypeOK
<1>1. DirectoryInv => DirectoryTypeOK
  BY DEF DirectoryInv
<1> QED BY InitDirectory, DirectoryStep, <1>1, PTL DEF DirectorySpec

(* fsDirectoryExtentCreate and the unlinking in fsDirectoryRemoveFile keep *)
(* the extents one doubly linked chain of live blocks, and every loop over *)
(* it ends.                                                                *)
THEOREM ChainCorrect == DirectorySpec => []ChainLinked
BY InitDirectory, DirectoryStep, InvChainLinked, PTL DEF DirectorySpec

(* fsDirectoryAddFile and fsDirectoryRemoveFile leak no block: each one on *)
(* the device is the directory's, or a listed file's, or the one held.     *)
THEOREM AccountCorrect == DirectorySpec => []BlocksAccounted
BY InitDirectory, DirectoryStep, InvBlocksAccounted, PTL DEF DirectorySpec

(* What vfsList shows with fsDirectoryFindByIndex, index by index up to    *)
(* fsDirectoryGetTotalSize, is what was added and not removed, each once.  *)
THEOREM ContentsCorrect == DirectorySpec => []ContentsListed
BY InitDirectory, DirectoryStep, InvContentsListed, PTL DEF DirectorySpec

(* Used by the directory, which frees an extent and its last file in one   *)
(* call, the blocks stay whole and no sector is orphaned.                  *)
THEOREM DirectoryKeepsSectors == DirectorySpec => [](BlocksWhole /\ NoOrphans)
<1>1. DirectoryInv => BlocksWhole /\ NoOrphans
  BY DEF DirectoryInv, SectorInv
<1> QED BY InitDirectory, DirectoryStep, <1>1, PTL DEF DirectorySpec
=============================================================================
