------------------------------- MODULE Sectors ------------------------------
(***************************************************************************)
(* The sectors of a formatted device and the allocator that hands them out *)
(* (kernel/fs/basefs/fs.c, fsDevice.c).  The first byte of every sector is *)
(* its marker; a block is one header sector followed by data sectors, and  *)
(* its length is recomputed from the size stored in its header when it is  *)
(* freed.  A handle is an address in the code; here it is the number of    *)
(* the sector at that address, and 0 still means failure.                  *)
(***************************************************************************)
EXTENDS Integers

CONSTANTS
  SectorCount,   (* part.sector_count                                   *)
  SectorSize,    (* part.sector_size                                    *)
  DirSize,       (* the size of a directory and of an extent (30)       *)
  Sizes,         (* the sizes asked for, DirSize among them             *)
  SECTOR_FREE, SECTOR_HEADER, SECTOR_USED,
  DEVICE,        (* the marker of sector 0: DeviceHeaderString[0], 0x13 *)
  OUTSIDE        (* what the scan reads past the end of the partition   *)

(* The bytes a data sector holds beside its marker.                        *)
Payload == SectorSize - 1

(* The data sectors of a block of s bytes, as fsAllocate counts them.      *)
DataSectors(s) == s \div Payload + 1

(* The RAM test leaves 0xAA, which is no marker, in the memory outside the *)
(* partition, and nothing behind it answers SECTOR_FREE at the address of  *)
(* a sector.                                                               *)
ASSUME SectorsAssumption ==
  /\ SectorCount \in Nat
  /\ SectorSize \in Nat /\ SectorSize > 1
  /\ Sizes \subseteq Nat
  /\ DirSize \in Sizes
  /\ SectorCount > DataSectors(DirSize) + 1
  /\ SECTOR_FREE \notin {SECTOR_HEADER, SECTOR_USED, DEVICE, OUTSIDE}
  /\ SECTOR_HEADER \notin {SECTOR_USED, DEVICE}
  /\ SECTOR_USED # DEVICE

Sector    == 0 .. SectorCount - 1
BlockSize == SectorCount * SectorSize
Marker    == {SECTOR_FREE, SECTOR_HEADER, SECTOR_USED, DEVICE}

VARIABLES
  marker,  (* the first byte of each sector                             *)
  size,    (* the size field of each header sector, 0 once freed        *)
  root,    (* the root pointer in the device header                     *)
  result   (* the handle the last fsAllocate returned                   *)

sectorVars == <<marker, size, root, result>>

-----------------------------------------------------------------------------
(* Slip: nothing past the partition stops the scan.                        *)
MarkerAtUnchecked(m, i) == IF i \in Sector THEN m[i] ELSE SECTOR_FREE

(* The marker of sector i of a device whose markers are m.                 *)
MarkerAt(m, i) == IF i \in Sector THEN m[i] ELSE OUTSIDE

(* Slip: the header sector is not counted.                                 *)
FitsShort(m, i, n) == \A a \in 0 .. n - 1 : MarkerAt(m, i + a) = SECTOR_FREE

(* The inner loop of fsAllocate: the header sector and n data sectors.     *)
Fits(m, i, n) == \A a \in 0 .. n : MarkerAt(m, i + a) = SECTOR_FREE

(* Slip: the scan stops one sector before the last place a block can be.   *)
CandidatesShort(m, n) == {i \in 0 .. SectorCount - n - 2 : Fits(m, i, n)}

(* The outer loop runs to part.block_size, which counts bytes, so it reads *)
(* markers far outside the partition.                                      *)
Candidates(m, n) == {i \in 0 .. BlockSize - 1 : Fits(m, i, n)}

(* The first fit, or 0.                                                    *)
FirstFit(m, n) ==
  IF Candidates(m, n) = {} THEN 0
  ELSE CHOOSE i \in Candidates(m, n) : \A j \in Candidates(m, n) : i <= j

(* The markers once a block of n data sectors is written at h.             *)
Taken(m, h, n) ==
  [i \in Sector |-> IF i = h THEN SECTOR_HEADER
                    ELSE IF i \in h + 1 .. h + n THEN SECTOR_USED
                    ELSE m[i]]

(* The sectors of the block with handle h, as fsFree counts them: one      *)
(* header and DataSectors(size) more.                                      *)
Block(h) == h .. h + DataSectors(size[h])

(* Slip: the header is not counted when a block is freed.                  *)
FreedShort(h) ==
  [i \in Sector |-> IF i \in h .. h + DataSectors(size[h]) - 1
                    THEN SECTOR_FREE ELSE marker[i]]

Freed(h) == [i \in Sector |-> IF i \in Block(h) THEN SECTOR_FREE ELSE marker[i]]

Headers == {h \in Sector : marker[h] = SECTOR_HEADER}

(* The markers when fsDeviceFormat has freed every sector and written the  *)
(* device header.  It then creates the root directory and stores its       *)
(* handle.                                                                 *)
Blank == [i \in Sector |-> IF i = 0 THEN DEVICE ELSE SECTOR_FREE]

(* Slip: the format creates another block before the root directory.       *)
FormatRootSecond ==
  FirstFit(Taken(Blank, 1, DataSectors(DirSize)), DataSectors(DirSize))

FormatRoot == FirstFit(Blank, DataSectors(DirSize))

(* fsDeviceGetRootDirectory reads the sector size field where it means the *)
(* root field; as an address that is the second sector.                    *)
fsDeviceGetRootDirectory == 1

-----------------------------------------------------------------------------
(* kInit formats the device before anything else uses it.                  *)
Init ==
  /\ marker = Taken(Blank, FormatRoot, DataSectors(DirSize))
  /\ size = [i \in Sector |-> IF i = FormatRoot THEN DirSize ELSE 0]
  /\ root = FormatRoot
  /\ result = FormatRoot

fsDeviceFormat ==
  /\ marker' = Taken(Blank, FormatRoot, DataSectors(DirSize))
  /\ size' = [i \in Sector |-> IF i = FormatRoot THEN DirSize ELSE 0]
  /\ root' = FormatRoot
  /\ result' = FormatRoot

fsAllocate(s) ==
  LET h == FirstFit(marker, DataSectors(s)) IN
  /\ h # 0
  /\ marker' = Taken(marker, h, DataSectors(s))
  /\ size' = [size EXCEPT ![h] = s]
  /\ result' = h
  /\ UNCHANGED root

(* Slip: the place the loop ended at is handed out, found or not.          *)
fsAllocateFailsAtEnd(s) ==
  /\ FirstFit(marker, DataSectors(s)) = 0
  /\ result' = BlockSize
  /\ UNCHANGED <<marker, size, root>>

fsAllocateFails(s) ==
  /\ FirstFit(marker, DataSectors(s)) = 0
  /\ result' = 0
  /\ UNCHANGED <<marker, size, root>>

fsFree(h) ==
  /\ marker' = Freed(h)
  /\ size' = [size EXCEPT ![h] = 0]
  /\ UNCHANGED <<root, result>>

Next ==
  \/ \E s \in Sizes : fsAllocate(s) \/ fsAllocateFails(s)
  \/ \E h \in Headers : fsFree(h)
  \/ fsDeviceFormat

Spec == Init /\ [][Next]_sectorVars

-----------------------------------------------------------------------------
TypeOK ==
  /\ marker \in [Sector -> Marker]
  /\ size \in [Sector -> Sizes \cup {0}]
  /\ root \in Sector
  /\ result \in Sector

(* Every block lies inside the partition, although the scan of fsAllocate  *)
(* does not stop there, and all its data sectors are marked used.          *)
BlocksWhole ==
  \A h \in Headers : \A i \in h + 1 .. h + DataSectors(size[h]) :
    i \in Sector /\ marker[i] = SECTOR_USED

(* No sector leaks: each used sector belongs to a block, so fsFree, which  *)
(* recounts the sectors from the stored size, frees all that fsAllocate    *)
(* marked.                                                                 *)
NoOrphans ==
  \A i \in Sector : marker[i] = SECTOR_USED => \E h \in Headers : i \in Block(h)

(* fsDeviceGetRootDirectory reads the wrong field and yet returns the root *)
(* directory, because the first block of a fresh device is at sector 1.    *)
RootAgrees == root = fsDeviceGetRootDirectory

(* Blocks are disjoint, whole until freed, and refused only for lack of a  *)
(* run: the sectors implement the abstract allocator.                      *)
Storage == INSTANCE Allocator
  WITH Sector     <- 1 .. SectorCount - 1,
       Lengths    <- {DataSectors(s) + 1 : s \in Sizes},
       RootLength <- DataSectors(DirSize) + 1,
       owned      <- [h \in Headers |-> Block(h)]

ImplementsAllocator == Storage!Spec
=============================================================================
