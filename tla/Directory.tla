------------------------------ MODULE Directory -----------------------------
(***************************************************************************)
(* The root directory on the sectors of a device                           *)
(* (kernel/fs/basefs/fsDirectory.c, fsFile.c).                             *)
(*                                                                         *)
(* A directory is a block of references to files.  When it is full it      *)
(* continues in a doubly linked chain of extents, blocks of the same size. *)
(* A reference that does not fit among the bytes fsFileWrite transfers,    *)
(* and an extent created on a full device (whose handle, 0, is the device  *)
(* header), leave a device that reads back undefined bytes: behaviours are *)
(* followed up to that step, and no further.                               *)
(***************************************************************************)
EXTENDS Sectors, Sequences, FiniteSets

CONSTANT RefSize  (* the bytes of a reference (4)                         *)

ASSUME DirectoryAssumption ==
  /\ RefSize \in Nat \ {0}
  /\ SectorCount \in Nat \ {0}
  (* A fresh root directory and a fresh extent have room for an entry.    *)
  /\ 2 * RefSize < SectorSize
  /\ RefSize < DirSize

VARIABLES
  refs,       (* the references stored in each block                      *)
  next,       (* the next field of each block: its next extent, or 0      *)
  parent,     (* the parent field of each block                           *)
  formatted,  (* the device header still holds what the format wrote      *)
  held,       (* the file a caller has created and not yet added, or 0    *)
  listed      (* the files added with success and not removed since       *)

linkVars == <<refs, next, parent>>
callerVars == <<held, listed>>
dirVars == <<sectorVars, linkVars, formatted, callerVars>>

-----------------------------------------------------------------------------
(* The fields of a block's header.                                         *)
fsFileGetNextAddress(h) == next[h]

fsFileGetParentAddress(h) == parent[h]

fsDirectoryGetReferenceCount(h) == Len(refs[h])

fsFileSetNextAddress(h, extent) == next' = [next EXCEPT ![h] = extent]

fsFileSetParentAddress(h, block) == parent' = [parent EXCEPT ![h] = block]

fsDirectorySetReferenceCount(h) == refs' = [refs EXCEPT ![h] = <<>>]

(* Who opens the device gets its sizes from the header; without the header *)
(* of the format it gets no device.                                        *)
fsDeviceOpen == formatted

-----------------------------------------------------------------------------
(* The loops over a directory: the root, its extents in order, then 0.     *)
(* The device has room for MaxHops blocks of a directory.                  *)
MaxHops == SectorCount \div (DataSectors(DirSize) + 1)

Hop[k \in 0 .. MaxHops] ==
  IF k = 0 THEN root
  ELSE LET h == Hop[k - 1] IN IF h = 0 THEN 0 ELSE fsFileGetNextAddress(h)

Hops == {Hop[k] : k \in 0 .. MaxHops} \ {0}

DirectoryFull == (fsDirectoryGetReferenceCount(root) + 1) * RefSize >= SectorSize

ExtentFull(e) == (fsDirectoryGetReferenceCount(e) + 2) * RefSize >= SectorSize

(* Where the loop of fsDirectoryAddFile stops: at the first extent with    *)
(* room, or at the last extent.                                            *)
Stops(k) == Hop[k] # 0 /\ (~ExtentFull(Hop[k]) \/ fsFileGetNextAddress(Hop[k]) = 0)

Target == Hop[CHOOSE k \in 1 .. MaxHops :
                Stops(k) /\ \A j \in 1 .. k - 1 : ~Stops(j)]

(* fsFileRead and fsFileWrite transfer one byte less than the size.        *)
Transferred(n) == n * RefSize <= DirSize - 1

(* All the references a directory counts are on the device.                *)
CountedEntriesStored == \A d \in Hops : Transferred(fsDirectoryGetReferenceCount(d))

Usable == fsDeviceOpen /\ CountedEntriesStored

(* Slip: the last reference is dropped and does not replace the i-th.      *)
ReplacedNone(s, i) == SubSeq(s, 1, Len(s) - 1)

(* The first reference to f, and the references of s once the last one has *)
(* replaced the i-th.                                                      *)
Entry(s, f) == CHOOSE i \in DOMAIN s : s[i] = f /\ \A j \in 1 .. i - 1 : s[j] # f

Replaced(s, i) == SubSeq([s EXCEPT ![i] = s[Len(s)]], 1, Len(s) - 1)

Holds(k, f) == Hop[k] # 0 /\ \E i \in DOMAIN refs[Hop[k]] : refs[Hop[k]][i] = f

(* The references counted in the blocks before the k-th, as the loops of   *)
(* fsDirectoryGetTotalSize and fsDirectoryFindByIndex add them up.         *)
Counter[k \in 0 .. MaxHops + 1] ==
  IF k = 0 THEN 0
  ELSE Counter[k - 1] + (IF Hop[k - 1] = 0 THEN 0 ELSE fsDirectoryGetReferenceCount(Hop[k - 1]))

fsDirectoryGetTotalSize == Counter[MaxHops + 1]

fsDirectoryFindByIndex(index) ==
  LET has(k) == Counter[k] <= index /\ index < Counter[k + 1]
  IN  IF \E k \in 0 .. MaxHops : has(k)
      THEN LET k == CHOOSE k \in 0 .. MaxHops : has(k)
           IN  refs[Hop[k]][index - Counter[k] + 1]
      ELSE 0

(* What ls shows of the root directory, row by row.                        *)
vfsList ==
  [n \in 1 .. fsDirectoryGetTotalSize |-> fsDirectoryFindByIndex(n - 1)]

-----------------------------------------------------------------------------
(* The root directory as kInit finds it after the format.                  *)
DirectoryInit ==
  /\ Init
  /\ refs = [h \in Sector |-> <<>>]
  /\ next = [h \in Sector |-> 0]
  /\ parent = [h \in Sector |-> 0]
  /\ formatted = TRUE
  /\ held = 0
  /\ listed = {}

(* fsFileCreate clears the links of the block it allocates.                *)
CreateFile(s) ==
  /\ Usable /\ held = 0
  /\ fsAllocate(s)
  /\ held' = result'
  /\ fsFileSetNextAddress(result', 0)
  /\ fsFileSetParentAddress(result', 0)
  /\ UNCHANGED <<refs, formatted, listed>>

CreateFileFails(s) ==
  /\ Usable /\ held = 0
  /\ fsAllocateFails(s)
  /\ UNCHANGED <<linkVars, formatted, callerVars>>

(* fsDirectoryCreate adds a count of 0 ...                                 *)
CreateDirectory ==
  /\ Usable /\ held = 0
  /\ fsAllocate(DirSize)
  /\ held' = result'
  /\ fsDirectorySetReferenceCount(result')
  /\ fsFileSetNextAddress(result', 0)
  /\ fsFileSetParentAddress(result', 0)
  /\ UNCHANGED <<formatted, listed>>

(* ... and writes it, and the attributes, into the device header when the  *)
(* creation of the file has returned 0.                                    *)
CreateDirectoryFails ==
  /\ Usable /\ held = 0
  /\ fsAllocateFails(DirSize)
  /\ formatted' = FALSE
  /\ UNCHANGED <<linkVars, callerVars>>

(* fsDirectoryAddFile returns 1 whatever happens.                          *)
Listed ==
  /\ held' = 0
  /\ listed' = listed \cup {held}

AddToDirectory ==
  /\ Usable /\ held # 0
  /\ ~DirectoryFull
  /\ refs' = [refs EXCEPT ![root] = Append(@, held)]
  /\ Listed
  /\ UNCHANGED <<sectorVars, next, parent, formatted>>

AddToExtent ==
  /\ Usable /\ held # 0
  /\ DirectoryFull /\ next[root] # 0
  /\ ~ExtentFull(Target)
  /\ refs' = [refs EXCEPT ![Target] = Append(@, held)]
  /\ Listed
  /\ UNCHANGED <<sectorVars, next, parent, formatted>>

(* The links of an extent just allocated, which follows the block d.       *)
fsDirectoryExtentCreate(d) ==
  /\ next' = [next EXCEPT ![d] = result', ![result'] = 0]
  /\ fsFileSetParentAddress(result', d)

AddFirstExtent ==
  /\ Usable /\ held # 0
  /\ DirectoryFull /\ next[root] = 0
  /\ fsAllocate(DirSize)
  /\ refs' = [refs EXCEPT ![result'] = <<held>>]
  /\ fsDirectoryExtentCreate(root)
  /\ Listed
  /\ UNCHANGED formatted

(* A full last extent gets a successor, and the reference all the same.    *)
AddNextExtent ==
  /\ Usable /\ held # 0
  /\ DirectoryFull /\ next[root] # 0
  /\ ExtentFull(Target)
  /\ fsAllocate(DirSize)
  /\ refs' = [refs EXCEPT ![result'] = <<>>, ![Target] = Append(@, held)]
  /\ fsDirectoryExtentCreate(Target)
  /\ Listed
  /\ UNCHANGED formatted

(* No room for an extent: its handle is 0 and its fields are written into  *)
(* the device header.  The first extent takes the reference with it.       *)
AddFirstExtentFails ==
  /\ Usable /\ held # 0
  /\ DirectoryFull /\ next[root] = 0
  /\ fsAllocateFails(DirSize)
  /\ formatted' = FALSE
  /\ Listed
  /\ UNCHANGED linkVars

AddNextExtentFails ==
  /\ Usable /\ held # 0
  /\ DirectoryFull /\ next[root] # 0
  /\ ExtentFull(Target)
  /\ fsAllocateFails(DirSize)
  /\ refs' = [refs EXCEPT ![Target] = Append(@, held)]
  /\ formatted' = FALSE
  /\ Listed
  /\ UNCHANGED <<next, parent>>

AddFile ==
  \/ AddToDirectory
  \/ AddToExtent
  \/ AddFirstExtent
  \/ AddNextExtent
  \/ AddFirstExtentFails
  \/ AddNextExtentFails

(* The k-th block is the first to hold the reference.                      *)
FoundIn(k, f) == Holds(k, f) /\ \A j \in 0 .. k - 1 : ~Holds(j, f)

fsFileDelete(f) == fsFree(f)

Removed(d, f) == [refs EXCEPT ![d] = Replaced(@, Entry(@, f))]

RemoveEntry(k, f) ==
  LET d == Hop[k] IN
  /\ Usable
  /\ FoundIn(k, f)
  /\ k = 0 \/ fsDirectoryGetReferenceCount(d) > 1
  /\ fsFileDelete(f)
  /\ refs' = Removed(d, f)
  /\ listed' = listed \ {f}
  /\ UNCHANGED <<next, parent, formatted, held>>

(* Slip: the successor of an unlinked extent keeps its parent.             *)
RemoveExtentOneWay(k, f) ==
  LET d == Hop[k] IN
  /\ Usable
  /\ FoundIn(k, f)
  /\ k > 0 /\ fsDirectoryGetReferenceCount(d) <= 1
  /\ marker' = [i \in Sector |-> IF i \in Block(d) THEN SECTOR_FREE ELSE Freed(f)[i]]
  /\ size' = [size EXCEPT ![f] = 0, ![d] = 0]
  /\ refs' = Removed(d, f)
  /\ next' = [next EXCEPT ![parent[d]] = next[d]]
  /\ listed' = listed \ {f}
  /\ UNCHANGED <<root, result, parent, formatted, held>>

(* Slip: an unlinked extent is not freed.                                  *)
RemoveExtentLeaks(k, f) ==
  LET d == Hop[k] IN
  /\ Usable
  /\ FoundIn(k, f)
  /\ k > 0 /\ fsDirectoryGetReferenceCount(d) <= 1
  /\ fsFileDelete(f)
  /\ refs' = Removed(d, f)
  /\ next' = [next EXCEPT ![parent[d]] = next[d]]
  /\ parent' = [parent EXCEPT ![next[d]] = parent[d]]
  /\ listed' = listed \ {f}
  /\ UNCHANGED <<formatted, held>>

(* The last reference of an extent: the extent is unlinked and freed too.  *)
(* When it has no successor its parent is written into sector 0, past the  *)
(* fields of the device header.                                            *)
RemoveExtent(k, f) ==
  LET d == Hop[k] IN
  /\ Usable
  /\ FoundIn(k, f)
  /\ k > 0 /\ fsDirectoryGetReferenceCount(d) <= 1
  /\ marker' = [i \in Sector |-> IF i \in Block(d) THEN SECTOR_FREE ELSE Freed(f)[i]]
  /\ size' = [size EXCEPT ![f] = 0, ![d] = 0]
  /\ refs' = Removed(d, f)
  /\ fsFileSetNextAddress(fsFileGetParentAddress(d), fsFileGetNextAddress(d))
  /\ fsFileSetParentAddress(fsFileGetNextAddress(d), fsFileGetParentAddress(d))
  /\ listed' = listed \ {f}
  /\ UNCHANGED <<root, result, formatted, held>>

RemoveFile(f) ==
  \E k \in 0 .. MaxHops : RemoveEntry(k, f) \/ RemoveExtent(k, f)

DirectoryNext ==
  \/ \E s \in Sizes : CreateFile(s) \/ CreateFileFails(s)
  \/ CreateDirectory
  \/ CreateDirectoryFails
  \/ AddFile
  \/ \E f \in listed : RemoveFile(f)

DirectorySpec == DirectoryInit /\ [][DirectoryNext]_dirVars

-----------------------------------------------------------------------------
DirectoryTypeOK ==
  /\ TypeOK
  /\ refs \in [Sector -> Seq(Sector)]
  /\ next \in [Sector -> Sector]
  /\ parent \in [Sector -> Sector]
  /\ formatted \in BOOLEAN
  /\ held \in Sector
  /\ listed \subseteq Sector

(* The chain ends, every extent is a live block of its own and its parent  *)
(* is the block before it, through any sequence of extents created when    *)
(* one overflows and unlinked, first, middle or last, when one empties.    *)
ChainLinked ==
  /\ Hop[MaxHops] = 0
  /\ \A k \in 1 .. MaxHops :
       Hop[k] # 0 => /\ Hop[k] \in Headers
                     /\ size[Hop[k]] = DirSize
                     /\ parent[Hop[k]] = Hop[k - 1]

(* Each allocated block is one thing: a block of the directory, or a file  *)
(* that is listed or held.  Unlinking an extent leaks neither the extent   *)
(* nor those after it, and no file's block is freed while it is listed.    *)
BlocksAccounted ==
  /\ Headers = Hops \cup listed \cup ({held} \ {0})
  /\ Hops \cap listed = {}
  /\ held \notin Hops \cup listed

(* What ls shows is what was added and not removed since, each file once:  *)
(* the total that ends its loop, summed over the extents, agrees with the  *)
(* indices at which the extents' references are found.                     *)
ContentsListed ==
  Usable =>
    LET shown == vfsList
    IN  /\ {shown[n] : n \in DOMAIN shown} = listed
        /\ Len(shown) = Cardinality(listed)

(* The device header still holds the pointer to the root directory and the *)
(* sector size (kernel/fs/fs.h:16-18) after any directory operation.       *)
HeaderIntact == formatted
=============================================================================
