----------------------------- MODULE FileTransfer ---------------------------
(***************************************************************************)
(* The table of open files and the byte loops of fsFileWrite and           *)
(* fsFileRead (kernel/fs/basefs/fsFile.c).                                 *)
(*                                                                         *)
(* A caller opens a file and uses the index it got until it closes it.     *)
(* The loops walk the data sectors of the file's block with two counters   *)
(* that step over the marker byte of each sector.  Addresses are relative  *)
(* to the block of a file: its header sector, its data sectors, and after  *)
(* them one sector of the block that follows.  The files exist: their      *)
(* blocks are allocated and freed in Sectors.                              *)
(***************************************************************************)
EXTENDS Integers, Sequences

CONSTANTS
  Files,           (* files of the device                                 *)
  None,            (* the address 0 in the table                          *)
  sizeOf,          (* the size in the header of each file                 *)
  MAX_OPEN_FILES,  (* 16                                                  *)
  SectorSize,      (* part.sector_size                                    *)
  Requests,        (* the sizes asked for                                 *)
  Word,            (* 2^32, the modulus of uint32_t                       *)
  Byte             (* the values of a byte                                *)

ASSUME TransferAssumption ==
  /\ SectorSize \in Nat /\ SectorSize > 1
  /\ None \notin Files
  /\ Word \in Nat
  /\ sizeOf \in [Files -> Nat] /\ \A f \in Files : sizeOf[f] + 2 < Word
  /\ MAX_OPEN_FILES \in Nat \ {0}
  /\ Requests \subseteq 0 .. Word - 1

Index == 0 .. MAX_OPEN_FILES - 1

Payload        == SectorSize - 1
DataSectors(f) == sizeOf[f] \div Payload + 1

Bytes(f) == 0 .. (DataSectors(f) + 2) * SectorSize - 1

(* The bytes of the block that hold the file.                              *)
DataBytes(f) ==
  {a \in Bytes(f) : /\ a >= SectorSize
                    /\ a < (DataSectors(f) + 1) * SectorSize
                    /\ a % SectorSize # 0}

VARIABLES
  store,          (* for each file, the bytes from the header of its block on *)
  fileList,       (* the file of each index, or None                      *)
  fileSize,       (* and its size                                         *)
  held,           (* the pairs of a file and an index that callers hold   *)
  overfull,       (* whether more files were ever open than the table has room for *)
  mode,           (* the loop that runs                                   *)
  handle,         (* the pair it was called for                           *)
  size, i, sector, sectorCounter,   (* its locals                         *)
  buffer,         (* the bytes fsFileRead has transferred so far          *)
  contents        (* for each file, what was last written at each index   *)

table == <<fileList, fileSize, held, overfull>>
counters == <<size, i, sector, sectorCounter>>
vars == <<store, table, mode, handle, counters, buffer, contents>>

Mode == {"idle", "writing", "reading", "undefined"}

Handle == (Files \cup {None}) \X Index

NoHandle == <<None, 0>>

(* Memory is what the RAM test left in it.                                 *)
Init ==
  /\ \E b \in Byte : store = [f \in Files |-> [a \in Bytes(f) |-> b]]
  /\ fileList = [k \in Index |-> None] /\ fileSize = [k \in Index |-> 0]
  /\ held = {} /\ overfull = FALSE
  /\ mode = "idle" /\ handle = NoHandle
  /\ size = 0 /\ i = 0 /\ sector = 0 /\ sectorCounter = 0
  /\ buffer = <<>>
  /\ contents = [f \in Files |-> <<>>]

-----------------------------------------------------------------------------
HasRoom == \E k \in Index : fileList[k] = None

FirstFree(k) == fileList[k] = None /\ \A l \in 0 .. k - 1 : fileList[l] # None

(* Slip: the last index is never given.                                    *)
GivenButLast(k) ==
  IF \E l \in Index : l < MAX_OPEN_FILES - 1 /\ fileList[l] = None THEN FirstFree(k) ELSE k = 0

(* With no index free the loop ends at the entry behind the table and      *)
(* leaves the index at 0.                                                  *)
Given(k) == IF HasRoom THEN FirstFree(k) ELSE k = 0

fsFileOpen(f, k) ==
  /\ mode = "idle"
  /\ Given(k)
  /\ fileList' = [fileList EXCEPT ![k] = f]
  /\ fileSize' = [fileSize EXCEPT ![k] = sizeOf[f]]
  /\ held' = held \cup {<<f, k>>}
  /\ overfull' = (overfull \/ ~HasRoom)
  /\ UNCHANGED <<store, mode, handle, counters, buffer, contents>>

(* Unless the memory behind the table is 0: then that is the index, and    *)
(* the size and the file are written past the ends of the arrays.          *)
OpenPastTable ==
  /\ mode = "idle" /\ ~HasRoom
  /\ mode' = "undefined" /\ overfull' = TRUE
  /\ UNCHANGED <<store, fileList, fileSize, held, handle, counters, buffer, contents>>

fsFileClose(h) ==
  /\ mode = "idle"
  /\ fileList' = [fileList EXCEPT ![h[2]] = None]
  /\ fileSize' = [fileSize EXCEPT ![h[2]] = 0]
  /\ held' = held \ {h}
  /\ UNCHANGED <<store, overfull, mode, handle, counters, buffer, contents>>

-----------------------------------------------------------------------------
(* Slip: the check lets one byte more through.                             *)
RefusedLate(k, s) == (s - 1) % Word >= fileSize[k] + 3

(* size-1 wraps around: a request of 0 bytes is refused too.               *)
Refused(k, s) == (s - 1) % Word >= fileSize[k] + 2

(* Slip: the marker byte is counted among the payload.                     *)
AtMarkerLate == sectorCounter = SectorSize

(* The address of the byte, once the marker byte has been skipped.         *)
AtMarker == sectorCounter = SectorSize - 1

Skipped == IF AtMarker THEN sector + 1 ELSE sector

Position == SectorSize + Skipped + 1

Advance ==
  /\ i' = i + 1
  /\ sector' = Skipped + 1
  /\ sectorCounter' = IF AtMarker THEN 1 ELSE sectorCounter + 1
  /\ UNCHANGED size

-----------------------------------------------------------------------------
(* A refused call returns 0 and touches nothing.                           *)
Start(m, h, s) ==
  /\ mode = "idle"
  /\ fileList[h[2]] # None
  /\ ~Refused(h[2], s)
  /\ mode' = m /\ handle' = h
  /\ size' = s /\ i' = 0 /\ sector' = 0 /\ sectorCounter' = 0
  /\ buffer' = <<>>
  /\ UNCHANGED <<store, table, contents>>

StartWrite(h, s) == Start("writing", h, s)
StartRead(h, s) == Start("reading", h, s)

(* The file in the table is the one transferred.                           *)
File == fileList[handle[2]]

WriteByte(b) ==
  /\ mode = "writing"
  /\ i < size - 1
  /\ store' = [store EXCEPT ![File] = [@ EXCEPT ![Position] = b]]
  /\ contents' = [contents EXCEPT ![handle[1]] =
                    [j \in DOMAIN @ \cup {i} |-> IF j = i THEN b ELSE @[j]]]
  /\ Advance
  /\ UNCHANGED <<table, mode, handle, buffer>>

ReadByte ==
  /\ mode = "reading"
  /\ i < size - 1
  /\ buffer' = Append(buffer, store[File][Position])
  /\ Advance
  /\ UNCHANGED <<table, mode, handle, store, contents>>

(* The locals are gone.                                                    *)
Return ==
  /\ mode \in {"writing", "reading"}
  /\ i >= size - 1
  /\ mode' = "idle" /\ handle' = NoHandle
  /\ size' = 0 /\ i' = 0 /\ sector' = 0 /\ sectorCounter' = 0
  /\ buffer' = <<>>
  /\ UNCHANGED <<store, table, contents>>

Next ==
  \/ \E f \in Files, k \in Index : fsFileOpen(f, k)
  \/ OpenPastTable
  \/ \E h \in held : fsFileClose(h)
  \/ \E h \in held, s \in Requests : StartWrite(h, s) \/ StartRead(h, s)
  \/ \E b \in Byte : WriteByte(b)
  \/ ReadByte
  \/ Return

Spec == Init /\ [][Next]_vars

-----------------------------------------------------------------------------
TypeOK ==
  /\ DOMAIN store = Files /\ \A f \in Files : store[f] \in [Bytes(f) -> Byte]
  /\ fileList \in [Index -> Files \cup {None}]
  /\ fileSize \in [Index -> Nat]
  /\ held \subseteq Files \X Index /\ overfull \in BOOLEAN
  /\ mode \in Mode /\ handle \in Handle
  /\ size \in 0 .. Word - 1
  /\ i \in Nat
  /\ sector \in Nat
  /\ sectorCounter \in 0 .. SectorSize - 1
  /\ buffer \in Seq(Byte)
  /\ DOMAIN contents = Files /\ \A f \in Files : DOMAIN contents[f] \subseteq Nat

(* A transfer of any size that is not refused, even of the two bytes more  *)
(* than the file has that the check lets through, changes no marker byte,  *)
(* nothing of a header and nothing of the block that follows; and as long  *)
(* as the table has had room, nothing of another file than the caller's.   *)
OnlyDataBytesChange ==
  [][\A f \in Files : \A a \in Bytes(f) :
       store'[f][a] # store[f][a] => /\ a \in DataBytes(f)
                                     /\ ~overfull => f = handle[1]]_vars

(* What a caller reads is what was last written at the same index of the   *)
(* file it opened, whatever the sizes of the writes and of the read and    *)
(* whatever else is opened and closed, as long as the table has had room   *)
(* (fsFile.c:52-61).                                                       *)
ReadsBack ==
  mode = "reading" /\ ~overfull =>
    \A j \in DOMAIN buffer :
      j - 1 \in DOMAIN contents[handle[1]] => buffer[j] = contents[handle[1]][j - 1]
=============================================================================
