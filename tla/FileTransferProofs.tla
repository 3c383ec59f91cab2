------------------------- MODULE FileTransferProofs -------------------------
(***************************************************************************)
(* Proofs about FileTransfer for every table, sector size, file size and   *)
(* request: the loops stay on the data bytes of the caller's file, and a   *)
(* read returns what was written to it.                                    *)
(*                                                                         *)
(* While the table has room the index a caller holds stands for its file   *)
(* (HeldTrue): no two callers share one, because an index is given only    *)
(* when it is free and each holder frees it once.                          *)
(*                                                                         *)
(* The two counters of a loop determine one another: sector - i is the     *)
(* number of markers skipped, and i is that many full payloads and the     *)
(* bytes counted since (Walk).  So a byte's address depends on its index   *)
(* alone (Place), distinct indexes have distinct addresses, and a read     *)
(* visits the addresses a write did.                                       *)
(***************************************************************************)
EXTENDS FileTransfer, TLAPS

(* The address of the j-th byte of the file.                               *)
Place(j) == SectorSize + 1 + j + j \div Payload

Walk ==
  /\ i <= sector
  /\ i = (sector - i) * Payload + sectorCounter

Busy == mode \in {"writing", "reading"}

InRequest ==
  Busy => /\ handle \in held /\ File \in Files
          /\ 1 <= size /\ size <= sizeOf[File] + 2
          /\ i <= size - 1

TableTrue ==
  \A k \in Index : fileList[k] # None => fileSize[k] = sizeOf[fileList[k]]

HeldTrue == ~overfull => \A h \in held : fileList[h[2]] = h[1]

Stored ==
  ~overfull =>
    \A f \in Files :
      /\ DOMAIN contents[f] \subseteq 0 .. sizeOf[f]
      /\ \A j \in DOMAIN contents[f] : store[f][Place(j)] = contents[f][j]

ReadSoFar ==
  mode = "reading" =>
    /\ Len(buffer) = i
    /\ ~overfull => \A j \in 1 .. i :
                      j - 1 \in DOMAIN contents[handle[1]] => buffer[j] = contents[handle[1]][j - 1]

IInv == TypeOK /\ Walk /\ InRequest /\ TableTrue /\ HeldTrue /\ Stored /\ ReadSoFar

-----------------------------------------------------------------------------
LEMMA Sizes ==
  /\ SectorSize \in Nat /\ Payload \in Nat \ {0} /\ SectorSize = Payload + 1
  /\ \A f \in Files : sizeOf[f] \in Nat /\ DataSectors(f) \in Nat \ {0}
<1>1. Payload \in Nat \ {0} /\ SectorSize = Payload + 1
  BY TransferAssumption DEF Payload
<1>2. ASSUME NEW f \in Files PROVE sizeOf[f] \in Nat /\ DataSectors(f) \in Nat \ {0}
  <2>1. sizeOf[f] \in Nat
    BY TransferAssumption
  <2>2. sizeOf[f] \div Payload \in Nat
    BY <1>1, <2>1, SMT
  <2> QED
    BY <2>1, <2>2 DEF DataSectors
<1> QED
  BY <1>1, <1>2, TransferAssumption

(* A quotient is the number of whole divisors that fit.                    *)
LEMMA Quotient ==
  ASSUME NEW q \in Nat, NEW P \in Nat \ {0}, NEW f \in Nat, q * P <= f
  PROVE  q <= f \div P
BY SMT

LEMMA QuotientOfSum ==
  ASSUME NEW q \in Nat, NEW P \in Nat \ {0}, NEW r \in 0 .. P - 1
  PROVE  (q * P + r) \div P = q
BY SMT

LEMMA RemainderOfSum ==
  ASSUME NEW q \in Nat, NEW S \in Nat \ {0}, NEW r \in 0 .. S - 1
  PROVE  (q * S + r) % S = r
BY SMT

LEMMA QuotientMonotone ==
  ASSUME NEW j \in Nat, NEW k \in Nat, NEW P \in Nat \ {0}, j < k
  PROVE  j \div P \in Nat /\ k \div P \in Nat /\ j \div P <= k \div P
BY SMT

LEMMA ProductMonotone ==
  ASSUME NEW a \in Nat, NEW b \in Nat, NEW S \in Nat, a <= b
  PROVE  a * S <= b * S
BY SMT

(* Distinct bytes of the file have distinct addresses.                     *)
LEMMA PlaceInjective ==
  ASSUME NEW j \in Nat, NEW k \in Nat, Place(j) = Place(k)
  PROVE  j = k
<1>1. \A a, b \in Nat : a < b => Place(a) < Place(b)
  <2> SUFFICES ASSUME NEW a \in Nat, NEW b \in Nat, a < b
               PROVE  Place(a) < Place(b)
    OBVIOUS
  <2>1. /\ a \div Payload \in Nat /\ b \div Payload \in Nat
        /\ a \div Payload <= b \div Payload
    BY QuotientMonotone, Sizes
  <2> QED
    BY <2>1, Sizes DEF Place
<1>2. Place(j) \in Nat /\ Place(k) \in Nat
  <2>1. j \div Payload \in Nat /\ k \div Payload \in Nat
    BY Sizes, SMT
  <2> QED
    BY <2>1, Sizes DEF Place
<1> QED
  BY <1>1, <1>2

(* A byte with q markers skipped before it and r bytes since lies in a     *)
(* data sector of the block, off its marker.                               *)
LEMMA DataByte ==
  ASSUME NEW f \in Files,
         NEW q \in Nat, NEW r \in 0 .. Payload - 1, q * Payload + r <= sizeOf[f]
  PROVE  SectorSize + (q * Payload + r) + q + 1 \in DataBytes(f)
<1> DEFINE a == SectorSize + (q * Payload + r) + q + 1
<1>0. SectorSize \in Nat \ {0}
  BY Sizes
<1>1. q * Payload \in Nat /\ q * SectorSize \in Nat
  BY Sizes, SMT
<1>2. q * SectorSize = q * Payload + q
  BY Sizes, SMT
<1>3. (q + 1) * SectorSize = q * SectorSize + SectorSize
  BY Sizes, SMT
<1>4. a = (q + 1) * SectorSize + (r + 1)
  BY <1>1, <1>2, <1>3, Sizes
<1>5. a % SectorSize = r + 1
  <2>1. r + 1 \in 0 .. SectorSize - 1
    BY Sizes
  <2> HIDE DEF a
  <2> QED
    BY <1>0, <1>4, <2>1, RemainderOfSum
<1>6. q <= sizeOf[f] \div Payload
  <2>1. q * Payload <= sizeOf[f]
    BY <1>1, Sizes
  <2> QED
    BY <2>1, Quotient, Sizes
<1>7. q + 2 <= DataSectors(f) + 1
  <2>1. sizeOf[f] \div Payload \in Nat
    BY Sizes, SMT
  <2> QED
    BY <1>6, <2>1, Sizes DEF DataSectors
<1>8. (q + 2) * SectorSize <= (DataSectors(f) + 1) * SectorSize
  BY <1>7, ProductMonotone, Sizes
<1>9. /\ (q + 2) * SectorSize = q * SectorSize + SectorSize + SectorSize
      /\ (DataSectors(f) + 2) * SectorSize = (DataSectors(f) + 1) * SectorSize + SectorSize
      /\ (DataSectors(f) + 1) * SectorSize \in Nat
  BY Sizes, SMT
<1>10. a < (DataSectors(f) + 1) * SectorSize
  BY <1>1, <1>2, <1>8, <1>9, Sizes
<1>11. a \in Nat /\ a >= SectorSize /\ a < (DataSectors(f) + 2) * SectorSize
  BY <1>1, <1>9, <1>10, Sizes
<1>12. (DataSectors(f) + 2) * SectorSize \in Nat
  BY Sizes, SMT
<1> HIDE DEF a
<1>13. a \in DataBytes(f)
  BY <1>5, <1>10, <1>11, <1>12, Sizes DEF DataBytes, Bytes
<1> QED
  BY <1>13 DEF a
-----------------------------------------------------------------------------
(* Every byte of the file has its place there.                             *)
LEMMA PlaceIsData ==
  ASSUME NEW f \in Files, NEW j \in 0 .. sizeOf[f]
  PROVE  Place(j) \in DataBytes(f)
<1>1. j \in Nat /\ j <= sizeOf[f] /\ Payload \in Nat \ {0}
  BY Sizes
<1>2. /\ j \div Payload \in Nat /\ j % Payload \in 0 .. Payload - 1
      /\ j = (j \div Payload) * Payload + (j % Payload)
  BY <1>1, SMT
<1>3. SectorSize + ((j \div Payload) * Payload + (j % Payload)) + j \div Payload + 1 \in DataBytes(f)
  BY <1>1, <1>2, DataByte
<1>4. Place(j) = SectorSize + j + j \div Payload + 1
  BY <1>1, <1>2, Sizes DEF Place
<1> QED
  BY <1>2, <1>3, <1>4

(* Inside a loop the current byte goes to the place of its index, which is *)
(* a data byte of the file, and the loop invariant carries over to the     *)
(* next index.                                                             *)
LEMMA PositionIsPlace ==
  ASSUME IInv, Busy, i < size - 1
  PROVE  /\ handle \in held /\ handle[1] \in Files /\ handle[2] \in Index /\ File \in Files
         /\ i \in 0 .. sizeOf[File]
         /\ Position = Place(i)
         /\ Position \in DataBytes(File)
<1>0. handle \in held /\ handle[1] \in Files /\ handle[2] \in Index /\ File \in Files
  BY DEF IInv, TypeOK, InRequest
<1>1. /\ i \in Nat /\ sector \in Nat /\ size \in Nat
      /\ sectorCounter \in 0 .. Payload
      /\ sizeOf[File] \in Nat
      /\ i \in 0 .. sizeOf[File]
  BY <1>0, Sizes, TransferAssumption DEF IInv, TypeOK, InRequest
<1>2. /\ sector - i \in Nat
      /\ i = (sector - i) * Payload + sectorCounter
  BY <1>1 DEF IInv, Walk
<1> SUFFICES \E q \in Nat, r \in 0 .. Payload - 1 :
               /\ i = q * Payload + r
               /\ Position = SectorSize + i + q + 1
  <2>1. PICK q \in Nat, r \in 0 .. Payload - 1 :
          /\ i = q * Payload + r
          /\ Position = SectorSize + i + q + 1
    OBVIOUS
  <2>2. i \div Payload = q
    BY <2>1, QuotientOfSum, Sizes
  <2>3. Position = Place(i)
    BY <2>1, <2>2, <1>1, Sizes DEF Place
  <2>4. Position \in DataBytes(File)
    BY <2>1, <1>0, <1>1, DataByte
  <2> QED
    BY <1>0, <1>1, <2>3, <2>4
<1>3. CASE ~AtMarker
  <2>1. sectorCounter \in 0 .. Payload - 1
    BY <1>1, <1>3, Sizes DEF AtMarker
  <2>2. Position = SectorSize + i + (sector - i) + 1
    BY <1>1, <1>3, Sizes DEF Position, Skipped
  <2> QED
    BY <1>2, <2>1, <2>2
<1>4. CASE AtMarker
  <2>1. i = (sector - i) * Payload + Payload
    BY <1>1, <1>2, <1>4, Sizes DEF AtMarker
  <2>2. (sector - i) * Payload + Payload = ((sector - i) + 1) * Payload + 0
    BY <1>2, Sizes, SMT
  <2>3. Position = SectorSize + i + ((sector - i) + 1) + 1
    BY <1>1, <1>4, Sizes DEF Position, Skipped
  <2>4. (sector - i) + 1 \in Nat /\ 0 \in 0 .. Payload - 1
    BY <1>2, Sizes
  <2> QED
    BY <2>1, <2>2, <2>3, <2>4
<1> QED
  BY <1>3, <1>4

(* As long as the table has had room, the file in the table is the         *)
(* caller's.                                                               *)
LEMMA FileIsCallers ==
  ASSUME IInv, Busy, ~overfull
  PROVE  File = handle[1]
BY DEF IInv, InRequest, HeldTrue, File

LEMMA AdvanceWalks ==
  ASSUME IInv, Advance
  PROVE  /\ i' \in Nat /\ sector' \in Nat
         /\ sectorCounter' \in 0 .. SectorSize - 1
         /\ Walk'
<1>1. /\ i \in Nat /\ sector \in Nat /\ sectorCounter \in 0 .. Payload
      /\ sector - i \in Nat
      /\ i = (sector - i) * Payload + sectorCounter
  BY Sizes DEF IInv, TypeOK, Walk
<1>2. CASE ~AtMarker
  <2>1. /\ i' = i + 1 /\ sector' = sector + 1
        /\ sectorCounter' = sectorCounter + 1
    BY <1>2 DEF Advance, Skipped
  <2>2. sectorCounter' \in 0 .. SectorSize - 1
    BY <1>1, <1>2, <2>1, Sizes DEF AtMarker
  <2>3. sector' - i' = sector - i
    BY <1>1, <2>1
  <2>4. (sector - i) * Payload \in Nat
    BY <1>1, Sizes, SMT
  <2>5. i' = (sector' - i') * Payload + sectorCounter'
    BY <1>1, <2>1, <2>3, <2>4
  <2> QED
    BY <1>1, <2>1, <2>2, <2>5 DEF Walk
<1>3. CASE AtMarker
  <2>1. /\ i' = i + 1 /\ sector' = sector + 2
        /\ sectorCounter' = 1 /\ sectorCounter = Payload
    BY <1>1, <1>3, Sizes DEF Advance, Skipped, AtMarker
  <2>2. sectorCounter' \in 0 .. SectorSize - 1
    BY <2>1, Sizes
  <2>3. sector' - i' = (sector - i) + 1
    BY <1>1, <2>1
  <2>4. /\ (sector - i) * Payload \in Nat
        /\ ((sector - i) + 1) * Payload = (sector - i) * Payload + Payload
    BY <1>1, Sizes, SMT
  <2>5. i' = (sector' - i') * Payload + sectorCounter'
    BY <1>1, <2>1, <2>3, <2>4, Sizes
  <2> QED
    BY <1>1, <2>1, <2>2, <2>5 DEF Walk
<1> QED
  BY <1>2, <1>3

-----------------------------------------------------------------------------
LEMMA InitIInv == Init => IInv
<1> SUFFICES ASSUME Init PROVE IInv
  OBVIOUS
<1>1. TypeOK
  <2>1. 0 \in Index
    BY TransferAssumption DEF Index
  <2> QED
    BY <2>1, Sizes, TransferAssumption, SMTT(30) DEF Init, TypeOK, Mode, Handle, NoHandle
<1>2. Walk
  <2>1. 0 * Payload = 0
    BY Sizes, SMT
  <2> QED
    BY <2>1 DEF Init, Walk
<1>3. InRequest /\ TableTrue /\ HeldTrue /\ Stored /\ ReadSoFar
  BY DEF Init, InRequest, Busy, TableTrue, HeldTrue, Stored, ReadSoFar
<1> QED
  BY <1>1, <1>2, <1>3 DEF IInv

(* Calls that begin or end no transfer leave these alone.                  *)
LEMMA TransferAlone ==
  ASSUME IInv, mode = "idle", mode' \notin {"writing", "reading"},
         UNCHANGED <<store, handle, counters, buffer, contents>>,
         overfull => overfull', overfull' \in BOOLEAN
  PROVE  Walk' /\ InRequest' /\ Stored' /\ ReadSoFar'
BY DEF IInv, Walk, InRequest, Busy, Stored, ReadSoFar, counters, Place, TypeOK

LEMMA OpenIInv ==
  ASSUME IInv, NEW f \in Files, NEW k \in Index, fsFileOpen(f, k)
  PROVE  IInv'
<1>1. TypeOK'
  BY Sizes DEF IInv, TypeOK, fsFileOpen, counters
<1>2. TableTrue'
  BY DEF IInv, TypeOK, TableTrue, fsFileOpen
<1>3. HeldTrue'
  <2> SUFFICES ASSUME ~overfull', NEW h \in held' PROVE fileList'[h[2]] = h[1]
    BY DEF HeldTrue
  <2>1. ~overfull /\ fileList[k] = None
    BY DEF fsFileOpen, Given, FirstFree, IInv, TypeOK
  <2>2. CASE h = <<f, k>>
    BY <2>2 DEF fsFileOpen, IInv, TypeOK
  <2>3. CASE h \in held
    <3>1. fileList[h[2]] = h[1] /\ h[1] \in Files /\ h[2] \in Index
      BY <2>1, <2>3 DEF IInv, HeldTrue, TypeOK
    <3>2. h[2] # k
      BY <2>1, <3>1, TransferAssumption
    <3> QED
      BY <3>1, <3>2 DEF fsFileOpen, IInv, TypeOK
  <2> QED
    BY <2>2, <2>3 DEF fsFileOpen
<1>4. Walk' /\ InRequest' /\ Stored' /\ ReadSoFar'
  <2>1. overfull' \in BOOLEAN /\ (overfull => overfull')
    BY DEF fsFileOpen, IInv, TypeOK
  <2>2. mode' = "idle"
    BY DEF fsFileOpen
  <2>3. mode = "idle" /\ UNCHANGED <<store, handle, counters, buffer, contents>>
    BY DEF fsFileOpen
  <2> QED
    BY <2>1, <2>2, <2>3, TransferAlone
<1> QED
  BY <1>1, <1>2, <1>3, <1>4 DEF IInv

LEMMA OpenPastTableIInv ==
  ASSUME IInv, OpenPastTable
  PROVE  IInv'
<1>1. TypeOK'
  BY DEF IInv, TypeOK, OpenPastTable, counters, Mode
<1>2. TableTrue' /\ HeldTrue'
  BY DEF IInv, TableTrue, HeldTrue, OpenPastTable
<1>3. Walk' /\ InRequest' /\ Stored' /\ ReadSoFar'
  <2>1. /\ mode = "idle" /\ mode' \notin {"writing", "reading"} /\ overfull'
        /\ overfull' \in BOOLEAN
        /\ UNCHANGED <<store, handle, counters, buffer, contents>>
    BY DEF OpenPastTable
  <2> QED
    BY <2>1, TransferAlone
<1> QED
  BY <1>1, <1>2, <1>3 DEF IInv

LEMMA CloseIInv ==
  ASSUME IInv, NEW h \in held, fsFileClose(h)
  PROVE  IInv'
<1>0. h \in Files \X Index
  BY DEF IInv, TypeOK
<1>1. TypeOK'
  BY <1>0 DEF IInv, TypeOK, fsFileClose, counters
<1>2. TableTrue'
  BY <1>0 DEF IInv, TypeOK, TableTrue, fsFileClose
<1>3. HeldTrue'
  <2> SUFFICES ASSUME ~overfull, NEW g \in held, g # h PROVE fileList'[g[2]] = g[1]
    BY DEF HeldTrue, fsFileClose
  <2>1. fileList[g[2]] = g[1] /\ fileList[h[2]] = h[1] /\ g \in Files \X Index
    BY DEF IInv, HeldTrue, TypeOK
  <2>2. g[2] # h[2]
    BY <1>0, <2>1
  <2> QED
    BY <1>0, <2>1, <2>2 DEF fsFileClose, IInv, TypeOK
<1>4. Walk' /\ InRequest' /\ Stored' /\ ReadSoFar'
  <2>1. /\ mode = "idle" /\ mode' = "idle" /\ overfull' = overfull
        /\ UNCHANGED <<store, handle, counters, buffer, contents>>
    BY DEF fsFileClose
  <2>2. overfull' \in BOOLEAN
    BY <2>1 DEF IInv, TypeOK
  <2> QED
    BY <2>1, <2>2, TransferAlone
<1> QED
  BY <1>1, <1>2, <1>3, <1>4 DEF IInv

LEMMA StartIInv ==
  ASSUME IInv, NEW h \in held, NEW s \in Requests, NEW m \in {"writing", "reading"},
         Start(m, h, s)
  PROVE  IInv'
<1>0. h \in Files \X Index
  BY DEF IInv, TypeOK
<1>1. s \in 0 .. Word - 1
  BY TransferAssumption
<1>2. /\ fileList[h[2]] \in Files /\ fileSize[h[2]] = sizeOf[fileList[h[2]]]
      /\ sizeOf[fileList[h[2]]] \in Nat /\ sizeOf[fileList[h[2]]] + 2 < Word
  BY <1>0, TransferAssumption DEF IInv, TypeOK, TableTrue, Start
<1>3. 1 <= s /\ s <= fileSize[h[2]] + 2
  <2>1. CASE s = 0
    <3>1. (s - 1) % Word = Word - 1
      BY <2>1, TransferAssumption, SMT
    <3> QED
      BY <1>2, <3>1, TransferAssumption DEF Start, Refused
  <2>2. CASE s # 0
    <3>1. (s - 1) % Word = s - 1
      BY <1>1, <2>2, TransferAssumption, SMT
    <3> QED
      BY <1>1, <1>2, <2>2, <3>1, TransferAssumption DEF Start, Refused
  <2> QED
    BY <2>1, <2>2
<1>4. TypeOK'
  BY <1>0, <1>1, Sizes DEF IInv, TypeOK, Start, Mode, table, Handle
<1>5. Walk'
  <2>1. 0 * Payload = 0
    BY Sizes, SMT
  <2> QED
    BY <2>1 DEF Start, Walk
<1>6. InRequest'
  BY <1>1, <1>2, <1>3 DEF Start, InRequest, File, table
<1>7. TableTrue' /\ HeldTrue' /\ Stored'
  BY DEF IInv, TableTrue, HeldTrue, Stored, Start, table, Place
<1>8. ReadSoFar'
  BY DEF ReadSoFar, Start
<1> QED
  BY <1>4, <1>5, <1>6, <1>7, <1>8 DEF IInv

LEMMA WriteByteIInv ==
  ASSUME IInv, NEW b \in Byte, WriteByte(b)
  PROVE  IInv'
<1>1. /\ handle \in held /\ handle[1] \in Files /\ handle[2] \in Index /\ File \in Files
      /\ i \in 0 .. sizeOf[File] /\ Position = Place(i) /\ Position \in Bytes(File)
  BY PositionIsPlace DEF WriteByte, DataBytes, Busy
<1>2. /\ i' \in Nat /\ sector' \in Nat
      /\ sectorCounter' \in 0 .. SectorSize - 1
      /\ Walk'
  BY AdvanceWalks DEF WriteByte
<1> DEFINE c == contents[handle[1]]
           d == [j \in DOMAIN c \cup {i} |-> IF j = i THEN b ELSE c[j]]
<1>3. /\ DOMAIN contents' = Files /\ contents'[handle[1]] = d
      /\ \A f \in Files : f # handle[1] => contents'[f] = contents[f]
  BY <1>1 DEF WriteByte, IInv, TypeOK
<1>4. /\ DOMAIN store' = Files
      /\ store'[File] = [store[File] EXCEPT ![Position] = b]
      /\ \A f \in Files : f # File => store'[f] = store[f]
  BY <1>1 DEF WriteByte, IInv, TypeOK
<1>5. TypeOK'
  <2>1. \A f \in Files : DOMAIN contents'[f] \subseteq Nat
    BY <1>1, <1>3 DEF IInv, TypeOK
  <2>2. ASSUME NEW f \in Files PROVE store'[f] \in [Bytes(f) -> Byte]
    <3>1. store[f] \in [Bytes(f) -> Byte]
      BY DEF IInv, TypeOK
    <3>2. CASE f = File
      <4>1. store'[f] = [store[f] EXCEPT ![Position] = b] /\ Position \in Bytes(f)
        BY <1>1, <1>4, <3>2
      <4> QED
        BY <3>1, <4>1
    <3> QED
      BY <1>4, <3>1, <3>2
  <2> QED
    BY <1>2, <1>3, <1>4, <2>1, <2>2 DEF IInv, TypeOK, WriteByte, Advance, table
<1>6. InRequest'
  <2>1. sizeOf[File] \in Nat
    BY <1>1, Sizes
  <2> QED
    BY <1>1, <2>1 DEF IInv, TypeOK, InRequest, WriteByte, Advance, Busy, File, table
<1>7. TableTrue' /\ HeldTrue'
  BY DEF IInv, TableTrue, HeldTrue, WriteByte, table
<1>8. Stored'
  <2> SUFFICES ASSUME ~overfull, NEW f \in Files
               PROVE  /\ DOMAIN contents'[f] \subseteq 0 .. sizeOf[f]
                      /\ \A j \in DOMAIN contents'[f] : store'[f][Place(j)] = contents'[f][j]
    BY DEF Stored, WriteByte, table, Place
  <2>1. File = handle[1]
    BY FileIsCallers DEF WriteByte, Busy
  <2>2. /\ DOMAIN contents[f] \subseteq 0 .. sizeOf[f]
        /\ \A j \in DOMAIN contents[f] : store[f][Place(j)] = contents[f][j]
    BY DEF IInv, Stored
  <2>3. CASE f # File
    BY <1>3, <1>4, <2>1, <2>2, <2>3
  <2>4. CASE f = File
    <3>1. DOMAIN contents'[f] = DOMAIN contents[f] \cup {i}
      BY <1>3, <2>1, <2>4
    <3>2. DOMAIN contents'[f] \subseteq 0 .. sizeOf[f]
      BY <1>1, <2>2, <2>4, <3>1
    <3>3. ASSUME NEW j \in DOMAIN contents'[f]
          PROVE  store'[f][Place(j)] = contents'[f][j]
      <4>1. j \in Nat /\ i \in Nat
        BY <3>2, <1>1, Sizes
      <4>2. CASE j = i
        <5>1. contents'[f][j] = b
          BY <4>2, <1>3, <2>1, <2>4, <3>1
        <5>2. store'[f][Place(j)] = b
          BY <4>2, <1>1, <1>4, <2>4 DEF IInv, TypeOK
        <5> QED
          BY <5>1, <5>2
      <4>3. CASE j # i
        <5>1. j \in DOMAIN contents[f] /\ contents'[f][j] = contents[f][j]
          BY <4>3, <1>3, <2>1, <2>4, <3>1
        <5>2. Place(j) # Position /\ Place(j) \in Bytes(f)
          BY <1>1, <3>2, <4>1, <4>3, PlaceInjective, PlaceIsData DEF DataBytes
        <5>3. store'[f][Place(j)] = store[f][Place(j)]
          BY <5>2, <1>4, <2>4 DEF IInv, TypeOK
        <5> QED
          BY <5>1, <5>3, <2>2
      <4> QED
        BY <4>2, <4>3
    <3> QED
      BY <3>2, <3>3
  <2> QED
    BY <2>3, <2>4
<1>9. ReadSoFar'
  BY DEF ReadSoFar, WriteByte
<1> QED
  BY <1>2, <1>5, <1>6, <1>7, <1>8, <1>9 DEF IInv

LEMMA ReadByteIInv ==
  ASSUME IInv, ReadByte
  PROVE  IInv'
<1>1. /\ handle \in held /\ handle[1] \in Files /\ handle[2] \in Index /\ File \in Files
      /\ i \in 0 .. sizeOf[File] /\ Position = Place(i) /\ Position \in Bytes(File)
      /\ sizeOf[File] \in Nat
  BY PositionIsPlace, Sizes DEF ReadByte, DataBytes, Busy
<1>2. /\ i' \in Nat /\ sector' \in Nat
      /\ sectorCounter' \in 0 .. SectorSize - 1
      /\ Walk'
  BY AdvanceWalks DEF ReadByte
<1>3. store[File][Position] \in Byte /\ buffer \in Seq(Byte)
  BY <1>1 DEF IInv, TypeOK
<1>4. TypeOK'
  BY <1>2, <1>3 DEF IInv, TypeOK, ReadByte, Advance, table
<1>5. InRequest'
  BY <1>1 DEF IInv, TypeOK, InRequest, ReadByte, Advance, Busy, File, table
<1>6. TableTrue' /\ HeldTrue' /\ Stored'
  BY DEF IInv, TableTrue, HeldTrue, Stored, ReadByte, table, Place
<1>7. ReadSoFar'
  <2>1. Len(buffer) = i
    BY DEF IInv, ReadSoFar, ReadByte
  <2>2. /\ buffer' = Append(buffer, store[File][Position])
        /\ i' = i + 1 /\ contents' = contents /\ handle' = handle /\ overfull' = overfull
    BY DEF ReadByte, Advance, table
  <2>3. Len(buffer') = i'
    BY <1>3, <2>1, <2>2
  <2>4. ASSUME ~overfull, NEW j \in 1 .. i + 1, j - 1 \in DOMAIN contents[handle[1]]
        PROVE  buffer'[j] = contents[handle[1]][j - 1]
    <3>1. CASE j \in 1 .. i
      <4>1. buffer'[j] = buffer[j]
        BY <3>1, <1>1, <1>3, <2>1, <2>2
      <4> QED
        BY <4>1, <3>1, <2>4 DEF IInv, ReadSoFar, ReadByte
    <3>2. CASE j = i + 1
      <4>1. buffer'[j] = store[File][Place(i)]
        BY <3>2, <1>1, <1>3, <2>1, <2>2
      <4>2. j - 1 = i
        BY <3>2, <1>1
      <4>3. File = handle[1]
        BY <2>4, FileIsCallers DEF ReadByte, Busy
      <4> QED
        BY <1>1, <4>1, <4>2, <4>3, <2>4 DEF IInv, Stored
    <3> QED
      BY <3>1, <3>2, <1>1
  <2> QED
    BY <2>2, <2>3, <2>4 DEF ReadSoFar
<1> QED
  BY <1>2, <1>4, <1>5, <1>6, <1>7 DEF IInv

LEMMA ReturnIInv ==
  ASSUME IInv, Return
  PROVE  IInv'
<1>1. TypeOK'
  <2>1. 0 \in Index /\ 0 \in 0 .. SectorSize - 1
    BY Sizes, TransferAssumption DEF Index
  <2> QED
    BY <2>1, TransferAssumption DEF IInv, TypeOK, Return, table, Mode, Handle, NoHandle
<1>2. Walk'
  <2>1. 0 * Payload = 0
    BY Sizes, SMT
  <2> QED
    BY <2>1 DEF Return, Walk
<1>3. TableTrue' /\ HeldTrue' /\ Stored'
  BY DEF IInv, TableTrue, HeldTrue, Stored, Return, table, Place
<1>4. InRequest' /\ ReadSoFar'
  BY DEF InRequest, Busy, ReadSoFar, Return
<1> QED
  BY <1>1, <1>2, <1>3, <1>4 DEF IInv

LEMMA StepIInv == IInv /\ [Next]_vars => IInv'
<1> SUFFICES ASSUME IInv, [Next]_vars PROVE IInv'
  OBVIOUS
<1>1. CASE \E f \in Files, k \in Index : fsFileOpen(f, k)
  BY <1>1, OpenIInv
<1>2. CASE OpenPastTable
  BY <1>2, OpenPastTableIInv
<1>3. CASE \E h \in held : fsFileClose(h)
  BY <1>3, CloseIInv
<1>4. CASE \E h \in held, s \in Requests : StartWrite(h, s) \/ StartRead(h, s)
  BY <1>4, StartIInv DEF StartWrite, StartRead
<1>5. CASE \E b \in Byte : WriteByte(b)
  BY <1>5, WriteByteIInv
<1>6. CASE ReadByte
  BY <1>6, ReadByteIInv
<1>7. CASE Return
  BY <1>7, ReturnIInv
<1>8. CASE UNCHANGED vars
  BY <1>8 DEF vars, table, counters, IInv, TypeOK, Walk, InRequest, Busy, File, TableTrue,
              HeldTrue, Stored, ReadSoFar, Place
<1> QED
  BY <1>1, <1>2, <1>3, <1>4, <1>5, <1>6, <1>7, <1>8 DEF Next

LEMMA Invariance == Spec => []IInv
BY InitIInv, StepIInv, PTL DEF Spec

-----------------------------------------------------------------------------
(* The table, the loop counters and the bytes transferred keep their types.*)
THEOREM TypeCorrect == Spec => []TypeOK
<1>1. IInv => TypeOK
  BY DEF IInv
<1> QED
  BY <1>1, Invariance, PTL

(* fsFileRead returns what fsFileWrite stored at the same indexes of the   *)
(* file the caller opened.                                                 *)
THEOREM ReadBackCorrect == Spec => []ReadsBack
<1>1. IInv => ReadsBack
  <2> SUFFICES ASSUME IInv, mode = "reading", ~overfull, NEW j \in DOMAIN buffer,
                      j - 1 \in DOMAIN contents[handle[1]]
               PROVE  buffer[j] = contents[handle[1]][j - 1]
    BY DEF ReadsBack
  <2>1. DOMAIN buffer = 1 .. i
    BY DEF IInv, TypeOK, ReadSoFar
  <2> QED
    BY <2>1 DEF IInv, ReadSoFar
<1> QED
  BY <1>1, Invariance, PTL

(* fsFileWrite changes data bytes of its file's block and nothing else.    *)
THEOREM TransfersConfined == Spec => OnlyDataBytesChange
<1> DEFINE Confined ==
      \A f \in Files : \A a \in Bytes(f) :
        store'[f][a] # store[f][a] => /\ a \in DataBytes(f)
                                      /\ ~overfull => f = handle[1]
<1>1. IInv /\ [Next]_vars => [Confined]_vars
  <2> SUFFICES ASSUME IInv, Next, NEW f \in Files, NEW a \in Bytes(f),
                      store'[f][a] # store[f][a]
               PROVE  a \in DataBytes(f) /\ (~overfull => f = handle[1])
    BY DEF vars
  <2>1. PICK b \in Byte : WriteByte(b)
    BY DEF Next, fsFileOpen, OpenPastTable, fsFileClose, Start, StartWrite, StartRead,
           ReadByte, Return
  <2>2. Busy /\ i < size - 1
    BY <2>1 DEF WriteByte, Busy
  <2>3. File \in Files /\ Position \in DataBytes(File)
    BY <2>2, PositionIsPlace
  <2>4. f = File /\ a = Position
    BY <2>1, <2>3 DEF WriteByte, IInv, TypeOK
  <2> QED
    BY <2>2, <2>3, <2>4, FileIsCallers
<1> QED
  BY <1>1, Invariance, PTL DEF Spec, OnlyDataBytesChange
=============================================================================
