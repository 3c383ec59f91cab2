--------------------------- MODULE BusCacheProofs ---------------------------
(***************************************************************************)
(* The bus cache is invisible: for every RAM size, bus width, window size  *)
(* and byte type, BusCache implements Memory and leaves the peripheral     *)
(* registers alone.  The argument is one lemma: writing the modified bytes *)
(* back turns the store into what the kernel saw through the window.       *)
(***************************************************************************)
EXTENDS BusCache, TLAPS

USE BusAssumption DEF Address, Ram, Peripheral, Offset

(* The inductive invariant.  CleanBytesMatch alone is not inductive: a     *)
(* miss needs every dirty byte to lie in the window and in RAM.            *)
CacheInv == TypeOK /\ CleanBytesMatch /\ DirtyIsRam

LEMMA InitInv == Init => CacheInv
BY DEF Init, CacheInv, TypeOK, CleanBytesMatch, DirtyIsRam, Hit

(* Written back, the store holds what the kernel saw: the view in RAM, and *)
(* the registers unchanged.                                                *)
LEMMA WriteBackLemma ==
  ASSUME CacheInv
  PROVE  /\ WrittenBack \in [Address -> Byte]
         /\ \A a \in Ram : WrittenBack[a] = View[a]
         /\ \A p \in Peripheral : WrittenBack[p] = store[p]
<1> USE DEF CacheInv, TypeOK
<1>1. WrittenBack \in [Address -> Byte]
  BY DEF WrittenBack
<1>2. ASSUME NEW a \in Ram PROVE WrittenBack[a] = View[a]
  <2>1. WrittenBack[a] = IF OffsetOf(a) \in dirty_bits
                         THEN cache[OffsetOf(a)] ELSE store[a]
    BY DEF WrittenBack
  <2>2. View[a] = IF Hit(a) THEN cache[a - cache_begin] ELSE store[a]
    BY DEF View
  <2>3. CASE Hit(a)
    <3>1. OffsetOf(a) = a - cache_begin
      BY <2>3 DEF OffsetOf, Hit
    <3>2. OffsetOf(a) \notin dirty_bits => cache[a - cache_begin] = store[a]
      BY <2>3, <3>1 DEF CleanBytesMatch
    <3> QED BY <2>1, <2>2, <2>3, <3>1, <3>2
  <2>4. CASE ~Hit(a)
    <3>1. OffsetOf(a) \notin dirty_bits
      <4> SUFFICES ASSUME OffsetOf(a) \in dirty_bits PROVE FALSE
        OBVIOUS
      <4>1. cache_begin + OffsetOf(a) \in Ram /\ Hit(cache_begin + OffsetOf(a))
        BY DEF DirtyIsRam
      <4>2. cache_begin + OffsetOf(a) = a
        BY <4>1 DEF OffsetOf
      <4> QED BY <2>4, <4>1, <4>2
    <3> QED BY <2>1, <2>2, <2>4, <3>1
  <2> QED BY <2>3, <2>4
<1>3. ASSUME NEW p \in Peripheral PROVE WrittenBack[p] = store[p]
  <2>1. OffsetOf(p) \notin dirty_bits
    BY DEF DirtyIsRam, OffsetOf
  <2> QED BY <2>1 DEF WrittenBack
<1> QED BY <1>1, <1>2, <1>3

(* The window fetched at an address of the bus: every byte is a byte, and  *)
(* the part of it in RAM is the view.                                      *)
LEMMA FetchLemma ==
  ASSUME CacheInv, NEW a \in Address
  PROVE  /\ Fetched(a) \in [Offset -> Byte]
         /\ \A i \in Offset : a + i \in Ram => Fetched(a)[i] = View[a + i]
<1>1. ASSUME NEW i \in Offset PROVE OnBus(a + i) \in Address
  BY DEF OnBus
<1>2. Fetched(a) \in [Offset -> Byte]
  BY <1>1, WriteBackLemma DEF Fetched
<1>3. ASSUME NEW i \in Offset, a + i \in Ram
      PROVE  Fetched(a)[i] = View[a + i]
  <2>1. OnBus(a + i) = a + i
    BY <1>3 DEF OnBus
  <2> QED BY <1>3, <2>1, WriteBackLemma DEF Fetched
<1> QED BY <1>2, <1>3

-----------------------------------------------------------------------------
(* Each action keeps the invariant and changes the view, the registers and *)
(* the last read as the abstract memory allows.                            *)
LEMMA ReadHitStep ==
  ASSUME CacheInv, NEW a \in Address, ReadHit(a)
  PROVE  CacheInv' /\ View' = View /\ ImplementedMemory!Read(a)
<1>1. CacheInv' /\ View' = View
  BY DEF CacheInv, TypeOK, CleanBytesMatch, DirtyIsRam, Hit, View, ReadHit,
         cacheVars
<1>2. a - cache_begin \in Offset
  BY DEF CacheInv, TypeOK, ReadHit, Hit
<1>3. out' \in [addr: {a}, val: Byte]
  BY <1>2 DEF CacheInv, TypeOK, ReadHit
<1>4. a \in Ram => out'.val = View[a]
  BY DEF ReadHit, View
<1> QED BY <1>1, <1>3, <1>4 DEF ImplementedMemory!Read

LEMMA ReadMissStep ==
  ASSUME CacheInv, NEW a \in Address, ReadMiss(a)
  PROVE  CacheInv' /\ View' = View /\ ImplementedMemory!Read(a)
<1>1. /\ store' = WrittenBack /\ cache' = Fetched(a) /\ dirty_bits' = {}
      /\ cache_begin' = a /\ cache_end' = a + CacheSize
      /\ out' = [addr |-> a, val |-> Fetched(a)[0]]
  BY DEF ReadMiss, MoveWindow
<1>2. /\ WrittenBack \in [Address -> Byte]
      /\ \A x \in Ram : WrittenBack[x] = View[x]
  BY WriteBackLemma
<1>3. /\ Fetched(a) \in [Offset -> Byte]
      /\ \A i \in Offset : a + i \in Ram => Fetched(a)[i] = View[a + i]
  BY FetchLemma
<1>4. 0 \in Offset /\ Fetched(a)[0] \in Byte
  BY <1>3
<1>5. \A x \in Ram : Hit(x)' <=> a <= x /\ x < a + CacheSize
  BY <1>1 DEF Hit
<1>6. \A x \in Ram : Hit(x)' => /\ x - a \in Offset
                                /\ Fetched(a)[x - a] = View[x]
  <2> SUFFICES ASSUME NEW x \in Ram, Hit(x)'
               PROVE  x - a \in Offset /\ Fetched(a)[x - a] = View[x]
    OBVIOUS
  <2>1. x - a \in Offset /\ a + (x - a) = x
    BY <1>5
  <2> QED BY <1>3, <2>1
<1>7. TypeOK'
  BY <1>1, <1>2, <1>3, <1>4 DEF TypeOK
<1>8. CleanBytesMatch'
  BY <1>1, <1>2, <1>6 DEF CleanBytesMatch
<1>9. DirtyIsRam'
  BY <1>1 DEF DirtyIsRam
<1>10. View' = View
  <2>1. View' = [x \in Ram |-> IF Hit(x)' THEN Fetched(a)[x - a]
                                          ELSE WrittenBack[x]]
    BY <1>1 DEF View
  <2>2. \A x \in Ram : (IF Hit(x)' THEN Fetched(a)[x - a] ELSE WrittenBack[x])
                       = View[x]
    BY <1>2, <1>6
  <2>3. View = [x \in Ram |-> View[x]]
    BY DEF View
  <2> QED BY <2>1, <2>2, <2>3
<1>11. a \in Ram => Fetched(a)[0] = View[a]
  BY <1>3, <1>4
<1> QED
  BY <1>1, <1>4, <1>7, <1>8, <1>9, <1>10, <1>11
  DEF CacheInv, ImplementedMemory!Read

LEMMA WriteHitStep ==
  ASSUME CacheInv, NEW a \in Ram, NEW b \in Byte, WriteHit(a, b)
  PROVE  CacheInv' /\ ImplementedMemory!Write(a, b)
<1> DEFINE k == a - cache_begin
<1>1. /\ store' = store /\ out' = out
      /\ cache_begin' = cache_begin /\ cache_end' = cache_end
      /\ cache' = [cache EXCEPT ![k] = b]
      /\ dirty_bits' = dirty_bits \cup {k}
  BY DEF WriteHit
<1>2. k \in Offset /\ cache_begin + k = a /\ Hit(a)
  BY DEF CacheInv, TypeOK, WriteHit, Hit
<1>3. \A x : Hit(x)' <=> Hit(x)
  BY <1>1 DEF Hit
<1>4. TypeOK'
  BY <1>1, <1>2 DEF CacheInv, TypeOK
<1>5. CleanBytesMatch'
  <2> SUFFICES ASSUME NEW x \in Ram, Hit(x), x - cache_begin \notin dirty_bits'
               PROVE  cache'[x - cache_begin] = store[x]
    BY <1>1, <1>3 DEF CleanBytesMatch
  <2>1. x - cache_begin # k /\ x - cache_begin \in Offset
    BY <1>1 DEF CacheInv, TypeOK, Hit
  <2>2. cache'[x - cache_begin] = cache[x - cache_begin]
    BY <1>1, <2>1 DEF CacheInv, TypeOK
  <2> QED BY <1>1, <2>2 DEF CacheInv, CleanBytesMatch
<1>6. DirtyIsRam'
  BY <1>1, <1>2, <1>3 DEF CacheInv, DirtyIsRam
<1>7. View' = [View EXCEPT ![a] = b]
  <2>1. View' = [x \in Ram |-> IF Hit(x) THEN cache'[x - cache_begin]
                                         ELSE store[x]]
    BY <1>1, <1>3 DEF View
  <2>2. ASSUME NEW x \in Ram
        PROVE  (IF Hit(x) THEN cache'[x - cache_begin] ELSE store[x])
               = (IF x = a THEN b ELSE View[x])
    <3>1. CASE x = a
      BY <1>1, <1>2, <3>1 DEF CacheInv, TypeOK
    <3>2. CASE x # a
      <4>1. Hit(x) => x - cache_begin \in Offset /\ x - cache_begin # k
        BY <3>2 DEF CacheInv, TypeOK, Hit
      <4>2. Hit(x) => cache'[x - cache_begin] = cache[x - cache_begin]
        BY <1>1, <4>1 DEF CacheInv, TypeOK
      <4> QED BY <3>2, <4>2 DEF View
    <3> QED BY <3>1, <3>2
  <2>3. [View EXCEPT ![a] = b] = [x \in Ram |-> IF x = a THEN b ELSE View[x]]
    BY DEF View
  <2> QED BY <2>1, <2>2, <2>3
<1> QED
  BY <1>1, <1>4, <1>5, <1>6, <1>7 DEF CacheInv, ImplementedMemory!Write

LEMMA WriteMissStep ==
  ASSUME CacheInv, NEW a \in Ram, NEW b \in Byte, WriteMiss(a, b)
  PROVE  CacheInv' /\ ImplementedMemory!Write(a, b)
<1>1. /\ store' = WrittenBack /\ cache' = [Fetched(a) EXCEPT ![0] = b]
      /\ dirty_bits' = {0} /\ cache_begin' = a /\ cache_end' = a + CacheSize
      /\ out' = out
  BY DEF WriteMiss, MoveWindow
<1>2. /\ WrittenBack \in [Address -> Byte]
      /\ \A x \in Ram : WrittenBack[x] = View[x]
  BY WriteBackLemma
<1>3. a \in Address
  OBVIOUS
<1>4. /\ Fetched(a) \in [Offset -> Byte]
      /\ \A i \in Offset : a + i \in Ram => Fetched(a)[i] = View[a + i]
  BY <1>3, FetchLemma
<1>5. cache' \in [Offset -> Byte] /\ cache'[0] = b
      /\ \A i \in Offset : i # 0 => cache'[i] = Fetched(a)[i]
  BY <1>1, <1>4
<1>6. \A x \in Ram : Hit(x)' <=> a <= x /\ x < a + CacheSize
  BY <1>1 DEF Hit
<1>7. \A x \in Ram : Hit(x)' /\ x # a => /\ x - a \in Offset /\ x - a # 0
                                         /\ cache'[x - a] = View[x]
  <2> SUFFICES ASSUME NEW x \in Ram, Hit(x)', x # a
               PROVE  x - a \in Offset /\ x - a # 0 /\ cache'[x - a] = View[x]
    OBVIOUS
  <2>1. x - a \in Offset /\ x - a # 0 /\ a + (x - a) = x
    BY <1>6
  <2> QED BY <1>4, <1>5, <2>1
<1>8. TypeOK'
  BY <1>1, <1>2, <1>3, <1>5 DEF CacheInv, TypeOK
<1>9. CleanBytesMatch'
  BY <1>1, <1>2, <1>7 DEF CleanBytesMatch
<1>10. DirtyIsRam'
  BY <1>1, <1>6 DEF DirtyIsRam
<1>11. View' = [View EXCEPT ![a] = b]
  <2>1. View' = [x \in Ram |-> IF Hit(x)' THEN cache'[x - a]
                                          ELSE WrittenBack[x]]
    BY <1>1 DEF View
  <2>2. \A x \in Ram : (IF Hit(x)' THEN cache'[x - a] ELSE WrittenBack[x])
                       = (IF x = a THEN b ELSE View[x])
    BY <1>2, <1>5, <1>6, <1>7
  <2>3. [View EXCEPT ![a] = b] = [x \in Ram |-> IF x = a THEN b ELSE View[x]]
    BY DEF View
  <2> QED BY <2>1, <2>2, <2>3
<1> QED
  BY <1>1, <1>8, <1>9, <1>10, <1>11 DEF CacheInv, ImplementedMemory!Write

(* The uncached calls: the RAM test while the window is empty, drivers and *)
(* devices on registers that are never in RAM.                             *)
LEMMA RamTestWriteStep ==
  ASSUME CacheInv, NEW a \in Ram, NEW b \in Byte, RamTestWrite(a, b)
  PROVE  CacheInv' /\ ImplementedMemory!Write(a, b)
<1>1. /\ store' = [store EXCEPT ![a] = b] /\ out' = out
      /\ UNCHANGED <<cache, dirty_bits, cache_begin, cache_end>>
      /\ cache_end = 0
  BY DEF RamTestWrite, cacheVars
<1>2. \A x \in Ram : ~Hit(x) /\ ~Hit(x)'
  BY <1>1 DEF CacheInv, TypeOK, Hit
<1>3. CacheInv'
  BY <1>1, <1>2 DEF CacheInv, TypeOK, CleanBytesMatch, DirtyIsRam, Hit
<1>4. View' = [View EXCEPT ![a] = b]
  <2>1. View' = [x \in Ram |-> store'[x]]
    BY <1>2 DEF View
  <2>2. View = [x \in Ram |-> store[x]]
    BY <1>2 DEF View
  <2>3. \A x \in Ram : store'[x] = IF x = a THEN b ELSE store[x]
    BY <1>1 DEF CacheInv, TypeOK
  <2>4. [View EXCEPT ![a] = b] = [x \in Ram |-> IF x = a THEN b ELSE store[x]]
    BY <2>2
  <2> QED BY <2>1, <2>3, <2>4
<1> QED BY <1>1, <1>3, <1>4 DEF ImplementedMemory!Write

LEMMA RamTestReadStep ==
  ASSUME CacheInv, NEW a \in Ram, RamTestRead(a)
  PROVE  CacheInv' /\ View' = View /\ ImplementedMemory!Read(a)
<1>1. /\ UNCHANGED <<store, cache, dirty_bits, cache_begin, cache_end>>
      /\ cache_end = 0 /\ out' = [addr |-> a, val |-> store[a]]
  BY DEF RamTestRead, cacheVars
<1>2. store[a] \in Byte /\ View[a] = store[a]
  BY <1>1 DEF CacheInv, TypeOK, View, Hit
<1>3. CacheInv' /\ View' = View
  BY <1>1, <1>2 DEF CacheInv, TypeOK, CleanBytesMatch, DirtyIsRam, Hit, View
<1> QED BY <1>1, <1>2, <1>3 DEF ImplementedMemory!Read

LEMMA DriverReadStep ==
  ASSUME CacheInv, NEW p \in Peripheral, DriverRead(p)
  PROVE  CacheInv' /\ View' = View /\ ImplementedMemory!Read(p)
<1>1. /\ UNCHANGED <<store, cache, dirty_bits, cache_begin, cache_end>>
      /\ out' = [addr |-> p, val |-> store[p]]
  BY DEF DriverRead, cacheVars
<1>2. CacheInv' /\ View' = View
  BY <1>1 DEF CacheInv, TypeOK, CleanBytesMatch, DirtyIsRam, Hit, View
<1>3. store[p] \in Byte /\ p \notin Ram
  BY DEF CacheInv, TypeOK
<1> QED BY <1>1, <1>2, <1>3 DEF ImplementedMemory!Read

LEMMA RegisterStep ==
  ASSUME CacheInv, NEW p \in Peripheral, NEW b \in Byte,
         DriverWrite(p, b) \/ DeviceChange(p, b)
  PROVE  CacheInv' /\ View' = View /\ out' = out
<1>1. /\ UNCHANGED <<out, cache, dirty_bits, cache_begin, cache_end>>
      /\ store' = [store EXCEPT ![p] = b]
  BY DEF DriverWrite, DeviceChange, cacheVars
<1>2. store' \in [Address -> Byte] /\ \A x \in Ram : store'[x] = store[x]
  BY <1>1 DEF CacheInv, TypeOK
<1>3. CacheInv' /\ View' = View
  BY <1>1, <1>2 DEF CacheInv, TypeOK, CleanBytesMatch, DirtyIsRam, Hit, View
<1> QED BY <1>1, <1>3

-----------------------------------------------------------------------------
LEMMA NextStep ==
  ASSUME CacheInv, [Next]_vars
  PROVE  CacheInv' /\ [ImplementedMemory!Next]_<<View, out>>
<1>1. ASSUME NEW a \in Address, ReadMemory(a)
      PROVE  CacheInv' /\ ImplementedMemory!Next
  BY <1>1, ReadHitStep, ReadMissStep DEF ReadMemory, ImplementedMemory!Next
<1>2. ASSUME NEW a \in Ram, NEW b \in Byte, WriteMemory(a, b)
      PROVE  CacheInv' /\ ImplementedMemory!Next
  BY <1>2, WriteHitStep, WriteMissStep DEF WriteMemory, ImplementedMemory!Next
<1>3. ASSUME NEW a \in Ram, NEW b \in Byte, RamTestWrite(a, b)
      PROVE  CacheInv' /\ ImplementedMemory!Next
  BY <1>3, RamTestWriteStep DEF ImplementedMemory!Next
<1>4. ASSUME NEW a \in Ram, RamTestRead(a)
      PROVE  CacheInv' /\ ImplementedMemory!Next
  BY <1>4, RamTestReadStep DEF ImplementedMemory!Next
<1>5. ASSUME NEW p \in Peripheral, DriverRead(p)
      PROVE  CacheInv' /\ ImplementedMemory!Next
  <2>1. p \in Address
    OBVIOUS
  <2> QED BY <1>5, <2>1, DriverReadStep DEF ImplementedMemory!Next
<1>6. ASSUME NEW p \in Peripheral, NEW b \in Byte,
             DriverWrite(p, b) \/ DeviceChange(p, b)
      PROVE  CacheInv' /\ UNCHANGED <<View, out>>
  BY <1>6, RegisterStep
<1>7. CASE UNCHANGED vars
  BY <1>7 DEF vars, cacheVars, CacheInv, TypeOK, CleanBytesMatch, DirtyIsRam,
              Hit, View
<1> QED BY <1>1, <1>2, <1>3, <1>4, <1>5, <1>6, <1>7 DEF Next

(* A step that moves or changes the window leaves every register alone.    *)
LEMMA RegisterLemma ==
  ASSUME CacheInv, [Next]_vars, cacheVars' # cacheVars, NEW p \in Peripheral
  PROVE  store'[p] = store[p]
<1>1. WrittenBack[p] = store[p]
  BY WriteBackLemma
<1>2. ASSUME NEW a \in Address, ReadMemory(a) PROVE store'[p] = store[p]
  BY <1>1, <1>2 DEF ReadMemory, ReadHit, ReadMiss, MoveWindow
<1>3. ASSUME NEW a \in Ram, NEW b \in Byte, WriteMemory(a, b)
      PROVE  store'[p] = store[p]
  BY <1>1, <1>3 DEF WriteMemory, WriteHit, WriteMiss, MoveWindow
<1> QED
  BY <1>2, <1>3 DEF Next, RamTestWrite, RamTestRead, DriverRead, DriverWrite,
                    DeviceChange, vars

-----------------------------------------------------------------------------
(* The state variables keep their types.                                   *)
THEOREM TypeCorrect == Spec => []TypeOK
<1>1. CacheInv => TypeOK
  BY DEF CacheInv
<1> QED BY InitInv, NextStep, <1>1, PTL DEF Spec

(* A clean byte of the window is never out of date (bus_flush_cache drops  *)
(* it without writing it back).                                            *)
THEOREM CleanBytesCorrect == Spec => []CleanBytesMatch
<1>1. CacheInv => CleanBytesMatch
  BY DEF CacheInv
<1> QED BY InitInv, NextStep, <1>1, PTL DEF Spec

(* Dirty bytes stay in the window and in RAM.                              *)
THEOREM DirtyCorrect == Spec => []DirtyIsRam
<1>1. CacheInv => DirtyIsRam
  BY DEF CacheInv
<1> QED BY InitInv, NextStep, <1>1, PTL DEF Spec

(* bus_read_memory returns the byte last given to bus_write_memory: the    *)
(* cached bus implements plain memory.                                     *)
THEOREM CacheImplementsMemory == Spec => ImplementsMemory
<1>1. Init => ImplementedMemory!Init
  BY DEF Init, ImplementedMemory!Init, View, Hit
<1> QED
  BY InitInv, NextStep, <1>1, PTL
  DEF Spec, ImplementsMemory, ImplementedMemory!Spec, ImplementedMemory!memVars

(* Cached traffic never writes a device register.                          *)
THEOREM RegistersCorrect == Spec => RegistersSafe
<1>1. CacheInv /\ [Next]_vars =>
        [cacheVars' # cacheVars =>
           \A p \in Peripheral : store'[p] = store[p]]_vars
  BY RegisterLemma
<1> QED BY InitInv, NextStep, <1>1, PTL DEF Spec, RegistersSafe
=============================================================================
