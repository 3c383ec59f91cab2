-------------------------- MODULE RetroAvrBusProofs -------------------------
(***************************************************************************)
(* The cache of the RetroAVR X4 is invisible, for every size of memory and *)
(* of window: it implements Memory.  A miss turns the store into what the  *)
(* kernel saw, whether or not a byte was modified, and the window it       *)
(* fetches, which may run past the top of memory to the bottom, agrees     *)
(* with that store byte for byte.                                          *)
(***************************************************************************)
EXTENDS RetroAvrBus, TLAPS

USE RetroAvrAssumption DEF Address, Offset

LEMMA InitType == BusInit => BusTypeOK
BY DEF BusInit, BusTypeOK

(* What a miss writes to the store is the view.                            *)
LEMMA WriteBackLemma ==
  ASSUME BusTypeOK
  PROVE  /\ WrittenBack \in [Address -> Byte]
         /\ View = WrittenBack
BY DEF WrittenBack, View, BusTypeOK, OffsetOf

LEMMA FetchLemma ==
  ASSUME BusTypeOK, NEW a \in Address
  PROVE  /\ Fetched(a) \in [Offset -> Byte]
         /\ \A p \in Address :
              LET i == IF p >= a THEN p - a ELSE p + Space - a
              IN  i \in Offset => Fetched(a)[i] = View[p]
         /\ 0 \in Offset /\ Fetched(a)[0] = View[a]
<1>1. ASSUME NEW i \in Offset PROVE OnBus(a + i) \in Address
  BY DEF OnBus
<1>2. Fetched(a) \in [Offset -> Byte]
  BY <1>1, WriteBackLemma DEF Fetched
<1>3. ASSUME NEW p \in Address, NEW i \in Offset,
             i = IF p >= a THEN p - a ELSE p + Space - a
      PROVE  Fetched(a)[i] = View[p]
  <2>1. OnBus(a + i) = p
    BY <1>3 DEF OnBus
  <2> QED BY <2>1, WriteBackLemma DEF Fetched
<1>4. 0 \in Offset /\ 0 = IF a >= a THEN a - a ELSE a + Space - a
  OBVIOUS
<1>5. Fetched(a)[0] = View[a]
  BY <1>3, <1>4
<1> QED BY <1>2, <1>3, <1>4, <1>5

(* A window whose bytes are those of a memory f stands for that memory.    *)
LEMMA MissLemma ==
  ASSUME BusTypeOK, NEW a \in Address, bus_flush_cache(a),
         NEW f \in [Address -> Byte], cache' \in [Offset -> Byte],
         \A p \in Address :
           LET i == IF p >= a THEN p - a ELSE p + Space - a
           IN  f[p] = IF i \in Offset THEN cache'[i] ELSE View[p]
  PROVE  View' = f
<1>1. store' = View /\ cache_begin' = a
  BY WriteBackLemma DEF bus_flush_cache
<1>2. View' = [p \in Address |->
                 IF (IF p >= a THEN p - a ELSE p + Space - a) \in Offset
                 THEN cache'[IF p >= a THEN p - a ELSE p + Space - a] ELSE View[p]]
  BY <1>1 DEF View, OffsetOf
<1> QED BY <1>2

LEMMA ViewType == BusTypeOK => View \in [Address -> Byte]
BY WriteBackLemma

-----------------------------------------------------------------------------
LEMMA ReadStep ==
  ASSUME BusTypeOK, NEW a \in Address, bus_read_memory(a)
  PROVE  BusTypeOK' /\ ImplementedMemory!Read(a)
<1>1. CASE Hit(a) /\ out' = [addr |-> a, val |-> cache[a - cache_begin]]
           /\ UNCHANGED <<store, cache, cache_begin, cache_end, deviceVars>>
  <2>1. a - cache_begin \in Offset /\ OffsetOf(a) = a - cache_begin
    BY <1>1 DEF BusTypeOK, Hit, OffsetOf
  <2>2. cache[a - cache_begin] \in Byte /\ View[a] = cache[a - cache_begin]
    BY <2>1 DEF BusTypeOK, View
  <2>3. BusTypeOK'
    BY <1>1, <2>2 DEF BusTypeOK, deviceVars
  <2>4. View' = View
    BY <1>1 DEF View, OffsetOf
  <2> QED BY <1>1, <2>2, <2>3, <2>4 DEF ImplementedMemory!Read
<1>2. CASE bus_flush_cache(a) /\ cache' = Fetched(a)
           /\ out' = [addr |-> a, val |-> Fetched(a)[0]] /\ UNCHANGED deviceVars
  <2>1. View' = View
    BY <1>2, FetchLemma, ViewType, MissLemma
  <2>2. Fetched(a)[0] \in Byte
    BY FetchLemma
  <2>3. BusTypeOK'
    BY <1>2, <2>2, FetchLemma, WriteBackLemma DEF BusTypeOK, bus_flush_cache, deviceVars
  <2> QED BY <1>2, <2>1, <2>2, <2>3, FetchLemma DEF ImplementedMemory!Read
<1> QED BY <1>1, <1>2 DEF bus_read_memory

LEMMA WriteStep ==
  ASSUME BusTypeOK, NEW a \in Address, NEW b \in Byte, bus_write_memory(a, b)
  PROVE  BusTypeOK' /\ ImplementedMemory!Write(a, b)
<1> DEFINE f == [View EXCEPT ![a] = b]
<1>1. f \in [Address -> Byte] /\ f[a] = b /\ \A p \in Address : p # a => f[p] = View[p]
  BY ViewType
<1>2. CASE Hit(a) /\ cache' = [cache EXCEPT ![a - cache_begin] = b]
           /\ UNCHANGED <<store, cache_begin, cache_end, out, deviceVars>>
  <2>1. a - cache_begin \in Offset /\ OffsetOf(a) = a - cache_begin
    BY <1>2 DEF BusTypeOK, Hit, OffsetOf
  <2>2. BusTypeOK'
    BY <1>2, <2>1 DEF BusTypeOK, deviceVars
  <2>3. View' = [p \in Address |-> IF OffsetOf(p) \in Offset THEN cache'[OffsetOf(p)] ELSE store[p]]
    BY <1>2 DEF View, OffsetOf
  <2>4. ASSUME NEW p \in Address
        PROVE  f[p] = IF OffsetOf(p) \in Offset THEN cache'[OffsetOf(p)] ELSE store[p]
    <3>1. CASE p = a
      BY <1>1, <1>2, <2>1, <3>1 DEF BusTypeOK, deviceVars
    <3>2. CASE p # a
      <4>1. OffsetOf(p) \in Offset => OffsetOf(p) # a - cache_begin
        BY <2>1, <3>2 DEF BusTypeOK, OffsetOf
      <4>2. OffsetOf(p) \in Offset => cache'[OffsetOf(p)] = cache[OffsetOf(p)]
        BY <1>2, <4>1 DEF BusTypeOK, deviceVars
      <4> QED BY <1>1, <3>2, <4>2 DEF View
    <3> QED BY <3>1, <3>2
  <2>5. View' = f
    BY <1>1, <2>3, <2>4
  <2> QED BY <1>2, <2>2, <2>5 DEF ImplementedMemory!Write
<1>3. CASE bus_flush_cache(a) /\ cache' = [Fetched(a) EXCEPT ![0] = b]
           /\ UNCHANGED <<out, deviceVars>>
  <2>1. cache' \in [Offset -> Byte] /\ cache'[0] = b
        /\ \A i \in Offset : i # 0 => cache'[i] = Fetched(a)[i]
    BY <1>3, FetchLemma
  <2>2. ASSUME NEW p \in Address, NEW i \in Int,
               i = IF p >= a THEN p - a ELSE p + Space - a
        PROVE  f[p] = IF i \in Offset THEN cache'[i] ELSE View[p]
    <3>1. CASE p = a
      BY <1>1, <2>1, <2>2, <3>1
    <3>2. CASE p # a
      <4>1. i # 0
        BY <2>2, <3>2
      <4>2. i \in Offset => Fetched(a)[i] = View[p]
        BY <2>2, FetchLemma
      <4> QED BY <1>1, <2>1, <3>2, <4>1, <4>2
    <3> QED BY <3>1, <3>2
  <2>3. \A p \in Address :
          LET i == IF p >= a THEN p - a ELSE p + Space - a
          IN  f[p] = IF i \in Offset THEN cache'[i] ELSE View[p]
    BY <2>2
  <2>4. View' = f
    BY <1>1, <1>3, <2>1, <2>3, MissLemma
  <2>5. BusTypeOK'
    BY <1>3, <2>1, WriteBackLemma DEF BusTypeOK, bus_flush_cache, deviceVars
  <2> QED BY <1>3, <2>4, <2>5 DEF ImplementedMemory!Write
<1> QED BY <1>2, <1>3 DEF bus_write_memory

LEMMA BusStep ==
  ASSUME BusTypeOK, [BusNext]_busVars
  PROVE  BusTypeOK' /\ [ImplementedMemory!Next]_<<View, out>>
<1>1. ASSUME NEW a \in Address, bus_read_memory(a)
      PROVE  BusTypeOK' /\ ImplementedMemory!Next
  BY <1>1, ReadStep DEF ImplementedMemory!Next
<1>2. ASSUME NEW a \in Address, NEW b \in Byte, bus_write_memory(a, b)
      PROVE  BusTypeOK' /\ ImplementedMemory!Next
  BY <1>2, WriteStep DEF ImplementedMemory!Next
<1>3. ASSUME NEW r \in Registers, bus_read_byte(r) \/ \E b \in Byte : bus_write_byte(r, b)
      PROVE  BusTypeOK' /\ UNCHANGED <<View, out>>
  <2>1. UNCHANGED <<store, cache, cache_begin, cache_end, out>>
    BY <1>3 DEF bus_read_byte, bus_read_io, bus_write_byte, bus_write_io
  <2>2. device' \in [Registers -> Byte] /\ port' \in Byte
    BY <1>3 DEF bus_read_byte, bus_read_io, bus_write_byte, bus_write_io, BusTypeOK
  <2> QED BY <2>1, <2>2 DEF BusTypeOK, View, OffsetOf
<1>4. CASE UNCHANGED busVars
  BY <1>4 DEF busVars, deviceVars, BusTypeOK, View, OffsetOf
<1> QED BY <1>1, <1>2, <1>3, <1>4 DEF BusNext

-----------------------------------------------------------------------------
(* The window and the store keep their types: the end of the window is its *)
(* last address, but for the window that was never fetched.                *)
THEOREM BusTypeCorrect == BusSpec => []BusTypeOK
BY InitType, BusStep, PTL DEF BusSpec

(* bus_read_memory returns the byte last given to bus_write_memory: this   *)
(* cache, without dirty bits, implements plain memory too.                 *)
THEOREM BusImplementsMemory == BusSpec => ImplementsMemory
<1>1. BusInit => BusTypeOK /\ ImplementedMemory!Init
  <2>1. BusInit => View \in [Address -> Byte]
    BY InitType, ViewType
  <2> QED BY <2>1, InitType DEF BusInit, ImplementedMemory!Init
<1> QED
  BY BusStep, <1>1, PTL
  DEF BusSpec, ImplementsMemory, ImplementedMemory!Spec, ImplementedMemory!memVars
=============================================================================
