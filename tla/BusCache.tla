------------------------------ MODULE BusCache ------------------------------
(***************************************************************************)
(* The memory bus of the Retroboard REV2 with its write-back cache         *)
(* (kernel/bus/Retroboard_REV2/bus.c).                                     *)
(*                                                                         *)
(* The cache is one window of CacheSize bytes.  A miss writes the modified *)
(* bytes of the old window back, then fetches the window that STARTS at    *)
(* the missed address: windows are not aligned, so two windows can share   *)
(* bytes, and a window fetched near the end of RAM reaches into the        *)
(* address space of the peripherals.  The drivers use the uncached calls.  *)
(***************************************************************************)
EXTENDS Integers

CONSTANTS
  RamSize,    (* MAX_MEMORY_SIZE: first address of the peripherals      *)
  Space,      (* addresses the bus can drive                            *)
  CacheSize,  (* CACHE_SIZE                                             *)
  Byte,       (* the values of a byte                                   *)
  ZeroByte    (* what an uninitialised static holds                     *)

ASSUME BusAssumption ==
  /\ RamSize \in Nat \ {0}
  /\ Space \in Nat
  /\ CacheSize \in Nat \ {0}
  /\ RamSize + CacheSize <= Space
  /\ ZeroByte \in Byte

Address    == 0 .. Space - 1
Ram        == 0 .. RamSize - 1
Peripheral == RamSize .. Space - 1
Offset     == 0 .. CacheSize - 1

VARIABLES
  store,        (* what the memory chips and device registers hold      *)
  cache,        (* uint8_t cache[CACHE_SIZE]                            *)
  dirty_bits,   (* the offsets whose dirty bit is set                   *)
  cache_begin,  (* first address of the window                          *)
  cache_end,    (* first address after the window                       *)
  out           (* the last read: its address and the byte it returned  *)

cacheVars == <<cache, dirty_bits, cache_begin, cache_end>>
vars == <<store, cache, dirty_bits, cache_begin, cache_end, out>>

(* The statics are zero: the window is empty.  Memory powers up with       *)
(* anything in it.                                                         *)
Init ==
  /\ store \in [Address -> Byte]
  /\ cache = [i \in Offset |-> ZeroByte]
  /\ dirty_bits = {}
  /\ cache_begin = 0
  /\ cache_end = 0
  /\ out = [addr |-> 0, val |-> ZeroByte]

-----------------------------------------------------------------------------
(* The bus drives the low bits of an address: one past the top is the      *)
(* bottom again.                                                           *)
OnBus(a) == IF a < Space THEN a ELSE a - Space

(* The offset at which the window would hold the byte at bus address p.    *)
OffsetOf(p) == IF p >= cache_begin THEN p - cache_begin
                                   ELSE p + Space - cache_begin

Hit(a) == cache_begin <= a /\ a < cache_end

(* Slip: the whole window is written back.                                 *)
WrittenBackWhole ==
  [p \in Address |-> IF OffsetOf(p) \in Offset /\ cache_end > 0
                     THEN cache[OffsetOf(p)] ELSE store[p]]

(* First loop of bus_flush_cache: only modified bytes are written back.    *)
WrittenBack ==
  [p \in Address |-> IF OffsetOf(p) \in dirty_bits THEN cache[OffsetOf(p)]
                                                   ELSE store[p]]

(* Slip: the window is fetched before the write-back.                      *)
FetchedBefore(a) == [i \in Offset |-> store[OnBus(a + i)]]

(* Second loop: the window is read after the write-back.                   *)
Fetched(a) == [i \in Offset |-> WrittenBack[OnBus(a + i)]]

(* Slip: the end of the window is its last address.                        *)
MoveWindowShort(a) ==
  /\ store' = WrittenBack
  /\ cache_begin' = a
  /\ cache_end' = a + CacheSize - 1

MoveWindow(a) ==
  /\ store' = WrittenBack
  /\ cache_begin' = a
  /\ cache_end' = a + CacheSize

-----------------------------------------------------------------------------
(* bus_read_memory *)
ReadHit(a) ==
  /\ Hit(a)
  /\ out' = [addr |-> a, val |-> cache[a - cache_begin]]
  /\ UNCHANGED <<store, cacheVars>>

ReadMiss(a) ==
  /\ ~Hit(a)
  /\ MoveWindow(a)
  /\ cache' = Fetched(a)
  /\ dirty_bits' = {}
  /\ out' = [addr |-> a, val |-> Fetched(a)[0]]

(* Slip: a write hit does not set the dirty bit.                           *)
WriteHitClean(a, b) ==
  /\ Hit(a)
  /\ cache' = [cache EXCEPT ![a - cache_begin] = b]
  /\ UNCHANGED <<store, dirty_bits, cache_begin, cache_end, out>>

(* bus_write_memory.  The kernel writes only RAM this way.                 *)
WriteHit(a, b) ==
  /\ Hit(a)
  /\ cache' = [cache EXCEPT ![a - cache_begin] = b]
  /\ dirty_bits' = dirty_bits \cup {a - cache_begin}
  /\ UNCHANGED <<store, cache_begin, cache_end, out>>

WriteMiss(a, b) ==
  /\ ~Hit(a)
  /\ MoveWindow(a)
  /\ cache' = [Fetched(a) EXCEPT ![0] = b]
  /\ dirty_bits' = {0}
  /\ UNCHANGED out

(* The RAM test of AllocateExternalMemory writes its patterns and reads    *)
(* them back with the uncached calls.  main runs it before the file system *)
(* first touches the cache, so the window is still empty.                  *)
RamTestWrite(a, b) ==
  /\ cache_end = 0
  /\ store' = [store EXCEPT ![a] = b]
  /\ UNCHANGED <<cacheVars, out>>

RamTestRead(a) ==
  /\ cache_end = 0
  /\ out' = [addr |-> a, val |-> store[a]]
  /\ UNCHANGED <<store, cacheVars>>

(* bus_read_byte and bus_write_byte: a driver on its device's registers.   *)
DriverRead(p) ==
  /\ out' = [addr |-> p, val |-> store[p]]
  /\ UNCHANGED <<store, cacheVars>>

DriverWrite(p, b) ==
  /\ store' = [store EXCEPT ![p] = b]
  /\ UNCHANGED <<cacheVars, out>>

(* A device changes one of its registers (a key arrives, a packet lands).  *)
DeviceChange(p, b) ==
  /\ store' = [store EXCEPT ![p] = b]
  /\ UNCHANGED <<cacheVars, out>>

ReadMemory(a)     == ReadHit(a) \/ ReadMiss(a)
WriteMemory(a, b) == WriteHit(a, b) \/ WriteMiss(a, b)

Next ==
  \/ \E a \in Address : ReadMemory(a)
  \/ \E a \in Ram, b \in Byte : WriteMemory(a, b) \/ RamTestWrite(a, b)
  \/ \E a \in Ram : RamTestRead(a)
  \/ \E p \in Peripheral : DriverRead(p)
  \/ \E p \in Peripheral, b \in Byte : DriverWrite(p, b) \/ DeviceChange(p, b)

Spec == Init /\ [][Next]_vars
-----------------------------------------------------------------------------
TypeOK ==
  /\ store \in [Address -> Byte]
  /\ cache \in [Offset -> Byte]
  /\ dirty_bits \subseteq Offset
  /\ cache_begin \in Address
  /\ cache_end \in {0, cache_begin + CacheSize}
  /\ out \in [addr: Address, val: Byte]

(* A byte of the window that is not marked modified is the byte the chips  *)
(* hold, so dropping it on a miss loses nothing: the write paths of        *)
(* bus_write_memory set the dirty bit of every byte they change, and a     *)
(* miss fetches after it has written back.                                 *)
CleanBytesMatch ==
  \A a \in Ram : Hit(a) /\ a - cache_begin \notin dirty_bits
                   => cache[a - cache_begin] = store[a]

(* Only RAM is ever dirty, and only inside the current window, even when   *)
(* the window reaches past the end of RAM.                                 *)
DirtyIsRam ==
  \A i \in dirty_bits : cache_begin + i \in Ram /\ Hit(cache_begin + i)

(* The bytes of RAM as the kernel sees them through the cache.             *)
View == [a \in Ram |-> IF Hit(a) THEN cache[a - cache_begin] ELSE store[a]]

(* A read of RAM returns the byte last written: no write is lost or        *)
(* doubled over any sequence of hits, misses and overlapping windows.      *)
ImplementedMemory == INSTANCE Memory WITH mem <- View

ImplementsMemory == ImplementedMemory!Spec

(* Cached traffic never writes a device register: a register that changes  *)
(* while it sits (stale) in a window fetched across the end of RAM keeps   *)
(* its new value when the window moves on.                                 *)
RegistersSafe ==
  [][cacheVars' # cacheVars =>
       \A p \in Peripheral : store'[p] = store[p]]_vars
=============================================================================
