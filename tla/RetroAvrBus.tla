----------------------------- MODULE RetroAvrBus ----------------------------
(***************************************************************************)
(* The memory bus of the other board, the RetroAVR X4, with its write-back *)
(* cache (kernel/bus/RetroAVRx4/bus.c).                                    *)
(*                                                                         *)
(* The cache keeps no dirty bits: a miss writes the whole window back, the *)
(* first one too, when nothing has been fetched yet and the bytes of the   *)
(* window are the zeros of an array never set.  The devices answer in an   *)
(* address space of their own, never in a window: the bus drives the same  *)
(* address lines, and one more line tells a device's register from memory. *)
(***************************************************************************)
EXTENDS Integers

CONSTANTS
  Space,      (* addresses the bus can drive                              *)
  CacheSize,  (* CACHE_SIZE                                               *)
  Byte,       (* the values of a byte                                     *)
  ZeroByte,   (* what an uninitialised static holds                       *)
  Registers   (* the addresses of the devices' registers                  *)

ASSUME RetroAvrAssumption ==
  /\ CacheSize \in Nat \ {0} /\ Space \in Nat /\ CacheSize <= Space
  /\ ZeroByte \in Byte

Address == 0 .. Space - 1
Offset  == 0 .. CacheSize - 1

VARIABLES
  store,        (* what the memory chips hold                             *)
  cache,        (* uint8_t cache[CACHE_SIZE]                              *)
  cache_begin,  (* first address of the window                            *)
  cache_end,    (* last address of the window                             *)
  out,          (* the last read: its address and the byte it returned    *)
  device,       (* what the registers of the devices hold                 *)
  port          (* the last byte a device returned                        *)

deviceVars == <<device, port>>
busVars    == <<store, cache, cache_begin, cache_end, out, deviceVars>>

BusInit ==
  /\ store \in [Address -> Byte]
  /\ cache = [i \in Offset |-> ZeroByte]
  /\ cache_begin = 0 /\ cache_end = 0
  /\ out = [addr |-> 0, val |-> ZeroByte]
  /\ device = [r \in Registers |-> ZeroByte] /\ port = ZeroByte

-----------------------------------------------------------------------------
(* The bus drives the low bits of an address.                              *)
OnBus(a) == IF a < Space THEN a ELSE a - Space

(* The offset at which the window would hold the byte at bus address p.    *)
OffsetOf(p) == IF p >= cache_begin THEN p - cache_begin ELSE p + Space - cache_begin

Hit(a) == cache_begin <= a /\ a <= cache_end

(* Slip: one byte of the window is not written back.                       *)
WrittenBackShort ==
  [p \in Address |-> IF OffsetOf(p) \in Offset \ {CacheSize - 1} THEN cache[OffsetOf(p)] ELSE store[p]]

WrittenBack ==
  [p \in Address |-> IF OffsetOf(p) \in Offset THEN cache[OffsetOf(p)] ELSE store[p]]

Fetched(a) == [i \in Offset |-> WrittenBack[OnBus(a + i)]]

(* bus_flush_cache.                                                        *)
bus_flush_cache(a) ==
  /\ store' = WrittenBack
  /\ cache_begin' = a /\ cache_end' = a + CacheSize - 1

bus_read_memory(a) ==
  /\ UNCHANGED deviceVars
  /\ \/ /\ Hit(a)
        /\ out' = [addr |-> a, val |-> cache[a - cache_begin]]
        /\ UNCHANGED <<store, cache, cache_begin, cache_end>>
     \/ /\ ~Hit(a)
        /\ bus_flush_cache(a)
        /\ cache' = Fetched(a)
        /\ out' = [addr |-> a, val |-> Fetched(a)[0]]

bus_write_memory(a, b) ==
  /\ UNCHANGED <<out, deviceVars>>
  /\ \/ /\ Hit(a)
        /\ cache' = [cache EXCEPT ![a - cache_begin] = b]
        /\ UNCHANGED <<store, cache_begin, cache_end>>
     \/ /\ ~Hit(a)
        /\ bus_flush_cache(a)
        /\ cache' = [Fetched(a) EXCEPT ![0] = b]

-----------------------------------------------------------------------------
(* The registers of the devices, which drivers access a byte at a time.    *)
bus_read_io(r) ==
  /\ port' = device[r]
  /\ UNCHANGED <<store, cache, cache_begin, cache_end, out, device>>

bus_write_io(r, b) ==
  /\ device' = [device EXCEPT ![r] = b]
  /\ UNCHANGED <<store, cache, cache_begin, cache_end, out, port>>

bus_read_byte(r) == bus_read_io(r)

bus_write_byte(r, b) == bus_write_io(r, b)

-----------------------------------------------------------------------------
BusNext ==
  \/ \E a \in Address : bus_read_memory(a) \/ \E b \in Byte : bus_write_memory(a, b)
  \/ \E r \in Registers : bus_read_byte(r) \/ \E b \in Byte : bus_write_byte(r, b)

BusSpec == BusInit /\ [][BusNext]_busVars

-----------------------------------------------------------------------------
BusTypeOK ==
  /\ store \in [Address -> Byte] /\ cache \in [Offset -> Byte]
  /\ cache_begin \in Address
  /\ cache_end = cache_begin + CacheSize - 1 \/ (cache_begin = 0 /\ cache_end = 0)
  /\ out \in [addr : Address, val : Byte]
  /\ device \in [Registers -> Byte] /\ port \in Byte

(* Memory as the kernel sees it: the bytes of the window are newer.  The   *)
(* window that was never fetched counts: the first miss writes it.         *)
View == [p \in Address |-> IF OffsetOf(p) \in Offset THEN cache[OffsetOf(p)] ELSE store[p]]

(* A read returns the byte last written, whatever else was accessed        *)
(* (bus.c:161-196).                                                        *)
ImplementedMemory == INSTANCE Memory WITH mem <- View, Ram <- Address

ImplementsMemory == ImplementedMemory!Spec
=============================================================================
