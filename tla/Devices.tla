------------------------------- MODULE Devices ------------------------------
(***************************************************************************)
(* The driver table and the device table (kernel/driver/driver.c,          *)
(* kernel/device/device.c, kernel/list.c).                                 *)
(*                                                                         *)
(* The drivers built into the kernel register themselves, then every slot  *)
(* is asked for the device in it, then each driver is given the address of *)
(* the first device of its kind.  A driver whose device is not found keeps *)
(* the address it was built with, and is used all the same.                *)
(***************************************************************************)
EXTENDS Integers, Sequences

CONSTANTS
  NUMBER_OF_PERIPHERALS,
  PERIPHERAL_ADDRESS_BEGIN, PERIPHERAL_STRIDE,
  DEVICE_NAME_LEN,
  Boards,    (* what may be plugged in: a device, its id and name, per slot *)
  Baked,     (* the drivers, in the order of InitBakedDrivers            *)
  BusTypes,  (* what memory from malloc may hold for a bus type          *)
  SPACE, NUL (* the characters 32 and 0                                   *)

Slot == 0 .. NUMBER_OF_PERIPHERALS - 1

(* The id an empty slot answers.                                           *)
ABSENT == 255

ASSUME DevicesAssumption ==
  /\ NUMBER_OF_PERIPHERALS \in Nat \ {0} /\ PERIPHERAL_STRIDE \in Nat \ {0}
  /\ \A b \in Boards : /\ DOMAIN b = Slot
                       /\ \A d \in Slot : Len(b[d].name) = DEVICE_NAME_LEN
  /\ Len(Baked) \in Nat \ {0} /\ DOMAIN Baked = 1 .. Len(Baked)
  /\ \A i \in DOMAIN Baked : Len(Baked[i].name) < DEVICE_NAME_LEN /\ Baked[i].id # ABSENT

VARIABLES
  hardware,  (* what is plugged in                                       *)
  drivers,   (* the list of drivers                                      *)
  devices    (* the list of devices found                                *)

deviceVars == <<hardware, drivers, devices>>

DevicesInit ==
  /\ hardware \in Boards
  /\ drivers = <<>>
  /\ devices = <<>>

-----------------------------------------------------------------------------
(* The name of a driver is a static of zeros with its string, and the zero *)
(* that ends it, copied in.                                                *)
Padded(string) == [n \in 1 .. DEVICE_NAME_LEN |-> IF n <= Len(string) THEN string[n] ELSE NUL]

(* Lists grow at the end.                                                  *)
ListAddNode(list, data) == Append(list, data)

RegisterDriver(b) ==
  /\ drivers' = ListAddNode(drivers, [id |-> b.id, name |-> Padded(b.name), bus_type |-> 0,
                                      slot |-> 0, address |-> b.address, is_linked |-> FALSE])
  /\ UNCHANGED <<hardware, devices>>

(* A name ends at its first space.                                         *)
Blanked(string) ==
  [n \in DOMAIN string |-> IF \E m \in 1 .. n : string[m] = SPACE THEN SPACE ELSE string[n]]

AddressOf(d) == PERIPHERAL_ADDRESS_BEGIN + PERIPHERAL_STRIDE * d

(* A slot is asked; its device gets an entry, in which nothing sets the    *)
(* bus type.                                                               *)
FindDevice(d) ==
  /\ \E t \in BusTypes :
       devices' = IF hardware[d].id = ABSENT THEN devices
                  ELSE ListAddNode(devices,
                         [id |-> hardware[d].id, name |-> Blanked(hardware[d].name),
                          bus_type |-> t, slot |-> d, address |-> AddressOf(d)])
  /\ UNCHANGED <<hardware, drivers>>

(* Slip: only the names are compared.                                      *)
IsForName(driver, device) == driver.name = device.name

IsFor(driver, device) ==
  /\ driver.id = device.id
  /\ driver.bus_type = device.bus_type
  /\ driver.name = device.name

(* The first device that a driver is for.                                  *)
Linked(driver) ==
  LET found == {k \in DOMAIN devices : IsFor(driver, devices[k])}
  IN  IF found = {} THEN driver
      ELSE LET device == devices[CHOOSE k \in found : \A j \in found : k <= j]
           IN  [driver EXCEPT !.slot = device.slot, !.address = device.address, !.is_linked = TRUE]

LinkDriver(i) ==
  /\ drivers' = [drivers EXCEPT ![i] = Linked(@)]
  /\ UNCHANGED <<hardware, devices>>

(* The first driver whose name begins with a string, or 0.                 *)
GetDriverByName(string) ==
  LET found == {i \in DOMAIN drivers : SubSeq(drivers[i].name, 1, Len(string)) = string}
  IN  IF found = {} THEN 0 ELSE CHOOSE i \in found : \A j \in found : i <= j

-----------------------------------------------------------------------------
(* Once the drivers are linked: a driver that is linked has the address of *)
(* a slot with a device of its id and name, and no earlier slot has one    *)
(* unless the memory of its entry held another bus type; a driver that is  *)
(* not linked has the address it was built with, and every slot with a     *)
(* device of its kind an entry with another bus type (device.c:80-111).    *)
HasItsKind(driver, d) ==
  /\ hardware[d].id = driver.id
  /\ Blanked(hardware[d].name) = driver.name

Passed(driver, d) == \E k \in DOMAIN devices : devices[k].slot = d /\ devices[k].bus_type # 0

DriverLinked(i) ==
  LET driver == drivers[i] IN
  IF driver.is_linked
  THEN /\ HasItsKind(driver, driver.slot)
       /\ driver.address = AddressOf(driver.slot)
       /\ \A d \in Slot : d < driver.slot /\ HasItsKind(driver, d) => Passed(driver, d)
  ELSE /\ driver.address = Baked[i].address
       /\ \A d \in Slot : HasItsKind(driver, d) => Passed(driver, d)
=============================================================================
