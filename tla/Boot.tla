-------------------------------- MODULE Boot --------------------------------
(***************************************************************************)
(* The kernel from a reset until its main loop (kernel/main.c,             *)
(* kernel/kernel.c), and the root directory in use after it.               *)
(*                                                                         *)
(* The order matters: drivers before devices, both before the console, the *)
(* test of memory, which writes over all of it, before the format.  What   *)
(* runs after the boot calls the file system; a reset may come at any time.*)
(***************************************************************************)
EXTENDS Devices, Files

CONSTANTS
  NameKeyboard, NameDisplay,  (* the names cliInit looks for, NUL-ended   *)
  BootFiles,                  (* what kInit creates, in order             *)
  Commands,                   (* the names of the commands main registers *)
  CONSOLE_FUNCTION_TABLE_SIZE,
  BOARD_RETRO_AVR_X4_REV1,    (* TRUE on the board that checks its memory *)
  MinMemory,                  (* 1024, the least that check accepts       *)
  Memories,                   (* how many bytes the memory test may pass  *)
  Names,                      (* the names later files are given          *)
  MaxCreations                (* bound on the files created after a boot  *)

(* kInit creates something, and of sizes that are asked for.  main has     *)
(* fewer commands than the table has entries, each with a name.            *)
ASSUME BootAssumption ==
  /\ Len(BootFiles) \in Nat \ {0} /\ DOMAIN BootFiles = 1 .. Len(BootFiles)
  /\ \A k \in DOMAIN BootFiles :
       /\ BootFiles[k].size \in Sizes
       /\ BootFiles[k].attributes \in {"d", BLANK}
       /\ BootFiles[k].attributes = "d" => BootFiles[k].size = DirSize
  /\ Len(Commands) \in Nat \ {0} /\ DOMAIN Commands = 1 .. Len(Commands)
  /\ CONSOLE_FUNCTION_TABLE_SIZE \in Nat /\ Len(Commands) <= CONSOLE_FUNCTION_TABLE_SIZE
  /\ \A k \in DOMAIN Commands : Commands[k] # ""
  /\ MinMemory \in Nat /\ Memories \subseteq Nat

(* The drivers built in that a string finds.  The console finds a driver   *)
(* for each of its devices, and no driver for both.                        *)
BakedAs(string) ==
  {i \in DOMAIN Baked : SubSeq(Padded(Baked[i].name), 1, Len(string)) = string}

ASSUME DriversAssumption ==
  /\ BakedAs(NameKeyboard) # {} /\ BakedAs(NameDisplay) # {}
  /\ BakedAs(NameKeyboard) \cap BakedAs(NameDisplay) = {}

(* The sectors the k-th file of the boot takes, with an extent if it may   *)
(* find the directory full, and those the first k take.  The device has    *)
(* room for its header, the root directory and all of them.                *)
FileSectors(k) ==
  DataSectors(BootFiles[k].size) + 1
    + (IF k * RefSize >= SectorSize THEN DataSectors(DirSize) + 1 ELSE 0)

BootSectors[k \in 0 .. Len(BootFiles)] ==
  IF k = 0 THEN DataSectors(DirSize) + 2 ELSE BootSectors[k - 1] + FileSectors(k)

ASSUME RoomAssumption == BootSectors[Len(BootFiles)] <= SectorCount

VARIABLES
  totalAllocatedMemory,
  phase, step,                (* how far the boot is                      *)
  keyboadDevice, displayDevice,
  CommandRegistry,
  creations                   (* the files created since the boot         *)

consoleVars == <<keyboadDevice, displayDevice, CommandRegistry>>
vars == <<deviceVars, filesVars, consoleVars, totalAllocatedMemory, phase, step, creations>>

(* Memory that holds no marker: what the RAM test leaves, 0xAA.            *)
Untouched ==
  /\ marker = [i \in Sector |-> OUTSIDE] /\ size = [i \in Sector |-> 0]
  /\ root = 0 /\ result = 0
  /\ refs = [h \in Sector |-> <<>>] /\ next = [h \in Sector |-> 0]
  /\ parent = [h \in Sector |-> 0]
  /\ formatted = FALSE /\ held = 0 /\ listed = {}

Statics ==
  /\ keyboadDevice = 0 /\ displayDevice = 0
  /\ CommandRegistry = [i \in 1 .. CONSOLE_FUNCTION_TABLE_SIZE |-> ""]
  /\ totalAllocatedMemory = 0
  /\ phase = "drivers" /\ step = 1 /\ creations = 0

BootInit == DevicesInit /\ Untouched /\ FilesInit /\ Statics

-----------------------------------------------------------------------------
(* The next of n rounds of a phase, or the phase after it.                 *)
Round(p, n, after) ==
  /\ phase = p
  /\ IF step < n THEN phase' = p /\ step' = step + 1
                 ELSE phase' = after /\ step' = 1
  /\ UNCHANGED creations

InitBakedDrivers ==
  /\ Round("drivers", Len(Baked), "devices")
  /\ RegisterDriver(Baked[step])
  /\ UNCHANGED <<filesVars, consoleVars, totalAllocatedMemory>>

InitiateDeviceTable ==
  /\ \/ Round("devices", NUMBER_OF_PERIPHERALS, "linking") /\ FindDevice(step - 1)
     \/ Round("linking", Len(drivers), "console") /\ LinkDriver(step)
  /\ UNCHANGED <<filesVars, consoleVars, totalAllocatedMemory>>

cliInit ==
  /\ Round("console", 1, "memory")
  /\ keyboadDevice' = GetDriverByName(NameKeyboard)
  /\ displayDevice' = GetDriverByName(NameDisplay)
  /\ CommandRegistry' = [i \in DOMAIN CommandRegistry |-> ""]
  /\ UNCHANGED <<deviceVars, filesVars, totalAllocatedMemory>>

(* The test writes over memory up to the first byte that fails, and leaves *)
(* what is behind it; the total counts that byte too.  The other fields of *)
(* a block are written over as well, and read only once they are set.      *)
AllocateExternalMemory ==
  /\ Round("memory", 1, "check")
  /\ \E passed \in Memories :
       /\ totalAllocatedMemory' = passed + 1
       /\ marker' = [i \in Sector |-> IF i * SectorSize < passed THEN OUTSIDE ELSE marker[i]]
  /\ formatted' = FALSE
  /\ held' = 0 /\ listed' = {}
  /\ UNCHANGED <<size, root, result, linkVars, nameVars, deviceVars, consoleVars>>

(* The machine shows the error and stops until it is reset.                *)
kThrow == phase' = "halted" /\ step' = 1 /\ UNCHANGED creations

CheckMemory ==
  /\ IF BOARD_RETRO_AVR_X4_REV1 /\ totalAllocatedMemory < MinMemory
     THEN phase = "check" /\ kThrow
     ELSE Round("check", 1, "format")
  /\ UNCHANGED <<deviceVars, filesVars, consoleVars, totalAllocatedMemory>>

(* The bytes that passed hold the partition.  Nothing in the code asks for *)
(* that: the check is for less, and only on one of the boards.             *)
HoldsPartition == totalAllocatedMemory > BlockSize

(* kInit: the format, with an empty root directory ...  On memory that     *)
(* does not hold the partition this is not followed: what the file system  *)
(* reads back there is undefined.                                          *)
Format ==
  /\ Round("format", 1, "files") /\ HoldsPartition
  /\ fsDeviceFormat
  /\ fsDirectorySetReferenceCount(root')
  /\ fsFileSetNextAddress(root', 0)
  /\ fsFileSetParentAddress(root', 0)
  /\ formatted' = TRUE
  /\ Describe(root', <<"r", "o", "o", "t">>, "d")
  /\ UNCHANGED <<callerVars, created, deviceVars, consoleVars, totalAllocatedMemory>>

(* ... and the first directories and files, each created and then added.   *)
CreateBootFile ==
  LET f == BootFiles[step] IN
  /\ phase = "files" /\ held = 0
  /\ IF f.attributes = "d" THEN fsDirectoryCreate(f.name) ELSE fsFileCreate(f.name, f.size)
  /\ UNCHANGED <<phase, step, creations, deviceVars, consoleVars, totalAllocatedMemory>>

AddBootFile ==
  /\ Round("files", Len(BootFiles), "commands")
  /\ fsDirectoryAddFile
  /\ UNCHANGED <<deviceVars, consoleVars, totalAllocatedMemory>>

kInit == Format \/ CreateBootFile \/ AddBootFile

(* Slip: a command takes the entry before the first that is free.          *)
FreeEntryBefore ==
  LET free == {i \in DOMAIN CommandRegistry : CommandRegistry[i] = ""}
      i == CHOOSE i \in free : \A j \in free : i <= j
  IN  IF i = 1 THEN 1 ELSE i - 1

(* An entry is free until its name begins with a letter or a digit.  When  *)
(* none is free the first is taken.                                        *)
FreeEntry ==
  LET free == {i \in DOMAIN CommandRegistry : CommandRegistry[i] = ""}
  IN  IF free = {} THEN 1 ELSE CHOOSE i \in free : \A j \in free : i <= j

ConsoleRegisterCommand ==
  /\ Round("commands", Len(Commands), "running")
  /\ CommandRegistry' = [CommandRegistry EXCEPT ![FreeEntry] = Commands[step]]
  /\ UNCHANGED <<deviceVars, filesVars, keyboadDevice, displayDevice, totalAllocatedMemory>>

-----------------------------------------------------------------------------
(* Callers of the file system.                                             *)
Create ==
  /\ creations < MaxCreations
  /\ \/ \E n \in Names, s \in Sizes : fsFileCreate(n, s)
     \/ \E s \in Sizes : fsFileCreateFails(s)
     \/ \E n \in Names : fsDirectoryCreate(n)
     \/ fsDirectoryCreateFails
  /\ creations' = creations + 1

Use ==
  /\ phase = "running"
  /\ \/ Create
     \/ fsDirectoryAddFile /\ UNCHANGED creations
     \/ \E f \in listed : fsDirectoryRemoveFile(f) /\ UNCHANGED creations
  /\ UNCHANGED <<phase, step, deviceVars, consoleVars, totalAllocatedMemory>>

(* The statics are zero again and memory, if it keeps its power, is not.   *)
Reset ==
  /\ drivers' = <<>> /\ devices' = <<>>
  /\ keyboadDevice' = 0 /\ displayDevice' = 0
  /\ CommandRegistry' = [i \in DOMAIN CommandRegistry |-> ""]
  /\ totalAllocatedMemory' = 0
  /\ phase' = "drivers" /\ step' = 1 /\ creations' = 0
  /\ UNCHANGED <<hardware, filesVars>>

BootNext ==
  \/ InitBakedDrivers \/ InitiateDeviceTable \/ cliInit \/ AllocateExternalMemory
  \/ CheckMemory \/ kInit \/ ConsoleRegisterCommand
  \/ Use \/ Reset

BootSpec == BootInit /\ [][BootNext]_vars

-----------------------------------------------------------------------------
HasFiles == phase \in {"files", "commands", "running"}

(* Before the console asks for a driver, every driver has the address of   *)
(* its device, if the search could find one (device.c:80-111).             *)
DriversLinked ==
  phase \in {"console", "memory"} => \A i \in DOMAIN drivers : DriverLinked(i)

(* The boot ends with what it set out to build, after a reset too: both    *)
(* devices of the console, an entry for each command, and, on memory that  *)
(* holds the partition, exactly the files of kInit, in their order,        *)
(* whatever was on the device before (main.c:12-51).                       *)
KernelReady ==
  /\ phase \notin {"drivers", "devices", "linking", "console"} =>
       /\ {keyboadDevice, displayDevice} \subseteq DOMAIN drivers
       /\ keyboadDevice # displayDevice
  /\ phase = "running" =>
       \A k \in DOMAIN Commands :
         \E i \in DOMAIN CommandRegistry : CommandRegistry[i] = Commands[k]
  /\ phase = "commands" =>
       /\ Len(functionLS) = Len(BootFiles)
       /\ \A k \in DOMAIN BootFiles : IsRowOf(functionLS[k], BootFiles[k])

(* ls shows one row for each file that was added and not removed: the name *)
(* it was given, cut or padded, and its size as a number without leading   *)
(* zeros, or that it is a directory; extents, which have a name too, never *)
(* show, and blocks used again show nothing of their last file             *)
(* (fsVirtual.c:11-41).                                                    *)
ListsAsCreated ==
  HasFiles /\ Usable =>
    LET rows == functionLS
    IN  /\ Len(rows) = Cardinality(listed)
        /\ \A f \in listed :
             /\ IsRowOf(Row(f), created[f])
             /\ Cardinality({n \in DOMAIN rows : rows[n] = Row(f)})
                  = Cardinality({g \in listed : Row(g) = Row(f)})

(* cd finds a name exactly if a listed file was given a name that cleans   *)
(* to the same, wherever in the directory it is, and finds such a file     *)
(* (fsDirectory.c:182-226).                                                *)
FoundByName ==
  HasFiles /\ Usable =>
    \A string \in Names \cup {BootFiles[k].name : k \in DOMAIN BootFiles} \cup {EXTENT} :
      LET f == fsDirectoryFindByName(string)
          bearers == {g \in listed : Clean(created[g].name) = Clean(string)}
      IN  IF bearers = {} THEN f = 0 ELSE f \in bearers
=============================================================================
