# AVR micro kernel: a verification development

TLA+ specifications of the kernel in this repository, the TLC configurations
that check them on small instances, and TLAPS proofs of what matters most for
every value of the constants. The board is the Retroboard REV2, which
`kernel/kconfig.h:5` selects, unless a module says that it is about the other
one, the RetroAVR X4. `PROJECT.json` lists the components, the runs, the source
lines each definition models, the hazards and the theorems.

## 1. The system

The kernel runs on an 8-bit AVR with external RAM and peripherals on a
multiplexed bus. `main` (`kernel/main.c`) initialises the bus, the drivers, the
device table, the interrupt table and the console, tests the external RAM,
formats a file system of 32768 bytes in sectors of 32 in it, creates two
directories and two files, registers two commands (`ls`, `cd`), starts the
timers and then polls the keyboard for ever, with interrupts disabled while the
shell runs. Built for it, but started by code that is commented out, are a
router, a server, a network command and an emulator for small programs.

| Component | State | Operations | Interacts with | What is hard | What makes it correct |
|---|---|---|---|---|---|
| Memory bus and cache (`kernel/bus/Retroboard_REV2/bus.c`) | one window of 32 bytes, a dirty bit per byte, the bounds of the window | cached read and write, raw read and write, device read and write | called by every other component; shares the bus with device registers | windows are not aligned and overlap; a window can reach over the end of RAM; cached and raw accesses bypass each other | RAM behind the cache is a memory; registers are never overwritten by it |
| The other board's bus (`kernel/bus/RetroAVRx4/bus.c`) | a window, no dirty bits; device registers in an address space of their own | the same | the same | every miss writes the whole window back, also the one never fetched | the same memory |
| RAM test, halt (`kernel/kalloc.c`, `throw.c`) | the tested size | one pass over RAM at boot, uncached; stop | bus, boot | only right before the cache is used; writes over everything | the boot after it starts from nothing |
| Sector allocator (`kernel/fs/basefs/fs.c`, `fsDevice.c`) | the marker byte of each sector, the size in each header, the root pointer | allocate, free, format | bus (cached); files and directories | sizes recounted on free; scan past the partition; 0 is both an address and a failure | blocks disjoint, whole, inside the partition; nothing leaks; refused only when full |
| Directory (`fsDirectory.c`, `fsVirtual.c`) | reference counts and references, next and parent fields | create, add, remove, find, count, list | allocator, file transfer | chain of extents that grows and shrinks; extents that cannot be allocated; failure handles not checked | chain linked both ways; no file lost, none listed twice; no block leaked; header intact |
| Files (`fsFile.c`), `ls`, `cd` | table of 16 open files; size, name, attributes in the header | create, delete, open, close, read, write, names, listing | allocator, bus, console | counters that step over markers; bounds on sizes; full open table; blocks used again | transfers stay in the file and read what was written; an index names one open file; what is listed and found is what was created |
| Devices and drivers (`kernel/device`, `kernel/driver`) | two lists | discover, register, link, look up | bus, list | compares a field nothing has set | a driver has the address of the device it names |
| Boot (`main.c`, `kernel.c`) | how far it is | the steps of `main`, `kInit`, a reset | all of the above | the order of the steps; a reset in the middle of one | the main loop finds what the boot promises |
| Console and shell (`kernel/command/*.c`, `syscalls/print`) | line buffer of 40, cursor, prompt, last scan code, command table of 8 | poll a key, edit, run a command | keyboard, display, commands | limits of the buffers; wraps and scrolls taken back; lookup past the end of the line | what is run is what was typed; cursor, display and line agree |
| Scheduler, tasks, mutex, interrupts (`scheduler.c`, `mutex.c`, `interrupt.c`) | table of tasks, current index, counters, ticks, lock, memory range and mode | two timer interrupts, the main loop | tasks, shell, heap range | nested interrupts while a task runs; tasks that do not return; registration that falls through | one task runs, with its own memory; each is called in turn; the shell is alone |
| Network (`kernel/network`, `command/net`) | routing table of 5 ports, receive buffer of a card, reconnection counters | handshake, request, route, answer, send and repeat | cards over the bus; other routers, servers, clients | loss, several packets in a buffer, late cards, restarts, loops at speeds of their own | tables are true; a packet reaches its host and no other; late cards are found; no text travels for ever |
| X4 emulator (`kernel/emulation/x4`, `command/boot`) | program, 8 registers, stack of 100, one return address, flags | one instruction, service calls | bus (heap), console | one return address, exits in several places, leftovers of the last program | a program does to memory and display what it says and returns |
| Strings, lists (`cstring.c`, `list.c`, `kref.c`, `string.cpp`, `array.cpp`) | pure, or a list | conversions, list operations | all | boundaries | what their callers are promised |

The file system is single threaded: it runs during boot and from the shell,
with interrupts disabled, and the interrupt routines never call it. So its
hazards are long sequences of calls, failing steps and resets, not interleavings.
Those are on the bus, where devices change registers on their own, among the
nested interrupts of the scheduler, and among the loops of the network.

## 2. Modules

    Memory <--implements-- BusCache     <-- MCBusCache, BusCacheProofs
       ^-----implements-- RetroAvrBus   <-- RetroAvrBusProofs
                              ^ extends
                          Emulator <-- BootPrograms <-- MCEmulator
    Allocator <--implements-- Sectors   <-- MCSectors
                              ^ extends
                          Directory     <-- MCDirectory, StorageProofs
                              ^ extends          ^ extends
                 Devices,  Files <-- Boot <-- MCBoot, BootProofs
                          FileTransfer  <-- MCFileTransfer, FileTransferProofs
                          Console       <-- MCConsole, ConsoleProofs
                          Scheduler     <-- MCScheduler, SchedulerProofs
                          Network       <-- MCNetwork, NetworkProofs

**Memory** is what the kernel expects of RAM: a read returns the last write.

**BusCache** is `bus.c` of REV2. The chips and registers are one function of the
address (`store`), the 32 statics are `cache`, `dirty_bits`, `cache_begin` and
`cache_end`, and `out` is what the last call handed back. `ReadHit`, `ReadMiss`,
`WriteHit` and `WriteMiss` are the branches of `bus_read_memory` and
`bus_write_memory`, each with the whole of `bus_flush_cache`; `RamTestWrite` and
`RamTestRead` are the raw accesses of `AllocateExternalMemory`, only before the
cache is first used, as `main` calls it; `DriverRead` and `DriverWrite` are the
uncached calls of drivers; `DeviceChange` is the hardware. The kernel writes only
RAM through the cache, and reads are allowed at every address. A window of the
cache is smaller than the bus, so at most one wrap at the top is possible.

**RetroAvrBus** is the bus of the other board. Its cache keeps no dirty bits and
writes the whole window back on each miss, also the window of zeros that was never
fetched: `View`, memory as the kernel sees it, counts that window from the start.
The devices' registers answer in an address space of their own (`device`, `port`).

**Allocator** is what the file system expects of storage. **Sectors** is
`fsAllocate`, `fsFree` and `fsDeviceFormat`: `marker` holds the first byte of each
sector, `size` the size field of header sectors, `root` the root pointer. The
handle of a block, an address in the code, is the number of its sector. The size
of a freed header is cleared in the model; the code leaves it but never reads it
before the next allocation sets it. The scan of `fsAllocate` runs far past the
partition; there it finds what the RAM test left (0xAA) or a device, and never a
free marker (`SectorsAssumption`).

**Directory** adds the root directory: `refs` (the counted references of a block),
`next` and `parent`. `AddFile` has one action for each way through
`fsDirectoryAddFile`, `RemoveFile` one for each way through
`fsDirectoryRemoveFile`, and creation one for success and one for failure. A
caller creates a file and adds it before it creates another, as `kInit` does;
`held` is the file between the two calls and `listed` is what the callers have
been told is in the directory. `vfsList` is the walk of `ls`, by index through the
chain. After the device header is overwritten, or after a reference is counted
that is not stored, what the code reads back is undefined (stack contents, or a
partition that no longer opens): the model stops there (`Usable`), so
`CHECK_DEADLOCK` is off in its runs. Open and close are paired in every operation
here and left to FileTransfer. A directory in the root is a file to it: no code
adds a file to one.

**Files** adds the name and the kind of each block, what its creator asked for
(`created`), the rows `ls` prints and the file `cd` finds. A name is cut or padded
to its field; a size is printed as its digits. The kind is the fourth attribute: a
row does not show it, only "<dir>" in place of the size. The bytes of a name matter only up
to equality of cleaned names.

**Devices** is the two tables: built-in drivers register, every slot is asked,
each device that answers is listed, and each driver gets the address of the first
device with its id and name. The bus type of a found device is whatever `malloc`
returned (`BusTypes`). Names are padded as the code pads them: a driver's with
zeros, a device's with spaces from its first space on.

**Boot** composes Devices and Files: each step of `main` in its order, the memory
test with the check of the RetroAVR X4 (`BOARD_RETRO_AVR_X4_REV1`) that may stop the
machine (`kThrow`), `kInit`, the registration of commands, and then the root
directory in use. `Reset` comes at any time: statics are zero again, storage keeps
what it held. The check on the total is all that the other board adds here. The
memory test writes over what passes and stops; the format is followed only where
that holds the partition (`HoldsPartition`). No board makes sure of it, and elsewhere
a behaviour ends there, or with a reset: what the file system would read back from
memory that fails is undefined.

**FileTransfer** is the table of open files and the loops of `fsFileWrite` and
`fsFileRead`, a byte a step. `fileList` and `fileSize` are the two arrays, `held` is
who holds which index, `overfull` whether the table was ever too small: then the
search returns index 0, or the entry behind the arrays (`OpenPastTable`, where a
behaviour ends). `sector` and `sectorCounter` are the counters of the code (`sector`
counts bytes in spite of its name). `contents` records what was last written at
each index. `Word` is 2^32, so a request of 0 wraps around.

**Console** is the main loop's poll, `cliRunShell`, with the key functions of
`shell.c` and `command.c` and the printing of `print.c`. `console_string`,
`console_string_length` and `shiftState` are the statics; `console` holds
`console_line`, `console_position` and the display device (`cursor`, `screen`) they
are written to; `oldScanCode` is the code of the last poll, and a poll that reads
it again changes nothing. A character is a key and whether shift was held, which
is what `lowercase` and `is_symbol` tell apart; the function keys of the X4 board's
table print like letters. Each action is one poll: interrupts are disabled while
it runs, and a command returns before the next one. `ran` is what return ran and
its parameters. Commands print some rows; what they do to the file system is the
other modules' subject. The names have two letters, as `ls` and `cd` do.
`ReturnFull` ends a behaviour: it writes a byte that is not `console_string_old`'s,
and what that byte is for is up to the linker (`CHECK_DEADLOCK` is off). The
keyboard's tables are reduced to the kinds of keys they decode to.

**Scheduler** is timer 1, whose service calls one task from within its interrupt
with interrupts enabled, timer 0, which counts ticks and asks a task that takes too
long to shut down, and the main loop. `activations` is the stack of calls of the
scheduler that have not returned, each with the stage it is in; a stretch of code
with interrupts disabled is one step. `SetInterruptService` falls through as in the
code. The table of tasks is a constant, because the bodies of `TaskCreate` and
`TaskDestroy` are commented out: the table of this build is the empty one, the
others are what the scheduler is written for.

**Network** is any number of routers, servers and clients, each card wired to at
most one other, and each board at a speed of its own. A router's loop comes to one
port after another (`at`): when the head of the body, with the reconnection and the
search, greets some port, it is a step (`Reconnect`), and the packet that arrived
another; when it greets none it touches only the router's own counters (`Count`) and
is one step with the packet (`Polls`). A server's loop is one step. Routers and
servers take the packet at the front of their card and clear the whole card, so the
state of their cards (`buffer`) is that packet. A client clears its card only at the
start and the end of a send: its card is the set of packets that can be found in it
(`card`), of which `recv` takes one and may cut or leave others. `doing` is the send
a client is in: `Send`, `SendAgain` after a time-out, `SendAnswered` and
`SendTimedOut` are the command of `net.c`, which stands behind a `return`
(`net.c:51`) and is modelled as written there; `Connect` and `PingRouter` are over
for the network once they have sent. A text may be for any address that `dst` can
set, 0.0 and 255.255 and the client's own among them. The router's confirmation and
its write of the table (`router.c:270-278`) are one step. Lost packets, restarts of
routers and cards plugged in late are actions.

**Emulator** is every instruction of `x4.c`, a step each, with the services of
`services.c`, on RetroAvrBus, whose cache kernel and drivers use before and after a
program. **BootPrograms** is the programs that `boot.c` drops, byte for byte, but
for their texts, which are as long as in the code and made of one character each.

Definitions marked *Slip* in a comment are mistakes that could be made in the code
(a dropped reset, an off-by-one). Nothing uses them; each shows that a property
notices it when it takes the place of the definition below it (`PROJECT.json`,
"mutants").

## 3. Runs

| Run | Instance | States | Shows |
|---|---|---|---|
| `bus_cache` | 3 bytes of RAM, 2 registers, window of 2, bytes 0 and 1 | 7808 | `ImplementsMemory`: RAM through the cache is a memory. `CleanBytesMatch`: why. `RegistersSafe`: cached traffic leaves registers alone. |
| `sectors` | 12 sectors of 4 bytes, sizes 2, 3 and 7 | 2810 | `ImplementsAllocator`: blocks are disjoint, freed whole, refused only for lack of a run. `BlocksWhole`, `NoOrphans`, `RootAgrees`. |
| `directory` | 17 sectors of 16 bytes, directories of 14, references of 6, files of 14 and 60 | 76,823 | `ChainLinked`, `BlocksAccounted`: the chain stays whole and no block leaks. `ContentsListed`: `ls` lists each file once. |
| `directory_full` | `directory` with 9 sectors | finding | A full device loses its header (section 5). |
| `directory_refill` | `directory` with 21 sectors | finding | A refilled directory counts a reference it does not store (section 5). |
| `boot` | 3 slots, 6 kinds of card, 16 sectors of 16 bytes, references of 4, files of 14 and 20, 2 names, 3 creations, memory of 0, 126, 127, 255 or 256 good bytes | 152,814 | `DriversLinked`, `KernelReady`: what the main loop finds, after any resets. `ListsAsCreated`, `FoundByName`: `ls` and `cd` tell the truth. |
| `file_transfer` | 2 files, a table of 2, sectors of 3 bytes, requests 0, 2, 5 and 6 | 1,111,192 | `OnlyDataBytesChange`: transfers touch no marker, header or neighbour, and no other file. `ReadsBack`. |
| `console` | display of 4 rows of 3, lines of 4, two names of two letters | 1,358,045 | `CursorFollows`, `LineShown`: what is on the display is the line. `RunsWhatWasTyped`: return runs the command typed, with its parameters. |
| `console_full` | the same | finding | Return on a full line writes past a buffer (section 5). |
| `network` | client - router - router - server, one card plugged in late, one router that restarts, 2 sends or faults, 2 tries | 468,545 | `TableTrue`, `HostsGetTheirOwn`, `ConnectedIsKnown`: nobody is mistaken for another. `LateCardsFound`: a late card gets into the table. `TextLeaves`: texts leave the routers. |
| `scheduler` | 6 tables of up to 3 tasks, interrupts nested 3 deep, bytes of 2 bits | 36,138 | `OneTaskAtATime`, `MemoryBelongsToRunner`, `TicksAreCharged`, `ShellAlone`; `EveryTaskIsCalled`, `HangsAreNoticed`. |
| `emulator` | 21 programs, two run in a row, buffer of 140, memory of 64 with a window of 4, one device register | 296,415 | `ImplementsMemory` on the other board's cache. `ProgramsDoWhatTheySay`. |

Each run has one type invariant besides, where its module has one.

Why the bounds are enough.
*bus_cache*: windows start at every address, so two can be equal, overlap by a
byte, be disjoint, straddle the end of RAM, lie among the registers and wrap at
the top; two byte values tell a stale byte from a fresh one; the proofs cover the
rest.
*sectors*: sizes with one, two and three data sectors; size 3 is the payload of a
sector and takes one data sector more than its bytes need; 12 sectors hold
several blocks with gaps too short for the longest.
*directory*: the kernel's numbers are sectors of 32, directories of 30 and
references of 4, so a directory is full at 7 references, an extent is called full
at 6 and gets a seventh, and 7 are stored. The instance has 2, 1, 2 and 2: the
same order of the same limits. 17 sectors hold the root, two extents and five
small files, or three extents with fewer; a file of 60 takes six sectors and
leaves a gap an extent takes only part of. The run uses a VIEW that drops the
links of blocks outside the directory, which no step reads before a creation
sets them.
*boot*: every combination of cards in three slots: the right ones, one whose name
ends with a space, one with another id, one no driver is for, none. The fourth
file of the boot already needs an extent, as the kernel's eighth would. The names
of later files are a prefix of a file of the boot and one that is cut to the same
name. The partition has 256 bytes and the check asks for 128, half of it, as the
kernel's asks for 1024 of 32768: the five memories fail at the first byte, are the two
sides of the check, and lack the last byte of the partition or hold it. Three
creations use a freed block again under another name. The VIEW drops what is not read again.
*file_transfer*: the two data sectors of the larger file hold four bytes, exactly
the most a request that passes the check transfers, so one byte more would leave
the block; a table of two is full with two open files, and the third shares an
index.
*console*: prompt and longest line take exactly two rows, as 2 and 40 take 42 of
21 columns, so a full line ends on a wrap; a line wraps at the last row and
elsewhere, and is taken back across the wrap after a scroll. Names are each
other's reverse, so each letter of one is met at the other's places; lines are
typed with letters in both cases, a digit that shift makes a symbol, a symbol, a
function key and spaces. The VIEW drops the rows above the prompt, which nothing
reads. Names end two places before the line can, as they do in the code.
`RunsWhatWasTyped` would be false with longer names: the lookup runs `dir` for
`di+`, its first two letters and a symbol.
*network*: the smallest net with a gateway link, a server behind it and a client
on the other side; all the router's thresholds are passed (the reconnection, the
longer interval, the search for new cards), with the smallest counts that keep
their order: a port is due every time, then every second time, and the second
time-out is the search. Since each board has a speed of its own, any number of one
board's steps comes between two of another's whatever the counts. Two commands or
faults combine a loss, a restart or a late card with another one or with a send, and
a ping with a send to 0.0; a repeated send counts as one. The VIEW drops what a client
holds once no command or fault is left that could use it, and keeps whether
`HostsGetTheirOwn` holds. The theorems hold for every net and all counts, cyclic nets too.
*scheduler*: the tables have the empty one of this build, different priorities,
one that no counter of a byte exceeds, volatile tasks in two places and a task that
hangs. A nested interrupt stops at the mutex, or runs the next task once the one
below has unlocked, so a third level meets every combination of the two below it.
*emulator*: the eight programs `boot.c` leaves, and others that use every instruction, both
outcomes of every jump, a subroutine, a loop, the stack, an unknown opcode and the
end of the buffer. Two in a row show what the first leaves to the second; the user
memory of 48 bytes lies across several windows of the cache.

Fairness, where a run checks liveness.
*Network*: every router comes to each of its ports again and again, at any speed of
its own: its loop has no exit and waits for nothing, so this is weak fairness of the
router's step, in a form that is cheaper to check. Nothing is promised of servers,
people or faults, or of one board's speed beside another's. So no property says that
a link or a connection forms, and under this fairness none would hold: a router's
search clears the card of every port it knows nothing of, and can for ever come
between a greeting and the moment it is read (`router.c:202-217`).
*Scheduler*: strong fairness of each interrupt, whose request is latched and
enabled again and again; weak fairness of the scheduler's own code; strong fairness
of the return from interrupt at each depth, and of the main loop, which interrupts
may come between; weak fairness of the return of those tasks that return, and
nothing of the others.
*Emulator*: weak fairness of the instruction loop, which nothing interrupts.
Elsewhere no fairness is assumed: the operations are calls that return.

## 4. Proofs

For every value of the constants the assumptions allow (`BusAssumption`,
`RetroAvrAssumption`, `SectorsAssumption`, `DirectoryAssumption`,
`DevicesAssumption`, `BootAssumption`, `DriversAssumption`, `RoomAssumption`,
`TransferAssumption`, `ConsoleAssumption`, `SchedulerAssumption`,
`NetworkAssumption`, `PacketAssumption`; TLC evaluates each on its instance):

* **BusCacheProofs**: `TypeCorrect`, `CleanBytesCorrect`, `DirtyCorrect`,
  `CacheImplementsMemory`, `RegistersCorrect`. The inductive invariant is the
  type invariant with `CleanBytesMatch` and `DirtyIsRam`: a miss may drop clean
  bytes because they agree with RAM, and may write dirty ones because they are in
  RAM. The refinement maps the abstract memory to `View`; a miss leaves `View`
  unchanged because write-back and fetch cancel, also when the windows overlap.
* **RetroAvrBusProofs**: `BusTypeCorrect`, `BusImplementsMemory`, by the same mapping;
  the window wraps at the top of memory, and an offset and an address determine
  each other as long as the window is no longer than the bus.
* **StorageProofs**, of the sectors: `TypeCorrect`, `BlocksCorrect`, `NoLeak`,
  `RootCorrect`, `SectorsImplementAllocator`. Invariant: sector 0 alone holds the
  device marker, blocks are whole, used sectors have an owner, and blocks do not
  overlap. `BlocksWhole` alone is not inductive: freeing a block keeps the others
  whole only if they share no sector with it. The least-candidate lemma stands for
  the first-fit scan.
* **StorageProofs**, of the directory: `DirectoryTypeCorrect`, `ChainCorrect`,
  `AccountCorrect`, `ContentsCorrect`, `DirectoryKeepsSectors`. The loops of the code
  follow a chain of blocks; the inductive invariant (`DirectoryInv`) says that there
  is a number n and a list c of n extents behind the root such that c is the chain
  (`IsChain`), every block of the device is a block of c, a listed file or the one
  held (`Accounted`), and each listed file has one place in it (`Filed`). What the
  loops compute (`Hop`, `Counter`, `vfsList`) is then shown equal to what c says, by
  supposing a least place at which it is not. An extent is added at the end of
  c or cut out of the middle (`Cut`); all that the properties need survives both.
* **BootProofs**: `DriversCorrect`, `ReadyCorrect`, `ListCorrect`, `NameCorrect`. `PlaceInv` says which
  rounds of which phase the boot can be in; from it `DevicesInv` has the tables after
  each round: the drivers registered so far, an entry for each slot that answered, in
  order, and the drivers linked so far, each to the first device of its identity.
  `StorageInv` is `DirectoryInv` and `FilesInv` from the format on, and nothing of
  memory before: a reset may come in the middle of the format, after which
  `FreshDirectory` starts again from what memory holds. `FilesInv` says of each
  live block that its fields are what its creator asked for (`Described`), also of
  blocks that were another file's before. That the digits `ls` prints are the size
  and have no leading zero is `PrintedRight`, for every size.
  `DevicesAssumption` and `BootAssumption` say that there is a slot, a built-in driver,
  a file to install and a command, that no driver has the id of an empty slot, that
  the files of `kInit` have sizes and attributes there are, and that the commands of
  `main` fit the table and have names.
* **BootProofs**, of the end of the boot: `ReadyCorrect`. Three more parts of the
  invariant follow the rounds. `ConsoleInv`: the console's drivers are two that their
  names find among the built-in ones, because linking leaves a name. `CommandInv`:
  the registry is the commands so far and then free entries, so the first free entry
  is the next one. `InstallInv`: the references in the directory, one block after
  another, are the files of the boot in their order (`Chained`, `Installed`), and
  every sector after those they take is free (`FreeFrom`), so no creation and no
  extent is refused. That a file is added at the end needs every block but the last
  to be full (`Packed`), which is so until a file is removed; `ShownInOrder` then has
  `ls` show just this sequence. Two assumptions are about what is built in:
  `DriversAssumption`, that a driver bears each of the names `cliInit` asks for and
  none bears both (`drivers.c:3-9`), and `RoomAssumption`, that header, root directory
  and the files of `kInit`, with an extent for each that may find its directory full,
  fit the device. The kernel's take 16 of 1024 sectors (`kernel.c:28-52`).
* **FileTransferProofs**: `TypeCorrect`, `ReadBackCorrect`, `TransfersConfined`. The
  invariant has three parts. `HeldTrue` and `TableTrue`: while the table has had
  room, an index that is held has its holder's file and size, and has one holder.
  `Walk` ties the two counters together: i is (sector - i) full payloads and
  sectorCounter bytes, so the address of a byte depends on its index alone
  (`Place`), and distinct indexes have distinct addresses (`PlaceInjective`), which
  is why a read sees what a write of another size left (`Stored`).
* **ConsoleProofs**: `TypeCorrect`, `CursorCorrect`, `LineCorrect`, `CommandCorrect`.
  The inductive invariant adds `TailBlank` (the string after the line is spaces),
  which the lookup relies on, since it reads past the end of the line, and which
  makes the parameters begin inside it. `CursorFollows` says that some number of
  rows, at most the cursor's, lies between prompt and cursor, so backspace at
  column 0 always has a row above; a scroll keeps it because the longest line is
  shorter than the display (`RowOnDisplay`). That a place of the display belongs to
  one character only is `SameRow`: two columns differ by less than a row.
  `CommandCorrect` rests on `Lookup`, where the loop leaves each name.
* **NetworkProofs**: `NetworkTypeCorrect`, `TableCorrect`, `DeliveryCorrect`,
  `ConnectionCorrect`, for every net and at any speed of its boards: they use no
  fairness. Of the invariant, `Carried` and `CardsCarried` say which packets each card
  can hold given what is at the other end of its wire: a request comes from the host
  wired to the port, a greeting from a router, and to a host comes its own text, or to
  a client one for 0.0. That is what makes the tables true; with it `Promised` says
  that a confirmation on its way to a server has been entered in the router's table.
* **SchedulerProofs**: `SchedulerTypeCorrect`, `MutexCorrect`, `MemoryCorrect`,
  `ChargeCorrect`, `ShellCorrect`, for every table of tasks and every depth. The
  invariant gives the shape of the stack of activations: all but the top one have
  given the mutex back (`Stacked`), the mutex is held just when the top one has not
  (`Locked`), and pointers, ticks, the interrupt flag and the main loop are what the
  stage of the top one says (`Pointed`, `Charged`, `Masked`, `Idle`).

Only model-checked: the liveness properties (`LateCardsFound`, `TextLeaves`,
`EveryTaskIsCalled`, `HangsAreNoticed`, `ProgramsDoWhatTheySay`), which
are out of the prover's reach; and Emulator, whose instructions use the bitwise
operators.

## 5. What was found

* **The header of a full device is overwritten** (`directory_full`). `fs.h:16-18`
  gives the header's fields. `fsFileCreate` returns 0 when nothing is free;
  `fsDirectoryCreate` and `fsDirectoryExtentCreate` use the 0 as a handle and write
  a count and attributes over the capacity, the root pointer and the sector size.
  The partition no longer opens, and `fsDirectoryAddFile` reports success.
* **A count says more than the directory holds** (`directory_refill`). `fs.h:23` says
  the count is how many entries the directory or extent contains. On the kernel's
  numbers: 15 files in a directory, remove the fifteenth, add another. The fresh
  extent is freed, the full one gets an eighth reference, and only its first byte
  is transferred.
* **A full line is saved past its buffer** (`console_full`). `command.c:99` saves the
  line in `console_string_old`, which has 40 bytes; the loop copies one more than
  the length, and the length can be 40. The property `CommandCorrect` is proved for
  the returns that do not do this.

Seen while modelling; the models behave as described, and no run is about them:

* *Scheduler.* The watchdog returns after its first threshold, so the branches that
  kill a task and halt the machine (`scheduler.c:323`) are never reached. A volatile
  task ("Run once and terminate", `scheduler.h:13`) stays in the table and each
  visit to it resets the index, which starves the tasks behind it and task 0
  (`EveryTaskIsCalled` is about tables without one). A task of
  priority 255 never runs, and `TASK_PRIORITY_HALT`, 0, is the fastest. The
  `InterruptStop` functions stop each other's timer; they come after a loop that
  never ends.
* *File system.* With all 16 files open another one gets index 0, or the entry
  behind the arrays (`fsFile.c:54-61`). `fsDeviceGetRootDirectory` reads the sector
  size field, which equals the root pointer on a fresh device. Every boot formats
  the device, so a reset erases all files.
* *Devices.* Drivers' names are padded with zeros, devices' with spaces, and all ten
  bytes are compared: a device that pads its name with spaces is never linked
  (`device.c:54-66,98`). The keyboard's built-in address on REV2, 0x90000, is one
  past the last slot, so it is never discovered; an unlinked driver is used at its
  built-in address all the same.
* *Boot.* The memory total counts the byte that failed (`kalloc.c:53`): 1023 good
  bytes pass the check for 1024. REV2 does not check, and both boards format 32768
  bytes whatever the test found (`kernel.c:28`).
* *Network.* A ping carries address 0.0, which the router writes into its table in
  place of the client's address (`router.c:273-278`): the client gets texts for 0.0
  from then on, and none of its own until it connects again. A text for 0.0 goes to
  the first such port. Around a cycle of routers a text for an address nobody has
  travels for ever: `TextLeaves` is checked on a tree. A router and a server, or two routers, can miss each other's
  greetings for ever if their loops keep meeting in the same place. A
  client's `con` takes any packet of a router, a greeting too, for its connection. A
  `send` nobody answers in time is repeated, so a text may arrive several times.
* *Emulator.* `JL` jumps also when the operands are equal (`x4.c:306-308`); a call
  within a call loses the outer return address (`x4.c:29`), and the program starts
  again; interrupt 20h leaves user mode and heap set (`x4.c:366-369`), which the end
  of the buffer does not; the segmentation check never fails; `IN` and `OUT` have
  opcodes and no case; a program that does not return runs into what an earlier one
  left in the buffer. The programs of `boot.c`: `ld` says "Loaded" though
  `LoadLibrary` does nothing, `mk`, `mkdir` and `rm` always report a bad name because
  the file service answers 1 to everything, and the second `ld` is never dropped.
* *Printing.* `ls` never shows the fourth attribute, though `fsVirtual.c:15` says
  "Print attributes": `print` leaves out the last of the length it is given
  (`print.c:42`), for a string its zero, and is given 4 for four attributes
  (`fsVirtual.c:24`). `printInt` moves the cursor by place/2+1 (`print.c:75`). The RetroAVR
  X4's `bus.c` defines `bus_write_byte_eeprom` twice.

## 6. Not modelled

The definitions model 30% of the repository's lines of implementation. Less than
half of those lines are code: the rest are blank, comments, or code commented out.
What is left out, and why:

* *Commented out*: `asm.c`, `edit.c` and most of the smaller commands; `virtual.c`
  and `new.c`; the bodies of `TaskCreate`, `TaskDestroy` and `TaskFind`; the file
  service of the emulator; a second version of the server; the card's driver.
* *Calls functions that no longer exist*: the commands `copy`, `format`, `attrib`,
  `rm`, `rn`, `mk`, `type`, `device` and others, written for an earlier file system
  and registered nowhere; `vfs.c`, whose table nothing calls through.
* *Stands on functions that are empty in this build*: `string.cpp`, `array.cpp`.
* *No caller*: the conversions of `cstring.c` but those named in the map, the flags
  of files and `fsFileExtentCreate`, `fsDirectoryDelete`, `bus_write_memory_eeprom`,
  `FindNextAvailableMemoryRange`, the keyboard waits of `cli.c`, the vector table
  of the external interrupt, whose handlers are all empty. Its service reads
  address 0 in the middle of whatever bus access it interrupts
  (`kernel.c:343-347`); the timing of pins that decides what that does is below the
  level of these models.
* *Output only*: graphics, sound, the layout of what is printed, the pins and wait
  states of the bus and the ports of the board.
* *Below the level of the model*: the bytes of a packet on the wire (a cut packet is
  a lost one), which scan code is which letter, the baud rate, `net`'s `rep` (a send
  without end) and `src` (a client that takes another's address, which the
  properties of the network exclude). Memory that fails inside the partition, after
  the format, is not followed either.
