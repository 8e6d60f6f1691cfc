# PicoMemcard: a TLA+ model of the memory card emulator

PicoMemcard makes an RP2040 board behave as a PlayStation memory card. A card is a file of 131072
bytes, kept on an SD card (PicoMemcard+) or in the on-chip flash (PicoMemcard++), loaded whole into
RAM and served from there; what the console writes goes to RAM and is saved afterwards. The file
names below are relative to `src/` in the firmware repository's sources.

## 1. Inventory

| Component | Source | State it keeps | Operations | Interacts with |
|---|---|---|---|---|
| Command handler | `memcard_simulator.c:72-253` | the position in a command, the card in RAM, `flag_byte`, request flags | READ, WRITE, ID, PING, GAMEID, pad read | the bus FIFOs; main loop through `write_transaction`, the sync queue, `request_*_mc` |
| Deselect interrupt | `memcard_simulator.c:255-305` | none | restarts the PIO programs; with two cores resets core 1, which runs the handler | cuts the handler short wherever it is |
| Main loop | `memcard_simulator.c:307-518` | the image in use, the sync queue | drain the queue, flush, switch, create, reconnect | storage through `fs_manager`; card manager; LED |
| Card in RAM | `memory_card.c` | `flag_byte`, `data` | import, sector checks, `memory_card_sync_sector` | storage |
| Flash back end | `fs/flash/flash_wrapper.c:89-187` | `out_of_sync`, `last_written_time` | read, write at, try to flush | littlefs |
| SD back end | `fs/sd/sd_wrapper.c` | none between calls | read, write at, list | FatFs |
| Card manager | `memcard_manager.c` | the image files, the index file, the pointer `image_names` | count, get, next, previous, create | storage |
| LED | `led.c` | colour, on or off | sync status, blink | main loop, `flash_try_flush` |
| Card bus | `psxSPI.pio.in` | shift registers and FIFOs of three PIO programs | receive, send with acknowledge | console, handler, interrupt |
| USB transfer | `msc_handler.c`, `fs/flash/ram_disk.c`, rest of `flash_wrapper.c` | the FAT RAM disk, `RETRIEVE.meta` | build the disk, copy uploads, prepare a download | PC, littlefs; before the main loop only |
| Start-up and console | `main.c` | the command line | USB window, serial commands, hand-over | USB transfer, main loop |
| Debug log | `debug.c` | a ring of 1024 bytes, `dropped` | print, flush; the report on what was dropped has no caller | serial port |
| Glue, tables | `lfs_disk.c`, `sd_config.c`, `sd_disk.c`, `usb_descriptors.c`, ... | none | thin calls | drivers |

What is hard here, and what makes each part correct:

* *Concurrency.* The second core (build option `MULTICORE`) writes sectors while the first copies
  them to the card, and is reset by an interrupt at any instruction. Correct: no byte the console
  wrote is forgotten; a WRITE never lands in a card that is being replaced.
* *Write-back.* Two levels on flash: a queue of sectors, then a bit per slot flushed after three
  seconds of silence. Correct: whatever differs from its file is on its way there, and the LED says
  so; a change of card does not lose it.
* *Failure.* Storage errors drop what they concern, some unnoticed. Correct: only that is lost.
* *Bounds.* The queue has as many entries as a card has sectors, and its producer blocks.
* *Transfer.* What a PC copies to a disk in RAM reaches the flash only on eject, image by image, each
  removed before it is written again. Correct: what was copied arrives, a request is served when the
  disk is built the next time, and no other image changes, whenever power is lost.
* *The bus.* A command may be cut short at any byte, by the console, a timeout or a change of card,
  with bytes left in the FIFOs of the state machines and the handler in the middle. Correct: what the
  console accepted is true, no byte strays into a sector, and the parts find together again.
* *Naming.* Images are named after a count, remembered by a place in an alphabetical list, in a file
  that is not truncated. Correct: no image overwrites another; the last one comes back.

## 2. Modules

| Module | Models |
|---|---|
| `MemcardSimulator` | handler, interrupt, main loop, the part of both back ends that serves the card in use, the LED |
| `WriteBackCache` | abstract: the card is a write-back cache of one image file |
| `CardBus` | console, state machines, handler as exchanges of bytes, interrupt, reconnection |
| `LogBuffer` | the debug log: its ring and the flush to the serial port |
| `MCMemcardSimulator` | contents of the cards for TLC |
| `MemcardSimulator_proofs`, `CardManager_proofs`, `UsbTransfer_proofs`, `LogBuffer_proofs`, `WriteBackCache_proofs`, `CardBus_proofs` | theorems about the module of the name |
| `CardBus_sector` | the rest of the theorems about `CardBus`: what is in the FIFOs and where the handler is in it |
| `MemcardSimulator_refines` | proof that `MemcardSimulator` implements `WriteBackCache` |
| `CardManager` | the images, their order, creation, the index file, power on and off, a PC that edits the files |
| `MCCardManager` | first directories and buffer contents for TLC |
| `UsbTransfer` | the flash build at a PC: start of the program, RAM disk, uploads, download requests, serial commands |
| `MCUsbTransfer` | the first images and the files on the PC for TLC |

Operators under a comment "Seeded bug" stand beside the definition they would replace: they are
plausible mistakes used to confirm that the properties notice them, and are not part of any
specification.

### MemcardSimulator

`pc` is the handler's place in `process_memcard_cmd`, `mpc` the main loop's, one step for each access
to what the two share. The correspondence of actions and code:

* `WriteCmd`, `WriteEnter`, `WriteAddress`, `WriteData`, `WriteAcked`, `WriteQueue`, `WriteStatus`:
  the case `MEMCARD_WRITE` in order; `WriteRefused` is its early return, which keeps the mutex.
  READ, ID, PING and GAMEID change nothing here and are in `CardBus`. `PadRead` sets a request flag.
* `SelRise`: the interrupt with two cores. `lost` (bookkeeping) remembers a sector cut short.
* `LoopHead` ... `FlushEnd`: `flush_operations`, with `queue_sync_step` as `Dequeue` followed by a
  copy byte by byte (`SyncCopy`, `SyncDone`, `SyncFail`) on the SD card or by `SyncMark` on flash;
  `flash_try_flush` as `TryFlush` and a `FlushSlot` per slot. `flash_write_at` also calls
  `flash_try_flush`, but has just restarted the three seconds, so the call does nothing.
* `NoChange` ... `Reconnect`: `process_user_input`. `Lock` enters the mutex, the queue is drained
  through the same actions with `op` other than `"flush"`, `Switch` or `Create` replace the card, and
  `Reconnect` clears the requests and leaves the mutex. The interrupt is disabled in `Reconnect`; an
  edge that came meanwhile is latched and is a `SelRise` afterwards.

With one core (`MULTICORE = FALSE`) the handler runs only while `mpc = "serve"`, and the loop leaves
that state only between commands (`Idle`). With two they interleave freely. The two-core build is
taken to be an SD build (`BuildAssumption`): core 1 executes from the flash a flush would program.

Undefined behaviour: `flash_try_flush` tests a `status` that was never assigned
(`flash_wrapper.c:143,151`). `StatusGarbage` is the set of values it may read; any other than `FR_OK`
stops the device (`FlushHang`), after the slot was written. `written` keeps the value of the turn before when the file cannot be
opened, so a failed slot may pass for saved (`FlushSlot`). The list in which the next image is looked
up is filled through a freed pointer, so a request may end as at the end of the list (`EndOfList`).

Sectors are contents of `MC_SEC_SIZE` bytes, so that a copy can be torn; checksums, acks and the game
ID carry no state. Only the LED's "data synced" is kept (`led`).

### WriteBackCache

The abstract specification has no cores, queue, slots or back ends: a card, the image it is a copy of,
the files, the sectors `owed` to the file and those given up (`lost`). A sector is owed before its
first byte changes, and leaves `owed` only when the file has it or when it is given up; an image is
left only with nothing owed (`MayChange`), except in the flash build (`MayLeave`). Nothing is given up
where no error and no reset can happen (`MayGiveUp`). `MemcardSimulator` implements it under the
mapping at its end: `owed` is the set `Owed` of the sectors that are being received, queued, copied or
out of sync. `StoreTorn` is what the second core makes necessary, a sector saved in the middle of a
WRITE that is still owed; `Retry` a given-up sector written again.

### CardBus

One selection of the card at a time: the console selects it, clocks byte after byte (`Clock`), waits for
ACK before the next, and gives up when none can come, when an answer is wrong, or at will
(`MaxAborts`). The state machines are `sm` with the FIFOs `rx`, `dat`, `tx` and the byte `osr` that
`dat_writer` has acknowledged: `Clock` is what all three do during a byte, `Pull` the `pull` and ACK of
`dat_writer`. They wait for SEL once after a restart, so restarting in the middle of a byte leaves
`cmd_reader` out of step (`"shifted"`): what it receives until the next restart is garbage.

The handler is the sequence of `SEND` and `RECV_CMD` of each command. `hcmd` and `hpos` are the command
and the exchange, `hstep` whether it sends, receives or waits for the mutex; `Out` is the byte sent.
Bytes are told apart as far as the commands do (`MayBe`: a data byte may happen to equal any code).
`ServeEdge` is the deselect interrupt; with two cores it is followed by `ResetCore1`, and core 1 runs
on in between. `StartChange` ... `Release` are a change of card as far as the bus sees it: the mutex,
`memory_card_import` byte by byte, `simulate_mc_reconnect` with the interrupt off, and the edge that is
latched meanwhile.

What is assumed of time: the handler answers, and `dat_writer` has taken a byte, before the console
clocks the next; an edge is served and the handler waits before the next selection, unless the interrupt
is off; the second of the reconnection outlasts the selection it began in.

What the model shows beyond the properties:

* With one core the handler is not reset. After a WRITE the console abandons (`cut`), it takes the
  bytes of the next commands for the rest of the sector, so that `SectorFromWrite` ends there; it may
  also refuse the address it put together and keep the mutex, after which the device stops at the next
  WRITE or change of card (`Stuck`).
* A pad poll that no pad answers leaves the one-core handler waiting for the pad's bytes; the next
  command for the card is lost on it.
* With two cores the card answers in the second in which it is to be missing (`config.h:17`).
* A READ takes no mutex and may send a sector made of two cards; the console then finds the
  `flag_byte` of a new card (`AcceptedRead`).

### LogBuffer

A byte is its number among all bytes printed, so that order and loss can be told. `calls` are the calls a
macro of `debug.h` still has to make. `rb_write` writes what fits and counts one for all the rest. The
serial port is the room it offers in each turn of the loop of `usb_log_flush` (`FlushChunk`). Left out is
the report on what was dropped: `usb_log_report_drops` is called by the macro `DBG_FLUSH` only, which
nothing uses, so that a reader of the log never learns of a drop. (It would say bytes, `debug.c:107`, of a
count of messages.)

### CardManager

An image N.MCR is the number N, with a length in slots: one more than an image has stands for every longer
file. `Before` is `strcmp` on the names, `Position` the place in the sorted
list, `index_file` the digits of `LastMemcardIndex.dat`, written over the old ones without truncating
(`Overwrite`) and read from a buffer that is not terminated (`Garbage`). Without long names
(`LongNames = FALSE`, FatFs with `FF_USE_LFN` 0) the file cannot be created and the error is ignored.
Creating takes a step per slot and may be cut short when `Interrupted`. `GetNext`, `GetPrev` and
`CreateEnd` write the index; the queue is drained and the image changed afterwards, in `Change`
(`memcard_simulator.c:371-376`, `:398`), and the power may go in between (`power = "switching"`). `PowerOff`,
`PCStore`, `PCDelete` and `Save` are the world around the device; a PC stores files that are short, exact
or long. After `memcard_manager_get` the global `image_names` is a freed block: `Found` says when next and
previous can find the image in use nevertheless: if it has the right length, and `malloc` returns that
block; when it does not nothing changes. If the first image was created at boot the pointer is null
and they write to address zero (`GetFault`).
The two modules meet in `Create`, `CreateFail`, `Choose`: `MemcardSimulator` takes any image for the
one created, the nearest of the ordered images for the next one.

### UsbTransfer

`fat`, `root`, `upload`, `download` are the RAM disk as FatFs would list it; `lfs` and `metadata` are
the flash: the images and `RETRIEVE.meta`. Only these two and `formatted` outlive `PowerOff`. A file is
its number (0 for any name that is no number), its size (shorter than, exactly, or more than a card)
and its content.

* `Boot` is `lfs_init`: the boot that formats the flash leaves `initialized` unset, so a PC sees no
  disk until the next one. `Simulate` leaves the loop of `main` for good: `simulate_memory_card` mounts the
  storage again, which builds the disk once more and removes `RETRIEVE.meta`, creates the first image if
  there is none (here in one step, `CardManager` has the steps), and imports a card over the disk.
* `Mount` (`tud_mount_cb`) and `Load` (`flash_startstop`) build the disk: `CreateFatFs` serves the
  request, copies the image to the root, and removes `RETRIEVE.meta` in any case. A file with no
  number in it leaves the variable it is read to uninitialised (`Requested`).
* `PutUpload`, `PutDownload`: the PC writes blocks; here, whole files. The disk has 360 blocks, room
  for one image (`CanHold`). When an image was served the firmware makes no folders; the PC may.
* `Eject` and `Umount` start `RAM_disk_sync_LFS_from_FatFs`, whose operations of littlefs are an
  action each, because littlefs makes each of them permanent and `PowerOff` may come between any two:
  `UploadRemove`, `UploadCreate`, `UploadWrite` for an image, `MetaRemove`, `MetaCreate`, `MetaWrite`
  for a request. `UploadRefused` stops the iteration at a file that is no image; the DOWNLOAD folder
  is visited all the same, and `status |=` hides nothing since nobody looks at it.
* Errors of littlefs: `UploadFail` is one the code notices (the mount, with the old image still there, the
  new file, a write), which ends the iteration; `UploadUnsaved` one of `lfs_file_sync` or `lfs_file_close`,
  which it ignores, going on with the next file. Either leaves an empty file or a part (`LeftPartly`).
  `MetaFail` is overwritten by `status = 0`; `MetaMountFail` ends the iteration with the old request in place.
* `CommandNew` creates an image in the RAM behind the first 128 KB, in the middle of the disk, whose
  files are torn by it; here in one step (`CardManager` has the steps). `CommandMc` loads a card over
  the disk. `CommandFormat` formats the flash.

Bookkeeping: `wanted` is the last request of an eject that has not been served, `played` says that a card
was simulated since, `failed` has the files of this iteration whose error was ignored, and `touched` the
images that a PC or a command named. littlefs itself is a submodule that is not part of the sources.

## 3. Properties and runs

Sizes: a card is two or three sectors of one or two bytes with two byte values, two images, at most
two or three writes between two moments at which the queue is empty (`MaxBurst`). Two sectors show
every interaction of a sector with another, with the same slot (`MC_SLOT_SEC_COUNT = 2`) or another
(`= 1`); two bytes make a torn sector; two byte values tell old from new; one image more than the one
in use is enough to switch and come back.

| Run | Build | Checks | Shows |
|---|---|---|---|
| `MonoSD` | one core, SD | `Accounted`, `QueueNeverBlocks`, `ImplementsCache`, `EventuallySaved` | nothing is forgotten, the queue never blocks, a queued sector is saved or given up as long as the console rests for 5 ms after `MaxBurst` WRITEs, unless the device hangs (`Hung`) |
| `MultiSD` | two cores, SD | `IInv`, `WriteOrChange`, `QueueNeverBlocks`, `ImplementsCache`, `SwitchAfterSync` | the same against the racing copy and the reset, and that a change of card waits for the queue |
| `MonoFlash` | one core, flash | `TypeOK`, `Accounted`, `ImplementsCache`, `SavedWhenQuiet`, `FreshCardUnchanged` | slots, storage errors, garbage status; a quiet console lets everything be saved, unless the device hangs; left-over slots do not change a fresh card |
| `CardBus` | both, SD or flash | `TypeOK`, `BusInv`, `SectorFromWrite`, `WriteToAnnouncedCard`, `AcceptedRead`, `AcceptedWrite`, `Recovers` | what the console accepts is right, it is answered again after any abandoned command, and the inductive invariant of the proofs holds |
| `CardsUpToNine` | flash | `TypeOK`, `CurrentWhole`, `CreateKeepsSaves`, `BootReloadsLast`, `NextIsNextNumber` | whatever a PC stores and wherever power is lost the image in use is whole; with one-digit numbers next and previous skip none; as long as the files were left alone the other promises of the README hold |
| `UsbUploads` | flash | `TypeOK`, `Untouched`, `UploadsArrive`, `Retrievable` | with power cuts, errors of littlefs and files of every kind, uploads arrive, a request is served to the PC unless a card was simulated first, other images stay |
| `LogSmall` | | `TypeOK`, `SentInOrder` | a ring of four bytes, wrapped, filled and flushed in parts, sends what it accepted, once and in order |
| `ResetKeepsMutex` | two cores | `TransactionReleased` (violated) | the reset in a WRITE leaves the mutex taken for ever |
| `SwitchFlash` | flash | `SwitchAfterSync` (violated) | a switch within three seconds of a write loses it |
| `LedFlash` | flash | `LedTruthful` (violated) | the LED is turned on while slots are out of sync |
| `CardsGap` | | `CreateKeepsSaves` (violated) | with 1.MCR and 3.MCR stored, creating empties 3.MCR |
| `CardsShortNames` | SD | `BootReloadsLast` (violated) | the index is never stored, the first image always boots |

`CardsUpToNine` has numbers 0 to 4 in base 5, all of one digit, and up to four images. A PC stores and deletes
0.MCR to 3.MCR, one slot short, exact and one too long; power is lost and creating fails at every step. The
properties say themselves when they promise something: `CreateKeepsSaves` while nobody but the device has
changed the files (`edited`), `BootReloadsLast` also while no creation was cut short (`cut`). `CurrentWhole`
asks for every slot, not for the exact length: an image created over a file that is too long keeps the length
of that file, since nothing is truncated, and is then no longer in the list it was counted in.

The promises of the README fail in more ways than the runs list; the model shows each by a change of
constants. `BootReloadsLast` with a small base (the image whose number gains a digit is remembered by count,
not by place), with two digits of index overwritten by one, after a creation cut short (a short file counts in
one list only), with garbage after the index. `NextIsNextNumber` with numbers of two digits: 10.MCR comes
between 1.MCR and 2.MCR, against `README.md:143-144`. `TransactionReleased` with one core and an invalid
address (`memcard_simulator.c:131`).

`LedTruthful` is what `README.md:155` says of the LED: on only when all changes have been saved. It is asked
where the loop has just saved what it saves and set the LED, with the handler between two commands. The flash
build breaks it there: `flush_operations` sets the LED after `flash_try_flush`, which does nothing until three
seconds have passed (`LedFlash`). That the LED also stays on while commands are served and after a failed save
is the same contradiction elsewhere.

`UsbUploads` has two images and two files in a folder, of four the PC has: 1.MCR of the exact size, another
that is too short, 2.MCR that is longer than a card, and 3.MCR, a number beyond the last; requests are for 0 to
3. So there is an image before and after a refused file, a new one over an old one, and a second eject. What the
instructions on the disk promise and the code does not is written into the properties: the images
after a refused file are not stored, a request is served once, whether or not the PC reads the copy,
and an image being overwritten when power is lost is lost. One of these is a plain contradiction:
`flash_config.h:40` promises the image for the next time the device is plugged in, but a session at a console in
between mounts the storage, which removes `RETRIEVE.meta` and shows the copy to nobody (`flash_wrapper.c:258`).
`Retrievable` states both cases, by `played`: served exactly as asked, or a disk without the image.

`CardBus` has a sector of two bytes, the second of which is the one an interrupted WRITE leaves, FIFOs of
three entries instead of eight (a command is longer than a FIFO, as in the code; `BusAssumption` asks for
three because a console that is answered has at most three bytes waiting), one abandoned command,
one change of card and both builds. READ, WRITE, ID and the pad poll are enabled; PING and GAMEID,
which have nothing the others lack, were added for a run of their own with FIFOs of four. `LogSmall` has
messages as long as the ring has room, and nine bytes, enough to go around twice.

The console also writes to a sector that does not exist (2, in `MonoSD`, `MultiSD` and `MonoFlash`). The WRITE is
refused with `write_transaction` kept (`memcard_simulator.c:131`), and with one core the next WRITE or
change of card then waits for it on the only core, for ever, with whatever is queued or out of sync unsaved.
`Hung` is that state; `EventuallySaved` and `SavedWhenQuiet` promise nothing in it.

`CHECK_DEADLOCK FALSE` is set where the system really stops: a reset leaks the mutex (`MultiSD`,
`ResetKeepsMutex`), a refused WRITE keeps it (`MonoSD`, `MonoFlash`), `flash_try_flush` enters its error loop
(`MonoFlash`), and the log may be printed to no further than the bound (`LogSmall`). `CardBus`, the card manager and the USB transfer are
checked for deadlock.

`lost` makes the properties say what is *not* promised: a sector the program gave up (a storage
error, a slot taken for saved by the uninitialised status, a WRITE cut short by the reset, a failed import) is
exempt until it is written again. So these losses are recorded, not caught; what is caught is the loss of
anything else with them. It is never used to exempt the writes a switch on flash loses, which is what `SwitchFlash` shows.

### Bounds

`MaxBurst` limits the WRITEs between two moments at which the main loop sees an empty queue. It is
the assumption behind the comment "enough space to do complete MC copy" (`memcard_simulator.c:413`):
a console polls once per frame, far longer than the 5 ms that let the loop go. That it does rest is assumed,
not checked, and `EventuallySaved` is true only under it. `QueueNeverBlocks`
is stated for `MaxBurst <= MC_SEC_COUNT`, the other invariants for every value. `MaxNumber` bounds
the numbers of images, `MaxName` and `MaxFiles` the names and the number of files of a PC;
`CountWidth` stays 256, the width of `memcard_n`.

### Fairness

`FairSpec` has weak fairness of `MainNext` (the main loop is the only thread of its core and always
runs), of `Tick` (time passes) and of `HandlerProgress` (a console that began a WRITE clocks the rest
of it; it is not obliged to begin one). Nothing is assumed of the pad, of the interrupt or of
`SyncFail`. With two cores the promises of progress do not hold, since a leaked mutex blocks the
device: that is `ResetKeepsMutex`.

In `CardBus` the device runs (`Pull`, `HandlerNext`, `InterruptNext`, `MainNext`, weakly fair: state
machines and cores never pause), a console goes on with what it began (`Clock`, `GiveUp`), and asks for a
READ again and again (strong fairness of `Select("read")`, because selecting is possible only between
interrupts). `Release` is strongly fair: `mutex_exit` waits only for the latched edge to be served, and
the main loop then goes on before the console can select and deselect the card once more.

## 4. Proofs

`MemcardSimulator_proofs` proves, for all geometries, builds, images, addresses and storage
behaviours that satisfy the three assumptions of the module:

| Theorem | Statement |
|---|---|
| `TypeCorrect` | `Spec => []TypeOK` |
| `IInvInvariant` | `Spec => []IInv` |
| `AccountedInvariant` | `Spec => []Accounted` |
| `WriteOrChangeInvariant` | `Spec => []WriteOrChange` |
| `QueueNeverBlocksInvariant` | `Spec => []QueueNeverBlocks` |
| `SwitchAfterSyncHolds` | with `USE_SDCARD`: `Spec => SwitchAfterSync` |
| `FreshCardUnchangedHolds` | `Spec => FreshCardUnchanged` |

`Accounted` is not inductive. `IInv` adds what it rests on: the owner of the mutex follows the two
positions (`MutexOwned`); the reason for draining follows the main loop's position, and on the SD
card no slot is ever out of sync (`Phases`); with one core nothing is received outside the polling
loop (`OneAtATime`); each entry of the queue was counted (`Counted`); and, the heart of it,
`CopyTracked`: the sector being copied either has not been overtaken by a write, or has an entry to
come. `Accounted` alone does not say so when the file happens to hold what is in RAM while an older
mixture is on its way to it. The proof goes through type correctness first, then the control
invariants action by action (`ControlInvStep`, `CountedStep`), then the accounting with one lemma for
the handler, one for saving and one for changes of card. TLC checks `IInv` in `MultiSD`.
`FreshCardUnchangedHolds` rests on a second invariant, `Fresh`: while the console sees a new card nothing is
queued or being saved, and each sector equals its file, is being received or was given up. A slot that the
card before left out of sync is flushed with one core only, between two commands, so that what is written
to the new file is what it holds.

`MemcardSimulator_refines` proves `Implementation`, `Spec => ImplementsCache`, for both builds and both
back ends. It needs `IInv` (through `IInvInvariant`): `CopyTracked` tells a save (`Store`) from a torn
one (`StoreTorn`), `MutexOwned` that no sector is being received when the card changes, and `Phases` that
on the SD card nothing is out of sync. One lemma per action maps it to a step of the cache or to a
stutter. `WriteBackCache_proofs` proves what the cache promises of itself: `NothingForgottenInvariant`,
and `NothingLostInvariant` where nothing can go wrong.

`CardBus_proofs` and `CardBus_sector` prove that `BusInv` is inductive, for any size of sector and FIFO, any
commands and any number of selections, cut short or not. It has two halves.

* `ControlInv`, proved in `CardBus_proofs` with `TypeOK` and `WriteToAnnouncedCard`. Where the handler is and
  what it has of an address (`HandlerPlace`, `Collected`); who holds the mutex, given the positions of handler,
  interrupt and change of card (`Ownership`); when an edge can be latched, served late or lead to a reset
  (`Latching`); that a served edge leaves nothing of the selection in `rx` (`Quiet`); and the heart of it, `ResetToCome`
  and `Announced`: a WRITE past the mutex is one to the card the console was told of, because a handler that
  waited for the mutex through a change of card is reset by the latched edge before it can go on.
* `StreamInv`, proved in `CardBus_sector` with `SectorFromWrite`. Between two restarts of the state machines
  one of three things is true of the bytes in `rx` and of those the handler has taken (`Taken`). It is
  `InStep`: they are what the console sent from the first byte of a READ or WRITE on, in order, and with the
  answers that are due they leave room in the FIFO. It is `Behind`: it has taken fewer than the console sent
  or comes too late in a command to see its address, so that what it takes for an address is none. Or it is
  `Misled`: it still waits for the code of a command, and the next byte, 0x81 or 0x01, is not one. Only a
  handler in step can come to write, and then what it writes is the console's. One lemma for each action
  says which of the three is left and which is reached; `Shifted`, `Dropped`, `StaysInStep` and
  `StaysBehind` are what happens to the queue when a byte comes or its head is taken.

`SectorFromWrite` is stated until the first WRITE a one-core handler is left in the middle of (`cut`), since
the code does not reset that handler and the promise fails there.

| Module | Theorem | Statement | Along |
|---|---|---|---|
| `CardBus_proofs` | `BusTypeCorrect`, `WriteToAnnouncedCardInvariant` | `Spec => []TypeOK`, `Spec => []WriteToAnnouncedCard` | `ControlInv` |
| `CardBus_sector` | `BusInvariant`, `SectorFromWriteInvariant` | `Spec => []BusInv`, `Spec => []SectorFromWrite` | `BusInv` |
| `CardManager_proofs` | `CardTypeCorrect` | `Spec => []TypeOK` | `TypeInv`; that `Digits` has a value, and which, for every number |
| | `CurrentWholeInvariant` | `Spec => []CurrentWhole` | `CardsInv`: the slots of the image being created that were written are there, and one begun at boot has none in use beside it |
| | `CreateKeeps` | with `Numbered`: `Spec => CreateKeepsSaves` | `NamesInv`: the next number is above all files (`NoGaps`), the image being created has no saves (`Unsaved`) |
| | `NextIsNextImage` | with `OneDigit`: `Spec => NextIsNextNumber` | the order of the names is the numbers' (`OneDigitOrder`) |
| | `ReloadsLast` | with `Undisturbed`: `Spec => BootReloadsLast` | `PlaceInv`: the index file leads to the image in use (`Recalled`), and no place changes when an image is added, because it is above the others (`Complete`) |
| `UsbTransfer_proofs` | `UsbTypeCorrect`, `UntouchedInvariant` | `Spec => []TypeOK`, `Spec => []Untouched` | `UsbInv`: the entry being copied exists and is an image or a request (`Positions`), files in UPLOAD were named by the PC (`Named`), a flash never formatted holds nothing of the user's (`FirstUse`) |
| | `UploadsArriveAtEnd`, `RequestsServed` | `Spec => UploadsArrive`, `Spec => Retrievable` | `CopyInv`: files in UPLOAD have different numbers (`Distinct`), those left behind are stored whole (`Arrived`), and the request wanted is the last of those still to be visited, or else in `RETRIEVE.meta` unless a card was simulated (`Asking`, `Noted`) |
| `LogBuffer_proofs` | `LogTypeCorrect`, `SentInOrderInvariant` | `Spec => []TypeOK`, `Spec => []SentInOrder` | `RingInv`: what is in the ring, place by place from the tail, is the end of what was accepted (`InOrder`); the arithmetic of the wrap is the lemma `Wrap` |

They hold for all constants that satisfy the assumption named in each module: any number of images, slots
and files, any order of names, any size of the ring, with power cuts and errors or without. Three theorems
about the card manager have a condition, which is the promise's own: where it fails, so does the promise.
`Numbered` asks that the images stored at first have no gap in their numbers (`CardsGap` is what happens with
one), and that their count fits `memcard_n`; power cuts and errors are allowed. `OneDigit` asks for numbers of
one digit; files may be stored and deleted at will. `Undisturbed` asks for both, and for long names
(`CardsShortNames` is without), a buffer that is clean after the index, and whole images at first.
`CardsUpToNine` satisfies all three.

`Digits` is a recursive function, of which the prover knows nothing until it is shown to exist. The lemmas do
so with the least exception in place of induction (`LeastNumber`): the equation has a solution up to each
number (`SomeWay`), one only (`OneWay`), and the solutions together are one for all numbers (`DigitsExist`).

Only model-checked: liveness (no temporal reasoning about fairness in the prover) - `EventuallySaved`,
`SavedWhenQuiet`, `Recovers`; and of `CardBus`, `AcceptedRead` and `AcceptedWrite`, which need in addition
where each answer is on its way to the console.

## 5. Plan

1. *Done*: `MemcardSimulator`, `CardManager`, `UsbTransfer`, `CardBus`, `LogBuffer`; `WriteBackCache` and
   the refinement; the theorems above.
2. `UsbTransfer` further: failures of FatFs, files of which the PC has written only some blocks, and
   an abstract specification of the transfer (a set of images that changes by whole uploads) that it
   implements up to the image being copied when power is lost.
3. `CardImage`: the image `memcard_manager_create` writes, against the layout of an empty card.
4. Theorems: `AcceptedRead` and `AcceptedWrite`.

## 6. Not modelled, and why

Single bits and the timing of ACK; failures of FatFs and half-written files of a PC (planned, 2); the
contents of a created image (planned, 3); the colours of the LED and `ws2812.pio` (layout only); the
drivers, the USB descriptors and `tusb_config.h`, the examples under `poc_examples`, which are input and
output or tables. Of littlefs: failures of `lfs_remove`, failures while the disk is built or the first image is
created by a mount, power cuts within that creation (`CardManager` has them). The report of the debug log,
which has no caller.

Four hazards have no property: requests that arrive during a change of card are cleared with it
(`memcard_simulator.c:380`), of which no document says what should happen; the freed or null list of names
(`memcard_manager.c:145`), whose outcomes are actions of `CardManager`; a console that never pauses for three
seconds keeps everything in RAM (`flash_wrapper.c:119`), which is by design; and one that never pauses for 5 ms
keeps the main loop from saving (`memcard_simulator.c:511`), which `MaxBurst` assumes away. `README.md:158`
says that flash is flushed after about five seconds; the code waits three (`flash_wrapper.c:21`). The
model has only "long enough".
