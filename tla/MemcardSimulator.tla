-------------------------- MODULE MemcardSimulator --------------------------
(***************************************************************************)
(* The memory card simulation: the command handler that the console's bus  *)
(* drives (process_memcard_cmd, process_pad_cmd), the main loop that saves *)
(* dirty sectors and changes cards (flush_operations, process_user_input)  *)
(* and the interrupt raised when the console deselects the card.           *)
(*                                                                         *)
(* Two builds are covered by the constant MULTICORE: one core that serves  *)
(* the bus and then, after 5 ms of silence, does its housekeeping; or a    *)
(* second core that serves the bus concurrently and is reset by the        *)
(* deselect interrupt.  USE_SDCARD selects the storage back end: sectors   *)
(* written at once to a file on the SD card, or slots marked out of sync   *)
(* and flushed to the on-chip flash after three seconds without a write.   *)
(*                                                                         *)
(* The bytes of the protocol that carry no state (identifiers, acks, the   *)
(* reads, the game ID) are left out: they neither change nor guard any of  *)
(* the variables below.                                                    *)
(***************************************************************************)
EXTENDS Naturals, Sequences, FiniteSets

CONSTANTS
    MC_SEC_COUNT,       \* sectors of a card
    MC_SLOT_SEC_COUNT,  \* sectors of a slot
    MC_SEC_SIZE,        \* bytes of a sector
    MC_TEST_SEC,        \* the sector the console uses for its write test
    Byte,               \* values of a byte
    Address,            \* sector numbers the console may send, valid or not
    Images,             \* card images, numbered in the order of the directory
    BlankCard,          \* the content of a newly created image
    StoreAtBoot,        \* the content of each image file at power on
    CardsAtBoot,        \* the images present at power on
    MULTICORE,          \* build option: the bus is served by the second core
    USE_SDCARD,         \* build option: images on an SD card, else on flash
    StatusGarbage,      \* what the uninitialised status of flash_try_flush reads
    IOErrors,           \* whether the storage may fail
    MaxBurst            \* bound: writes the console sends between two moments
                        \* at which the main loop sees an empty sync queue

Sectors == 0 .. MC_SEC_COUNT - 1
SlotOf(s) == s \div MC_SLOT_SEC_COUNT
Slots == {SlotOf(s) : s \in Sectors}
Content == [0 .. MC_SEC_SIZE - 1 -> Byte]
Card == [Sectors -> Content]

ASSUME GeometryAssumption ==
    /\ MC_SEC_COUNT \in Nat \ {0}
    /\ MC_SLOT_SEC_COUNT \in Nat \ {0}
    /\ MC_SEC_SIZE \in Nat \ {0}
    /\ MC_TEST_SEC \in Nat
    /\ Address \subseteq Nat

ASSUME ImagesAssumption ==
    /\ Images \subseteq Nat
    /\ BlankCard \in Card
    /\ StoreAtBoot \in [Images -> Card]
    /\ CardsAtBoot \subseteq Images

\* The second core executes from flash, which cannot be programmed meanwhile:
\* the two-core build is for the SD card.
ASSUME BuildAssumption ==
    /\ MULTICORE \in BOOLEAN
    /\ USE_SDCARD \in BOOLEAN
    /\ IOErrors \in BOOLEAN
    /\ MULTICORE => USE_SDCARD
    /\ StatusGarbage \subseteq {"FR_OK", "other"}
    /\ MaxBurst \in Nat \ {0}

VARIABLES
    \* the command handler
    pc,                 \* where it is in process_memcard_cmd
    write_address,      \* sector of the WRITE being received
    idx,                \* bytes of it received so far
    \* shared by the handler and the main loop
    mc_data,            \* the card in RAM
    flag_byte,          \* TRUE: bit 3 set, "new card" (not yet written to)
    write_transaction,  \* owner of the mutex
    sync_queue,         \* sectors waiting to be saved
    request,            \* the request_*_mc flags set by button combinations
    \* the main loop
    mpc,                \* where it is
    op,                 \* why it drains the queue
    target,             \* the image to switch to
    sec,                \* the sector being saved
    buf,                \* the bytes of it copied so far
    mc_file_name,       \* the image in use
    led,                \* TRUE: the LED shows "data synced"
    \* the storage
    store,              \* the image files
    cards,              \* the images that are in the directory
    out_of_sync,        \* slots flash_try_flush has to write
    timeout_elapsed,    \* three seconds have passed since the last write
    \* bookkeeping of the model
    burst,              \* writes since the queue was last seen empty
    lost                \* sectors the program has given up saving

handler == <<pc, write_address, idx>>
shared  == <<mc_data, flag_byte, write_transaction, sync_queue, request>>
main    == <<mpc, op, target, sec, buf, mc_file_name, led>>
storage == <<store, cards, out_of_sync, timeout_elapsed>>
vars    == <<handler, shared, main, storage, burst, lost>>

-----------------------------------------------------------------------------
(* Where the handler and the main loop can be. *)

\* The handler has entered write_transaction and not left it.
Critical == {"w_addr", "w_data", "w_ack", "w_queue", "w_status"}
\* The handler may have changed the sector and has not queued it.
Unqueued == {"w_data", "w_ack", "w_queue"}
\* A started WRITE that may still put an entry in the queue.
Arriving == {"w_enter", "w_addr"} \cup Unqueued

\* The main loop is inside write_transaction.
Changing == \/ mpc \in {"change", "reconnect"}
            \/ mpc \in {"drain", "sync"} /\ op # "flush"

TypeOK ==
    /\ pc \in {"top", "w_enter"} \cup Critical
    /\ write_address \in Sectors
    /\ idx \in 0 .. MC_SEC_SIZE - 1
    /\ mc_data \in Card
    /\ flag_byte \in BOOLEAN
    /\ write_transaction \in {"free", "handler", "main"}
    /\ sync_queue \in Seq(Sectors)
    /\ request \subseteq {"next", "prev", "new"}
    /\ mpc \in {"serve", "drain", "sync", "try_flush", "slots", "input",
                "lock", "change", "reconnect", "hang"}
    /\ op \in {"flush", "switch", "create"}
    /\ target \in Images
    /\ sec \in Sectors
    /\ buf \in Seq(Byte) /\ Len(buf) <= MC_SEC_SIZE
    /\ mc_file_name \in Images
    /\ led \in BOOLEAN
    /\ store \in [Images -> Card]
    /\ cards \subseteq Images
    /\ out_of_sync \subseteq Slots
    /\ timeout_elapsed \in BOOLEAN
    /\ burst \in 0 .. MaxBurst
    /\ lost \subseteq Sectors

\* simulate_memory_card up to its loop: the initial image has been imported.
Init ==
    /\ pc = "top" /\ write_address = 0 /\ idx = 0
    /\ flag_byte = TRUE
    /\ write_transaction = "free"
    /\ sync_queue = <<>>
    /\ request = {}
    /\ mpc = "serve" /\ op = "flush" /\ sec = 0 /\ buf = <<>>
    /\ mc_file_name \in CardsAtBoot
    /\ target = mc_file_name
    /\ led = FALSE
    /\ store = StoreAtBoot
    /\ mc_data = StoreAtBoot[mc_file_name]
    /\ cards = CardsAtBoot
    /\ out_of_sync = {} /\ timeout_elapsed = FALSE
    /\ burst = 0 /\ lost = {}

-----------------------------------------------------------------------------
(* The command handler.  With one core it runs inside the main loop's      *)
(* polling loop; with two it runs concurrently with the main loop.         *)

HandlerRuns == MULTICORE \/ mpc = "serve"

\* 0x81 'W': the console starts a WRITE.
WriteCmd ==
    /\ HandlerRuns
    /\ pc = "top" /\ burst < MaxBurst
    /\ pc' = "w_enter" /\ burst' = burst + 1
    /\ UNCHANGED <<write_address, idx, shared, main, storage, lost>>

\* Seeded bug: the transaction begins without the mutex.
AvailableAlways == TRUE
Available == write_transaction = "free"

WriteEnter ==
    /\ HandlerRuns
    /\ pc = "w_enter" /\ Available
    /\ pc' = "w_addr" /\ write_transaction' = "handler"
    /\ UNCHANGED <<write_address, idx, mc_data, flag_byte, sync_queue, request,
                   main, storage, burst, lost>>

\* memory_card_is_sector_valid fails: the handler returns to its top, and
\* does so without leaving write_transaction.
WriteRefused(a) ==
    /\ a \notin Sectors
    /\ pc' = "top"
    /\ UNCHANGED write_address

WriteAddress(a) ==
    /\ HandlerRuns
    /\ pc = "w_addr"
    /\ \/ WriteRefused(a)
       \/ a \in Sectors /\ write_address' = a /\ pc' = "w_data"
    /\ UNCHANGED <<idx, shared, main, storage, burst, lost>>

\* Seeded bug: the loop bound is off by one.
IsLastByteLate == idx = MC_SEC_SIZE
IsLastByte == idx = MC_SEC_SIZE - 1

\* A received byte goes straight into the card's sector.
WriteData(b) ==
    /\ HandlerRuns
    /\ pc = "w_data"
    /\ mc_data' = [mc_data EXCEPT ![write_address][idx] = b]
    /\ IF IsLastByte THEN pc' = "w_ack" /\ idx' = 0
                     ELSE pc' = "w_data" /\ idx' = idx + 1
    /\ UNCHANGED <<write_address, flag_byte, write_transaction, sync_queue,
                   request, main, storage, burst, lost>>

\* Seeded bugs: sectors after the test sector are taken for it; a sector that
\* is being saved is thought to need no further entry.
NeedsSyncBelow(a) == a < MC_TEST_SEC
NeedsSyncUnlessCopied(a) == a # MC_TEST_SEC /\ ~(mpc = "sync" /\ sec = a)
NeedsSync(a) == a # MC_TEST_SEC

\* The checksum and the acks; a wrong checksum changes only the answer.
WriteAcked ==
    /\ HandlerRuns
    /\ pc = "w_ack"
    /\ flag_byte' = FALSE
    /\ pc' = IF NeedsSync(write_address) THEN "w_queue" ELSE "w_status"
    /\ UNCHANGED <<write_address, idx, mc_data, write_transaction, sync_queue,
                   request, main, storage, burst, lost>>

\* Seeded bug: no room for the last sector of a card.
QueueCapacityShort == MC_SEC_COUNT - 1
QueueCapacity == MC_SEC_COUNT

\* queue_add_blocking
WriteQueue ==
    /\ HandlerRuns
    /\ pc = "w_queue" /\ Len(sync_queue) < QueueCapacity
    /\ sync_queue' = Append(sync_queue, write_address)
    /\ pc' = "w_status"
    /\ UNCHANGED <<write_address, idx, mc_data, flag_byte, write_transaction,
                   request, main, storage, burst, lost>>

\* MC_GOOD or MC_BAD_CHK is sent and the transaction ends.
WriteStatus ==
    /\ HandlerRuns
    /\ pc = "w_status"
    /\ pc' = "top" /\ write_address' = 0 /\ write_transaction' = "free"
    /\ UNCHANGED <<idx, mc_data, flag_byte, sync_queue, request,
                   main, storage, burst, lost>>

\* A button combination seen while the console reads the pad.
PadRead(r) ==
    /\ HandlerRuns
    /\ pc = "top" /\ r \notin request
    /\ request' = request \cup {r}
    /\ UNCHANGED <<handler, mc_data, flag_byte, write_transaction, sync_queue,
                   main, storage, burst, lost>>

\* The rising edge of SEL.  With two cores the interrupt resets the one that
\* runs the handler, wherever it is; with one core only the bus FIFOs are
\* cleared.  simulate_mc_reconnect disables the interrupt while it lasts.
SelRise ==
    /\ MULTICORE /\ mpc # "reconnect"
    /\ pc # "top"
    /\ pc' = "top" /\ write_address' = 0 /\ idx' = 0
    /\ lost' = IF pc \in Unqueued THEN lost \cup {write_address} ELSE lost
    /\ UNCHANGED <<shared, main, storage, burst>>

-----------------------------------------------------------------------------
(* The main loop: saving. *)

\* With one core the loop leaves its polling only between two commands.
\* Seeded bug: it goes on polling until a button combination was seen.
IdleOnRequest == MULTICORE \/ (pc = "top" /\ request # {})
Idle == MULTICORE \/ pc = "top"

LoopHead ==
    /\ mpc = "serve" /\ Idle
    /\ mpc' = "drain"
    /\ UNCHANGED <<handler, shared, op, target, sec, buf, mc_file_name, led,
                   storage, burst, lost>>

\* queue_sync_step takes an entry.
Dequeue ==
    /\ mpc = "drain" /\ sync_queue # <<>>
    /\ mpc' = "sync" /\ sec' = Head(sync_queue)
    /\ sync_queue' = Tail(sync_queue)
    /\ lost' = lost \ {Head(sync_queue)}
    /\ UNCHANGED <<handler, mc_data, flag_byte, write_transaction, request,
                   op, target, buf, mc_file_name, led, storage, burst>>

\* sd_write_at copies the sector from RAM while the handler may be writing it.
SyncCopy ==
    /\ mpc = "sync" /\ USE_SDCARD /\ Len(buf) < MC_SEC_SIZE
    /\ buf' = Append(buf, mc_data[sec][Len(buf)])
    /\ UNCHANGED <<handler, shared, mpc, op, target, sec, mc_file_name, led,
                   storage, burst, lost>>

\* queue_sync_step is done with its entry.
SyncReturns == /\ mpc' = "drain" /\ sec' = 0 /\ buf' = <<>>
               /\ UNCHANGED <<op, target, mc_file_name>>

SyncDone ==
    /\ mpc = "sync" /\ USE_SDCARD /\ Len(buf) = MC_SEC_SIZE
    /\ SyncReturns
    /\ store' = [store EXCEPT ![mc_file_name][sec] =
                    [k \in 0 .. MC_SEC_SIZE - 1 |-> buf[k + 1]]]
    /\ UNCHANGED <<handler, shared, led, cards, out_of_sync, timeout_elapsed,
                   burst, lost>>

\* The file cannot be opened or written, which makes the LED blink, or its
\* buffered sector cannot be written when it is closed, which goes unnoticed:
\* either way the entry is gone from the queue.
SyncFail ==
    /\ IOErrors
    /\ mpc = "sync" /\ USE_SDCARD
    /\ SyncReturns
    /\ led' \in {led, FALSE}
    /\ lost' = lost \cup {sec}
    /\ UNCHANGED <<handler, shared, storage, burst>>

\* flash_write_at only remembers the slot and restarts the three seconds.
SyncMark ==
    /\ mpc = "sync" /\ ~USE_SDCARD
    /\ SyncReturns
    /\ out_of_sync' = out_of_sync \cup {SlotOf(sec)}
    /\ timeout_elapsed' = FALSE
    /\ UNCHANGED <<handler, shared, led, store, cards, burst, lost>>

\* The queue is seen empty; a WRITE already begun may still add to it.
BurstAfterDrain == IF pc \in Arriving THEN 1 ELSE 0

FlushDone == sync_queue = <<>>

\* flush_operations has emptied the queue: on to try_flush, or to the input.
Drained ==
    /\ mpc = "drain" /\ op = "flush" /\ FlushDone
    /\ IF USE_SDCARD THEN mpc' = "input" /\ led' = TRUE
                     ELSE mpc' = "try_flush" /\ UNCHANGED led
    /\ burst' = BurstAfterDrain
    /\ UNCHANGED <<handler, shared, op, target, sec, buf, mc_file_name,
                   storage, lost>>

\* Three seconds without a write to flash.
Tick ==
    /\ out_of_sync # {} /\ ~timeout_elapsed
    /\ timeout_elapsed' = TRUE
    /\ UNCHANGED <<handler, shared, main, store, cards, out_of_sync, burst, lost>>

\* Seeded bug: the comparison with FLUSH_TIMEOUT_US is the wrong way round.
MustFlushEarly == ~timeout_elapsed /\ out_of_sync # {}
MustFlush == timeout_elapsed /\ out_of_sync # {}

TryFlush ==
    /\ mpc = "try_flush"
    /\ IF MustFlush THEN mpc' = "slots" /\ led' = FALSE
                    ELSE mpc' = "input" /\ led' = TRUE
    /\ UNCHANGED <<handler, shared, op, target, sec, buf, mc_file_name,
                   storage, burst, lost>>

\* Seeded bug: the slot is written without its first sector.
InSlotButFirst(i) == {s \in Sectors : SlotOf(s) = i /\ s # i * MC_SLOT_SEC_COUNT}
InSlot(i) == {s \in Sectors : SlotOf(s) = i}

\* One turn of the loop over the slots: the slot is written.
FirstSlot(i) ==
    /\ mpc = "slots" /\ i \in out_of_sync
    /\ \A j \in out_of_sync : i <= j
WriteSlot(i) ==
    store' = [store EXCEPT ![mc_file_name] =
                 [s \in Sectors |-> IF s \in InSlot(i) THEN mc_data[s] ELSE @[s]]]

\* The status tested then was never assigned.  A file that cannot be opened
\* leaves "written" as the previous turn left it: the slot counts as saved.
FlushSlot(i) ==
    /\ FirstSlot(i)
    /\ "FR_OK" \in StatusGarbage
    /\ \/ WriteSlot(i) /\ lost' = lost \ InSlot(i)
       \/ IOErrors /\ lost' = lost \cup InSlot(i) /\ UNCHANGED store
    /\ out_of_sync' = out_of_sync \ {i}
    /\ UNCHANGED <<handler, shared, main, cards, timeout_elapsed, burst>>

\* A garbage value other than FR_OK, after whatever was written, or too little
\* written stops the device in the error loop.
FlushHang(i) ==
    /\ FirstSlot(i)
    /\ \/ "other" \in StatusGarbage /\ WriteSlot(i)
       \/ IOErrors /\ UNCHANGED store
    /\ mpc' = "hang" /\ led' = FALSE
    /\ UNCHANGED <<handler, shared, op, target, sec, buf, mc_file_name,
                   cards, out_of_sync, timeout_elapsed, burst, lost>>

FlushEnd ==
    /\ mpc = "slots" /\ out_of_sync = {}
    /\ mpc' = "input" /\ led' = TRUE
    /\ UNCHANGED <<handler, shared, op, target, sec, buf, mc_file_name,
                   storage, burst, lost>>

-----------------------------------------------------------------------------
(* The main loop: process_user_input. *)

Direction == request \cap {"next", "prev"}

\* The neighbours of the image in use, in the order of the directory.
Neighbours(dir) ==
    {i \in cards : IF dir = "next" THEN i > mc_file_name ELSE i < mc_file_name}
IsNearest(i, dir) ==
    /\ i \in Neighbours(dir)
    /\ \A j \in Neighbours(dir) : IF dir = "next" THEN i <= j ELSE j <= i

\* Nothing requested, or both directions at once.
NoChange ==
    /\ mpc = "input"
    /\ request = {} \/ Direction = {"next", "prev"}
    /\ mpc' = "serve" /\ request' = request \ Direction
    /\ UNCHANGED <<handler, mc_data, flag_byte, write_transaction, sync_queue,
                   op, target, sec, buf, mc_file_name, led, storage, burst, lost>>

\* The end of the list, or a list that could not be built: the names are
\* collected through a pointer that was freed (module CardManager), so that
\* the image in use may be missing from it at any time.
EndOfList ==
    /\ mpc = "input"
    /\ \E dir \in {"next", "prev"} : Direction = {dir}
    /\ mpc' = "serve" /\ request' = request \ Direction /\ led' = FALSE
    /\ UNCHANGED <<handler, mc_data, flag_byte, write_transaction, sync_queue,
                   op, target, sec, buf, mc_file_name, storage, burst, lost>>

Choose(i) ==
    /\ mpc = "input"
    /\ \E dir \in {"next", "prev"} : Direction = {dir} /\ IsNearest(i, dir)
    /\ mpc' = "lock" /\ op' = "switch" /\ target' = i
    /\ UNCHANGED <<handler, shared, sec, buf, mc_file_name, led, storage, burst, lost>>

ChooseNew ==
    /\ mpc = "input" /\ request = {"new"}
    /\ mpc' = "lock" /\ op' = "create"
    /\ UNCHANGED <<handler, shared, target, sec, buf, mc_file_name, led,
                   storage, burst, lost>>

\* The main loop enters write_transaction, then drains the queue again.
Lock ==
    /\ mpc = "lock" /\ write_transaction = "free"
    /\ mpc' = "drain" /\ write_transaction' = "main" /\ led' = FALSE
    /\ UNCHANGED <<handler, mc_data, flag_byte, sync_queue, request, op, target,
                   sec, buf, mc_file_name, storage, burst, lost>>

\* Seeded bug: the change does not wait for the queue to be drained.
QueueSavedAlways == TRUE
QueueSaved == sync_queue = <<>>

DrainedForChange ==
    /\ mpc = "drain" /\ op # "flush" /\ QueueSaved
    /\ mpc' = "change" /\ led' = TRUE
    /\ burst' = BurstAfterDrain
    /\ UNCHANGED <<handler, shared, op, target, sec, buf, mc_file_name,
                   storage, lost>>

\* memory_card_import of a file with that content: the first n sectors are
\* read; reading fewer than all of them is an error that only blinks the LED.
Import(card, n) ==
    /\ n = MC_SEC_COUNT \/ IOErrors
    /\ mc_data' = [s \in Sectors |-> IF s < n THEN card[s] ELSE mc_data[s]]
    /\ lost' = {s \in Sectors : s >= n}
    /\ flag_byte' = TRUE

\* Seeded bug: the import comes before the new name.
LoadedImageOld == mc_file_name
LoadedImage == target

\* The name changes before the import, and stays changed if that fails.
Switch(n) ==
    /\ mpc = "change" /\ op = "switch"
    /\ mc_file_name' = target
    /\ Import(store[LoadedImage], n)
    /\ mpc' = "reconnect"
    /\ UNCHANGED <<handler, write_transaction, sync_queue, request,
                   op, target, sec, buf, led, storage, burst>>

\* memcard_manager_create names the file after the number of images, which
\* may be the name of one that exists; the new image is then imported.
Create(i, n) ==
    /\ mpc = "change" /\ op = "create"
    /\ store' = [store EXCEPT ![i] = BlankCard]
    /\ cards' = cards \cup {i}
    /\ mc_file_name' = i /\ target' = i
    /\ Import(BlankCard, n)
    /\ led' = FALSE
    /\ mpc' = "reconnect"
    /\ UNCHANGED <<handler, write_transaction, sync_queue, request,
                   op, sec, buf, out_of_sync, timeout_elapsed, burst>>

\* No image can be added (n = 0), or a write fails after n sectors.  A file
\* left short is not an image, an existing one keeps its length.
CreateFail(i, n) ==
    /\ mpc = "change" /\ op = "create"
    /\ n < MC_SEC_COUNT /\ (n = 0 \/ IOErrors)
    /\ store' = [store EXCEPT ![i] =
                    [s \in Sectors |-> IF s < n THEN BlankCard[s] ELSE @[s]]]
    /\ lost' = IF i = mc_file_name THEN lost \cup {s \in Sectors : s < n} ELSE lost
    /\ led' = FALSE
    /\ mpc' = "reconnect"
    /\ UNCHANGED <<handler, shared, op, target, sec, buf, mc_file_name,
                   cards, out_of_sync, timeout_elapsed, burst>>

\* simulate_mc_reconnect is over: the requests that led here, and those of the
\* same kind that came meanwhile, are dropped and the transaction ends.
Served == IF op = "create" THEN {"new"} ELSE {"next", "prev"}

Reconnect ==
    /\ mpc = "reconnect"
    /\ mpc' = "serve" /\ op' = "flush" /\ led' = FALSE
    /\ request' = request \ Served
    /\ write_transaction' = "free"
    /\ UNCHANGED <<handler, mc_data, flag_byte, sync_queue, target, sec, buf,
                   mc_file_name, storage, burst, lost>>
-----------------------------------------------------------------------------
HandlerNext ==
    \/ WriteCmd \/ WriteEnter \/ WriteAcked \/ WriteQueue \/ WriteStatus
    \/ \E a \in Address : WriteAddress(a)
    \/ \E b \in Byte : WriteData(b)
    \/ \E r \in {"next", "prev", "new"} : PadRead(r)

SaveNext ==
    \/ LoopHead \/ Dequeue \/ SyncCopy \/ SyncDone \/ SyncFail \/ SyncMark
    \/ Drained \/ TryFlush \/ FlushEnd
    \/ \E i \in Slots : FlushSlot(i) \/ FlushHang(i)

InputNext ==
    \/ NoChange \/ EndOfList \/ ChooseNew \/ Lock \/ DrainedForChange \/ Reconnect
    \/ \E i \in Images : Choose(i)
    \/ \E n \in 0 .. MC_SEC_COUNT : Switch(n)
    \/ \E i \in Images, n \in 0 .. MC_SEC_COUNT : Create(i, n) \/ CreateFail(i, n)

MainNext == SaveNext \/ InputNext

Next == HandlerNext \/ SelRise \/ MainNext \/ Tick

Spec == Init /\ [][Next]_vars

-----------------------------------------------------------------------------
(* What the component promises. *)

SyncedSectors == Sectors \ {MC_TEST_SEC}
Saved(s) == store[mc_file_name][s] = mc_data[s]
InQueue(s) == \E n \in 1 .. Len(sync_queue) : sync_queue[n] = s
BeingWritten(s) == pc \in Unqueued /\ write_address = s
BeingCopied(s) == /\ mpc = "sync" /\ sec = s
                  /\ \A k \in 1 .. Len(buf) : buf[k] = mc_data[s][k - 1]
Pending(s) == \/ InQueue(s) \/ SlotOf(s) \in out_of_sync
              \/ BeingWritten(s) \/ BeingCopied(s)

\* A sector that differs from its file is being written by the console, is
\* queued, is being copied without having been overtaken by a write, is in a
\* slot to flush, or is one the program gave up (an I/O error, a WRITE cut
\* short by the reset of the second core): process_memcard_cmd,
\* memory_card_sync_sector, flash_write_at.
Accounted == \A s \in SyncedSectors : Saved(s) \/ Pending(s) \/ s \in lost

\* "ensure latest write operations have been synced": the program leaves an
\* image only when what the console wrote to it is in its file
\* (process_user_input).
SwitchAfterSync ==
    [][mc_file_name' # mc_file_name =>
          \A s \in SyncedSectors : Saved(s) \/ s \in lost]_vars

\* The handler is never inside a WRITE while the card is being changed: no
\* byte sent for one card lands in the RAM copy of another.
WriteOrChange == ~(pc \in Critical /\ Changing)

\* "enough space to do complete MC copy": as long as the console sends no more
\* writes than a card has sectors between two drains, queue_add_blocking does
\* not block, which with one core, or with the main loop waiting for the
\* mutex, would be for ever.
QueueNeverBlocks ==
    MaxBurst <= MC_SEC_COUNT /\ pc = "w_queue" => Len(sync_queue) < QueueCapacity

\* "the LED will be on when all changes have been saved, off otherwise"
\* (README.md:155), asked where the loop has just done its saving and has set
\* the LED, and neither core is receiving: the code breaks it even there, as
\* flush_operations sets it whatever flash_try_flush still has to write.
LedTruthful ==
    led /\ mpc = "input" /\ pc = "top" => \A s \in SyncedSectors : Saved(s)

\* A WRITE that ended, was refused or was reset has left write_transaction.
TransactionReleased == pc = "top" => write_transaction # "handler"

(* What the safety properties rest on: how the two threads' positions, the   *)
(* mutex, the queue and the burst counter go together.                       *)

MutexOwned == /\ pc \in Critical => write_transaction = "handler"
              /\ Changing => write_transaction = "main"

\* The reason for draining follows the main loop's position.
Phases == /\ mpc \in {"serve", "try_flush", "slots", "input", "hang"} => op = "flush"
          /\ mpc \in {"lock", "change", "reconnect"} => op # "flush"
          /\ mpc # "sync" => buf = <<>>
          /\ mpc = "change" => sync_queue = <<>>
          /\ USE_SDCARD => out_of_sync = {}

\* With one core nothing is received outside the polling loop.
OneAtATime ==
    ~MULTICORE => /\ mpc # "serve" => pc = "top"
                  /\ mpc \in {"try_flush", "slots", "input"} => sync_queue = <<>>

\* Every entry of the queue, and the one on its way, was counted.
Counted == Len(sync_queue) + (IF pc \in Arriving THEN 1 ELSE 0) <= burst

\* The sector being copied to the SD card was not overtaken, or its new data
\* has an entry to come - even if the file happens to hold that data now.
CopyTracked ==
    mpc = "sync" /\ sec \in SyncedSectors =>
        BeingCopied(sec) \/ InQueue(sec) \/ BeingWritten(sec) \/ sec \in lost

IInv == MutexOwned /\ Phases /\ OneAtATime /\ Counted /\ CopyTracked /\ Accounted

-----------------------------------------------------------------------------
(* The abstract specification: a write-back cache of one image. *)

\* The sectors the program still has to save.
Owed == {s \in SyncedSectors : Pending(s)}

\* Only the flash build leaves an image with sectors owed to it.
Cache == INSTANCE WriteBackCache WITH
    Exempt <- {MC_TEST_SEC}, Blank <- BlankCard, MayLeave <- ~USE_SDCARD,
    MayGiveUp <- IOErrors \/ MULTICORE,
    card <- mc_data, image <- mc_file_name, files <- store, owed <- Owed

\* What the console writes is owed to its file before the first byte changes,
\* is dropped from that only when the file has it or, after an error or a reset,
\* by being given up; no other image changes; and with the SD card an image is
\* left only when nothing is owed to it: the handler, queue, copy, slots and
\* change of card together.
ImplementsCache == Cache!Spec

-----------------------------------------------------------------------------
(* Fairness: the main loop runs, three seconds pass, and a console that    *)
(* began a WRITE clocks the rest of it.                                    *)

HandlerProgress ==
    \/ WriteEnter \/ WriteAcked \/ WriteQueue \/ WriteStatus
    \/ \E a \in Address : WriteAddress(a)
    \/ \E b \in Byte : WriteData(b)

FairSpec == /\ Spec /\ WF_vars(MainNext) /\ WF_vars(Tick)
            /\ WF_vars(HandlerProgress)

\* With one core, a WRITE to an invalid sector keeps write_transaction, and the
\* next WRITE or change of card stops the only core for good.
Hung == ~MULTICORE /\ write_transaction = "handler" /\ (pc = "w_enter" \/ mpc = "lock")

\* A queued sector is eventually in its file, with any number of further WRITEs
\* and changes of card, as long as the console lets the bus rest for 5 ms after
\* MaxBurst of them at most and the device does not hang on the mutex that a
\* refused WRITE kept (simulate_memory_card's loop, process_memcard_cmd).
EventuallySaved ==
    \A s \in SyncedSectors : InQueue(s) ~> (Saved(s) \/ s \in lost \/ Hung)

\* Once the console stops writing, everything is saved, again and again: the
\* three second timer of flash_try_flush does run out.  Unless its error loop
\* is entered, or the user's change of card waits for the mutex that a refused
\* WRITE kept: the device then stands still with slots unsaved.
SavedWhenQuiet ==
    <>[](pc = "top") => []<>(\/ mpc = "hang" \/ Hung
                             \/ \A s \in SyncedSectors : Saved(s) \/ s \in lost)

\* A card the console has not written to since it was inserted keeps its file
\* as it is: slots still out of sync from the previous card (flash_try_flush)
\* are never written over it with that card's data, save for the sectors that
\* an import cut short by an error did not read (memory_card_import).
FreshCardUnchanged ==
    [][flag_byte /\ mpc # "change" =>
          \A s \in Sectors \ lost :
              store'[mc_file_name][s] = store[mc_file_name][s]]_vars
=============================================================================
