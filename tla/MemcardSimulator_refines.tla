----------------------- MODULE MemcardSimulator_refines -----------------------
(* MemcardSimulator implements WriteBackCache: every step of the handler, of *)
(* the deselect interrupt, of the main loop and of the timer is a step of    *)
(* the abstract cache or leaves its variables alone, for every build and     *)
(* every value of the constants.                                             *)
EXTENDS MemcardSimulator_proofs

CacheStep == [Cache!Next]_(Cache!vars)

\* A step that leaves the data alone and neither begins nor ends a WRITE, an
\* entry of the queue, a copy or a slot is not seen by the abstract cache.
LEMMA QuietCache ==
    ASSUME UNCHANGED <<mc_data, store, mc_file_name, sync_queue, out_of_sync, lost>>,
           UNCHANGED <<sec, buf, write_address>>,
           (mpc = "sync") <=> (mpc' = "sync"), (pc \in Unqueued) <=> (pc' \in Unqueued)
    PROVE  CacheStep
<1>1. \A s : Pending(s) <=> Pending(s)'
  BY DEF Pending, InQueue, BeingWritten, BeingCopied
<1>2. Owed' = Owed
  BY <1>1 DEF Owed
<1> QED
  BY <1>2 DEF CacheStep, Cache!vars

LEMMA InitImplements == TypeOK /\ Init => Cache!Init
<1> SUFFICES ASSUME TypeOK, Init PROVE Cache!Init
  OBVIOUS
<1>1. Owed = {}
  BY DEF Init, Owed, Pending, InQueue, BeingWritten, BeingCopied, Unqueued
<1> QED
  BY <1>1 DEF Init, Cache!Init, TypeOK, Card

-----------------------------------------------------------------------------
(* The handler and the interrupt. *)

LEMMA HandlerImplements ==
    ASSUME TypeOK, HandlerNext \/ SelRise
    PROVE  CacheStep
<1>1. CASE WriteCmd
  BY <1>1, QuietCache DEF WriteCmd, Unqueued, shared, main, storage
<1>2. CASE WriteEnter
  BY <1>2, QuietCache DEF WriteEnter, Unqueued, main, storage
<1>3. ASSUME NEW a \in Address, WriteAddress(a) PROVE CacheStep
  <2>1. \A s : Pending(s) => Pending(s)'
    BY <1>3 DEF WriteAddress, Pending, InQueue, BeingWritten, BeingCopied, Unqueued,
       shared, main, storage
  <2>2. Owed \subseteq Owed'
    BY <2>1 DEF Owed
  <2>3. Cache!Owe
    BY <1>3, <2>2 DEF WriteAddress, Cache!Owe, shared, main, storage
  <2> QED
    BY <2>3 DEF CacheStep, Cache!Next
<1>4. ASSUME NEW b \in Byte, WriteData(b) PROVE CacheStep
  <2>1. \A s : Pending(s) <=> Pending(s)'
    <3> SUFFICES ASSUME NEW s PROVE Pending(s) <=> Pending(s)'
      OBVIOUS
    <3>1. UNCHANGED <<sync_queue, out_of_sync, write_address, mpc, sec, buf>>
      BY <1>4 DEF WriteData, main, storage
    <3>2. BeingWritten(s) <=> BeingWritten(s)'
      BY <1>4 DEF WriteData, BeingWritten, Unqueued
    <3>3. CASE s = write_address
      BY <1>4, <3>2, <3>3 DEF WriteData, Pending, BeingWritten, Unqueued
    <3>4. CASE s # write_address
      <4>1. CASE s \in Sectors
        <5>1. mc_data'[s] = mc_data[s]
          BY <1>4, <3>4, <4>1 DEF WriteData, TypeOK, Card
        <5> QED
          BY <3>1, <3>2, <5>1 DEF Pending, InQueue, BeingCopied
      <4>2. CASE s \notin Sectors
        BY <3>1, <3>2, <4>2 DEF Pending, InQueue, BeingCopied, TypeOK
      <4> QED
        BY <4>1, <4>2
    <3> QED
      BY <3>3, <3>4
  <2>2. Owed' = Owed
    BY <2>1 DEF Owed
  <2>3. write_address \in Owed \cup {MC_TEST_SEC}
    BY <1>4 DEF WriteData, Owed, SyncedSectors, Pending, BeingWritten, Unqueued, TypeOK
  <2> DEFINE c == [mc_data[write_address] EXCEPT ![idx] = b]
  <2>4. c \in Content /\ mc_data' = [mc_data EXCEPT ![write_address] = c]
    BY <1>4 DEF WriteData, TypeOK, Card, Content
  <2>5. Cache!Write(write_address)
    BY <1>4, <2>2, <2>3, <2>4 DEF WriteData, Cache!Write, main, storage
  <2> QED
    BY <2>5 DEF CacheStep, Cache!Next, TypeOK
<1>5. CASE WriteAcked
  <2>1. \A s \in SyncedSectors : BeingWritten(s) <=> BeingWritten(s)'
    BY <1>5 DEF WriteAcked, BeingWritten, Unqueued, NeedsSync, SyncedSectors
  <2>2. \A s \in SyncedSectors : Pending(s) <=> Pending(s)'
    BY <1>5, <2>1 DEF WriteAcked, Pending, InQueue, BeingCopied, main, storage
  <2>3. Owed' = Owed
    BY <2>2 DEF Owed
  <2> QED
    BY <1>5, <2>3 DEF WriteAcked, CacheStep, Cache!vars, main, storage
<1>6. CASE WriteQueue
  <2>1. \A s \in SyncedSectors : Pending(s) <=> Pending(s)'
    <3> SUFFICES ASSUME NEW s \in SyncedSectors PROVE Pending(s) <=> Pending(s)'
      OBVIOUS
    <3>1. InQueue(s)' <=> InQueue(s) \/ s = write_address
      BY <1>6 DEF WriteQueue, InQueue, TypeOK
    <3>2. (BeingWritten(s) <=> s = write_address) /\ ~BeingWritten(s)'
      BY <1>6 DEF WriteQueue, BeingWritten, Unqueued
    <3>3. UNCHANGED <<out_of_sync, mpc, sec, buf, mc_data>>
      BY <1>6 DEF WriteQueue, main, storage
    <3> QED
      BY <3>1, <3>2, <3>3 DEF Pending, BeingCopied
  <2>2. Owed' = Owed
    BY <2>1 DEF Owed
  <2> QED
    BY <1>6, <2>2 DEF WriteQueue, CacheStep, Cache!vars, main, storage
<1>7. CASE WriteStatus
  <2>1. \A s : Pending(s) <=> Pending(s)'
    BY <1>7 DEF WriteStatus, Pending, InQueue, BeingWritten, BeingCopied, Unqueued,
       main, storage
  <2>2. Owed' = Owed
    BY <2>1 DEF Owed
  <2> QED
    BY <1>7, <2>2 DEF WriteStatus, CacheStep, Cache!vars, main, storage
<1>8. ASSUME NEW r \in {"next", "prev", "new"}, PadRead(r) PROVE CacheStep
  BY <1>8, QuietCache DEF PadRead, handler, main, storage
<1>9. CASE SelRise
  <2>1. \A s : /\ Pending(s)' => Pending(s)
               /\ Pending(s) => Pending(s)' \/ BeingWritten(s)
    BY <1>9 DEF SelRise, Pending, InQueue, BeingWritten, BeingCopied, Unqueued,
       shared, main, storage
  <2>2. \A s : BeingWritten(s) => s \in lost'
    BY <1>9 DEF SelRise, BeingWritten
  <2>3. Owed' \subseteq Owed /\ Owed \ Owed' \subseteq lost'
    BY <2>1, <2>2 DEF Owed
  <2>4. Cache!GiveUp
    BY <1>9, <2>3 DEF SelRise, Cache!GiveUp, shared, main, storage
  <2> QED
    BY <2>4 DEF CacheStep, Cache!Next
<1> QED
  BY <1>1, <1>2, <1>3, <1>4, <1>5, <1>6, <1>7, <1>8, <1>9 DEF HandlerNext

-----------------------------------------------------------------------------
(* The main loop: saving. *)

LEMMA DequeueImplements ==
    ASSUME TypeOK, ControlInv, Dequeue
    PROVE  CacheStep
<1>1. buf' = <<>> /\ buf = <<>> /\ mpc # "sync" /\ mpc' = "sync"
  BY DEF Dequeue, ControlInv, Phases
<1>2. \A s : InQueue(s) <=> InQueue(s)' \/ s = Head(sync_queue)
  <2> SUFFICES ASSUME NEW s PROVE InQueue(s) <=> InQueue(s)' \/ s = Head(sync_queue)
    OBVIOUS
  <2>1. ASSUME NEW n \in 1 .. Len(sync_queue), sync_queue[n] = s, s # Head(sync_queue)
        PROVE  InQueue(s)'
    <3>1. n - 1 \in 1 .. Len(sync_queue') /\ sync_queue'[n - 1] = s
      BY <2>1 DEF Dequeue, TypeOK
    <3> QED
      BY <3>1 DEF InQueue
  <2>2. ASSUME NEW n \in 1 .. Len(sync_queue'), sync_queue'[n] = s
        PROVE  InQueue(s)
    <3>1. n + 1 \in 1 .. Len(sync_queue) /\ sync_queue[n + 1] = s
      BY <2>2 DEF Dequeue, TypeOK
    <3> QED
      BY <3>1 DEF InQueue
  <2>3. InQueue(Head(sync_queue))
    BY DEF Dequeue, InQueue, TypeOK
  <2> QED
    BY <2>1, <2>2, <2>3 DEF InQueue
<1>3. \A s : BeingCopied(s)' <=> s = Head(sync_queue)
  BY <1>1 DEF Dequeue, BeingCopied
<1>4. \A s : ~BeingCopied(s)
  BY <1>1 DEF BeingCopied
<1>5. \A s : Pending(s) <=> Pending(s)'
  BY <1>2, <1>3, <1>4 DEF Dequeue, Pending, BeingWritten, handler, storage
<1>6. Owed' = Owed
  BY <1>5 DEF Owed
<1>7. Head(sync_queue) \in Owed \cup {MC_TEST_SEC}
  <2>1. Head(sync_queue) \in Sectors
    BY DEF Dequeue, TypeOK
  <2> QED
    BY <1>2, <2>1 DEF Owed, Pending, SyncedSectors
<1>8. Cache!Retry
  BY <1>6, <1>7 DEF Dequeue, Cache!Retry, handler, storage
<1> QED
  BY <1>8 DEF CacheStep, Cache!Next

LEMMA SyncCopyImplements ==
    ASSUME TypeOK, SyncCopy
    PROVE  CacheStep
<1>1. \A s : Len(buf') = Len(buf) + 1 /\ \A k \in 1 .. Len(buf) : buf'[k] = buf[k]
  BY DEF SyncCopy, TypeOK
<1>2. buf'[Len(buf) + 1] = mc_data[sec][Len(buf)]
  BY DEF SyncCopy, TypeOK
<1>3. Len(buf) \in Nat
  BY DEF TypeOK
<1>4. UNCHANGED <<mpc, sec, mc_data, sync_queue, out_of_sync, pc, write_address>>
  BY DEF SyncCopy, handler, shared, storage
<1>5. \A s : BeingCopied(s) <=> BeingCopied(s)'
  <2> SUFFICES ASSUME NEW s PROVE BeingCopied(s) <=> BeingCopied(s)'
    OBVIOUS
  <2>1. ASSUME BeingCopied(s)' PROVE BeingCopied(s)
    BY <1>1, <1>3, <1>4, <2>1 DEF BeingCopied
  <2>2. ASSUME BeingCopied(s), NEW k \in 1 .. Len(buf') PROVE buf'[k] = mc_data[s][k - 1]
    <3>1. CASE k \in 1 .. Len(buf)
      BY <1>1, <2>2, <3>1 DEF BeingCopied
    <3>2. CASE k = Len(buf) + 1
      BY <1>2, <1>3, <2>2, <3>2 DEF BeingCopied
    <3> QED
      BY <1>1, <1>3, <3>1, <3>2
  <2> QED
    BY <1>4, <2>1, <2>2 DEF BeingCopied
<1>6. \A s : Pending(s) <=> Pending(s)'
  BY <1>4, <1>5 DEF Pending, InQueue, BeingWritten
<1>7. Owed' = Owed
  BY <1>6 DEF Owed
<1> QED
  BY <1>7 DEF SyncCopy, CacheStep, Cache!vars, shared, storage

\* A sector copied without being overtaken is in the file; another is torn
\* there, and CopyTracked says that it is still owed or was given up.
LEMMA SyncDoneImplements ==
    ASSUME TypeOK, CopyTracked, SyncDone
    PROVE  CacheStep
<1>1. UNCHANGED <<mc_data, mc_file_name, sync_queue, out_of_sync, pc, write_address, lost>>
  BY DEF SyncDone, SyncReturns, handler, shared
<1>2. mpc = "sync" /\ mpc' = "drain"
  BY DEF SyncDone, SyncReturns
<1>3. \A s : /\ Pending(s)' => Pending(s)
             /\ Pending(s) => Pending(s)' \/ BeingCopied(s)
  BY <1>1, <1>2 DEF Pending, InQueue, BeingWritten, BeingCopied
<1> DEFINE c == [k \in 0 .. MC_SEC_SIZE - 1 |-> buf[k + 1]]
<1>4. c \in Content /\ store' = [store EXCEPT ![mc_file_name][sec] = c]
  BY DEF SyncDone, TypeOK, Content
<1>5. sec \in Sectors /\ mc_file_name \in Images /\ store \in [Images -> Card]
  BY DEF TypeOK
<1>6. CASE BeingCopied(sec)
  <2>1. mc_data[sec] \in [0 .. MC_SEC_SIZE - 1 -> Byte]
    BY DEF TypeOK, Card, Content
  <2>2. \A k \in 0 .. MC_SEC_SIZE - 1 : buf[k + 1] = mc_data[sec][k]
    BY <1>6, GeometryAssumption DEF SyncDone, BeingCopied
  <2>3. c = mc_data[sec]
    BY <2>1, <2>2
  <2>4. store' = [store EXCEPT ![mc_file_name] =
                     [s \in Sectors |-> IF s \in {sec} THEN mc_data[s]
                                                      ELSE store[mc_file_name][s]]]
    <3>1. store[mc_file_name] \in [Sectors -> Content]
      BY <1>5 DEF Card
    <3>2. [store[mc_file_name] EXCEPT ![sec] = c]
          = [s \in Sectors |-> IF s \in {sec} THEN mc_data[s]
                                              ELSE store[mc_file_name][s]]
      BY <1>5, <2>3, <3>1
    <3> QED
      BY <1>4, <1>5, <3>2
  <2>5. Owed \ {sec} \subseteq Owed' /\ Owed' \subseteq Owed
    BY <1>3 DEF Owed, BeingCopied
  <2>6. Cache!Store({sec})
    BY <1>1, <2>4, <2>5 DEF Cache!Store
  <2> QED
    BY <1>5, <2>6 DEF CacheStep, Cache!Next
<1>7. CASE ~BeingCopied(sec)
  <2>1. \A s : ~BeingCopied(s)
    BY <1>7 DEF BeingCopied
  <2>2. Owed' = Owed
    BY <1>3, <2>1 DEF Owed
  <2>3. sec \in Owed \cup lost \cup {MC_TEST_SEC}
    BY <1>2, <1>5, <1>7 DEF CopyTracked, Owed, Pending, SyncedSectors
  <2>4. Cache!StoreTorn(sec)
    BY <1>1, <1>4, <2>2, <2>3 DEF Cache!StoreTorn
  <2> QED
    BY <1>5, <2>4 DEF CacheStep, Cache!Next
<1> QED
  BY <1>6, <1>7

LEMMA FlushSlotImplements ==
    ASSUME TypeOK, ControlInv, NEW i \in Slots, FlushSlot(i)
    PROVE  CacheStep
<1>1. UNCHANGED <<mc_data, mc_file_name, sync_queue, pc, write_address, mpc, sec, buf>>
  BY DEF FlushSlot, handler, shared, main
<1>2. \A s : Pending(s)' => Pending(s)
  BY <1>1 DEF FlushSlot, Pending, InQueue, BeingWritten, BeingCopied
<1>3. Owed \ InSlot(i) \subseteq Owed' /\ Owed' \subseteq Owed
  <2>1. ASSUME NEW s \in Owed, s \notin InSlot(i) PROVE s \in Owed'
    <3>1. s \in SyncedSectors /\ Pending(s) /\ SlotOf(s) # i
      BY <2>1 DEF Owed, InSlot, SyncedSectors
    <3>2. Pending(s)'
      BY <1>1, <3>1 DEF FlushSlot, Pending, InQueue, BeingWritten, BeingCopied
    <3> QED
      BY <3>1, <3>2 DEF Owed
  <2>2. Owed' \subseteq Owed
    BY <1>2 DEF Owed
  <2> QED
    BY <2>1, <2>2
<1>4. InSlot(i) \in SUBSET Sectors
  BY DEF InSlot
<1>5. CASE WriteSlot(i) /\ lost' = lost \ InSlot(i)
  <2>1. Cache!Store(InSlot(i))
    BY <1>1, <1>3, <1>5 DEF WriteSlot, Cache!Store
  <2> QED
    BY <1>4, <2>1 DEF CacheStep, Cache!Next
<1>6. CASE IOErrors /\ lost' = lost \cup InSlot(i) /\ UNCHANGED store
  <2>1. Cache!GiveUp
    BY <1>1, <1>3, <1>6 DEF Cache!GiveUp
  <2> QED
    BY <2>1 DEF CacheStep, Cache!Next
<1> QED
  BY <1>5, <1>6 DEF FlushSlot

\* A slot that is written before the error loop is entered is owed still.
LEMMA FlushHangImplements ==
    ASSUME TypeOK, NEW i \in Slots, FlushHang(i)
    PROVE  CacheStep
<1>1. UNCHANGED <<mc_data, mc_file_name, sync_queue, out_of_sync, pc, write_address,
                  sec, buf, lost>>
  BY DEF FlushHang, handler, shared
<1>2. mpc # "sync" /\ mpc' # "sync"
  BY DEF FlushHang, FirstSlot
<1>3. \A s : Pending(s) <=> Pending(s)'
  BY <1>1, <1>2 DEF Pending, InQueue, BeingWritten, BeingCopied
<1>4. Owed' = Owed
  BY <1>3 DEF Owed
<1>5. CASE WriteSlot(i)
  <2>1. Cache!Store(InSlot(i))
    BY <1>1, <1>4, <1>5 DEF WriteSlot, Cache!Store
  <2>2. InSlot(i) \in SUBSET Sectors
    BY DEF InSlot
  <2> QED
    BY <2>1, <2>2 DEF CacheStep, Cache!Next
<1>6. CASE UNCHANGED store
  BY <1>1, <1>4, <1>6 DEF CacheStep, Cache!vars
<1> QED
  BY <1>5, <1>6 DEF FlushHang

LEMMA SaveImplements ==
    ASSUME TypeOK, ControlInv, CopyTracked, SaveNext \/ Tick
    PROVE  CacheStep
<1>1. CASE LoopHead \/ TryFlush \/ FlushEnd \/ Drained \/ Tick
  BY <1>1, QuietCache
  DEF LoopHead, TryFlush, FlushEnd, Drained, Tick, handler, shared, main, storage
<1>2. CASE Dequeue
  BY <1>2, DequeueImplements
<1>3. CASE SyncCopy
  BY <1>3, SyncCopyImplements
<1>4. CASE SyncDone
  BY <1>4, SyncDoneImplements
<1>5. CASE SyncFail
  <2>1. \A s : /\ Pending(s)' => Pending(s)
               /\ Pending(s) => Pending(s)' \/ s = sec
    BY <1>5 DEF SyncFail, SyncReturns, Pending, InQueue, BeingWritten, BeingCopied,
       handler, shared, storage
  <2>2. Owed' \subseteq Owed /\ Owed \ Owed' \subseteq lost'
    BY <1>5, <2>1 DEF SyncFail, Owed
  <2>3. Cache!GiveUp
    BY <1>5, <2>2 DEF SyncFail, SyncReturns, Cache!GiveUp, shared, storage
  <2> QED
    BY <2>3 DEF CacheStep, Cache!Next
<1>6. CASE SyncMark
  <2>1. \A s : Pending(s) => Pending(s)'
    BY <1>6 DEF SyncMark, SyncReturns, Pending, InQueue, BeingWritten, BeingCopied,
       handler, shared
  <2>2. Owed \subseteq Owed'
    BY <2>1 DEF Owed
  <2>3. Cache!Owe
    BY <1>6, <2>2 DEF SyncMark, SyncReturns, Cache!Owe, shared
  <2> QED
    BY <2>3 DEF CacheStep, Cache!Next
<1>7. ASSUME NEW i \in Slots, FlushSlot(i) PROVE CacheStep
  BY <1>7, FlushSlotImplements
<1>8. ASSUME NEW i \in Slots, FlushHang(i) PROVE CacheStep
  BY <1>8, FlushHangImplements
<1> QED
  BY <1>1, <1>2, <1>3, <1>4, <1>5, <1>6, <1>7, <1>8 DEF SaveNext

-----------------------------------------------------------------------------
(* The main loop: changes of card. *)

\* While a card is being changed, with the SD card nothing is owed to its file.
LEMMA NothingOwedAtChange ==
    ASSUME ControlInv, mpc = "change"
    PROVE  Owed = {s \in SyncedSectors : SlotOf(s) \in out_of_sync} /\ Cache!MayChange
<1>1. pc \notin Critical /\ sync_queue = <<>> /\ (USE_SDCARD => out_of_sync = {})
  BY DEF ControlInv, MutexOwned, Phases, Changing
<1>2. \A s : Pending(s) <=> SlotOf(s) \in out_of_sync
  BY <1>1 DEF Pending, InQueue, BeingWritten, BeingCopied, Unqueued, Critical
<1> QED
  BY <1>1, <1>2 DEF Owed, Cache!MayChange

\* An import that is not cut short loses nothing.
LEMMA ImportImplements ==
    ASSUME NEW card \in Card, NEW n \in 0 .. MC_SEC_COUNT, Import(card, n)
    PROVE  /\ mc_data' = [s \in Sectors |-> IF s \in lost' THEN mc_data[s] ELSE card[s]]
           /\ IOErrors \/ lost' = {}
<1>1. \A s \in Sectors : s \in lost' <=> ~(s < n)
  BY GeometryAssumption DEF Import, Sectors
<1>2. IOErrors \/ lost' = {}
  BY GeometryAssumption DEF Import, Sectors
<1> QED
  BY <1>1, <1>2 DEF Import

LEMMA InputImplements ==
    ASSUME TypeOK, TypeOK', ControlInv, ControlInv', InputNext
    PROVE  CacheStep
<1>1. CASE NoChange \/ EndOfList \/ ChooseNew \/ Lock \/ DrainedForChange \/ Reconnect
  BY <1>1, QuietCache
  DEF NoChange, EndOfList, ChooseNew, Lock, DrainedForChange, Reconnect, handler,
      shared, storage
<1>2. ASSUME NEW i \in Images, Choose(i) PROVE CacheStep
  BY <1>2, QuietCache DEF Choose, handler, shared, storage
<1>3. ASSUME mpc = "change", mpc' = "reconnect",
             UNCHANGED <<sync_queue, out_of_sync, pc, write_address, sec, buf>>
      PROVE  Owed' = Owed
  <2>1. \A s : Pending(s) <=> Pending(s)'
    <3>1. pc \notin Critical
      BY <1>3 DEF ControlInv, MutexOwned, Changing
    <3> QED
      BY <1>3, <3>1 DEF Pending, InQueue, BeingWritten, BeingCopied, Unqueued, Critical
  <2> QED
    BY <2>1 DEF Owed
<1>4. ASSUME NEW n \in 0 .. MC_SEC_COUNT, Switch(n) PROVE CacheStep
  <2>1. store[target] \in Card /\ target \in Images
    BY DEF TypeOK
  <2>2. Owed' = Owed
    BY <1>3, <1>4 DEF Switch, handler, storage
  <2>3. /\ mc_data' = [s \in Sectors |-> IF s \in lost' THEN mc_data[s]
                                                        ELSE store[target][s]]
        /\ IOErrors \/ lost' = {}
    BY <1>4, <2>1, ImportImplements DEF Switch, LoadedImage
  <2>4. Cache!Change(target)
    BY <1>4, <2>2, <2>3, NothingOwedAtChange DEF Switch, Cache!Change, storage
  <2> QED
    BY <2>1, <2>4 DEF CacheStep, Cache!Next
<1>5. ASSUME NEW i \in Images, NEW n \in 0 .. MC_SEC_COUNT, Create(i, n)
      PROVE  CacheStep
  <2>1. store' = [store EXCEPT ![i] = BlankCard] /\ store'[i] = BlankCard
    BY <1>5 DEF Create, TypeOK
  <2>2. Owed' = Owed
    BY <1>3, <1>5 DEF Create, handler
  <2>3. /\ mc_data' = [s \in Sectors |-> IF s \in lost' THEN mc_data[s]
                                                        ELSE store'[i][s]]
        /\ IOErrors \/ lost' = {}
    BY <1>5, <2>1, ImagesAssumption, ImportImplements DEF Create
  <2>4. Cache!Change(i)
    BY <1>5, <2>1, <2>2, <2>3, NothingOwedAtChange DEF Create, Cache!Change
  <2> QED
    BY <2>4 DEF CacheStep, Cache!Next
<1>6. ASSUME NEW i \in Images, NEW n \in 0 .. MC_SEC_COUNT, CreateFail(i, n)
      PROVE  CacheStep
  <2> DEFINE S == {s \in Sectors : s < n}
  <2>1. S \in SUBSET Sectors /\ (IOErrors \/ S = {})
    BY <1>6 DEF CreateFail, Sectors
  <2>2. Owed' = Owed
    BY <1>3, <1>6 DEF CreateFail, handler, shared
  <2>3. store' = [store EXCEPT ![i] =
                    [s \in Sectors |-> IF s \in S THEN BlankCard[s] ELSE store[i][s]]]
    <3>1. [s \in Sectors |-> IF s < n THEN BlankCard[s] ELSE store[i][s]]
          = [s \in Sectors |-> IF s \in S THEN BlankCard[s] ELSE store[i][s]]
      OBVIOUS
    <3> QED
      BY <1>6, <3>1 DEF CreateFail, TypeOK
  <2>4. Cache!CreateFail(i, S)
    BY <1>6, <2>1, <2>2, <2>3, NothingOwedAtChange
    DEF CreateFail, Cache!CreateFail, shared
  <2> QED
    BY <2>1, <2>4 DEF CacheStep, Cache!Next
<1> QED
  BY <1>1, <1>2, <1>4, <1>5, <1>6 DEF InputNext

-----------------------------------------------------------------------------
\* Cores, queue, copy, slots and changes of card together are a write-back
\* cache of one image file: MemcardSimulator implements WriteBackCache.
THEOREM Implementation == Spec => ImplementsCache
<1>1. TypeOK /\ Init => Cache!Init
  BY InitImplements
<1>2. /\ TypeOK /\ TypeOK' /\ ControlInv /\ ControlInv' /\ CopyTracked /\ [Next]_vars
      => [Cache!Next]_(Cache!vars)
  <2> SUFFICES ASSUME TypeOK, TypeOK', ControlInv, ControlInv', CopyTracked, [Next]_vars
               PROVE  CacheStep
    BY DEF CacheStep
  <2>1. CASE HandlerNext \/ SelRise
    BY <2>1, HandlerImplements
  <2>2. CASE SaveNext \/ Tick
    BY <2>2, SaveImplements
  <2>3. CASE InputNext
    BY <2>3, InputImplements
  <2>4. CASE UNCHANGED vars
    BY <2>4, QuietCache DEF vars, handler, shared, main, storage
  <2> QED
    BY <2>1, <2>2, <2>3, <2>4 DEF Next, MainNext
<1>3. IInv => CopyTracked
  BY DEF IInv
<1> QED
  BY <1>1, <1>2, <1>3, TypeCorrect, ControlInvInvariant, IInvInvariant, PTL
  DEF Spec, ImplementsCache, Cache!Spec

=============================================================================
