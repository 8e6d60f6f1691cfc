----------------------- MODULE MemcardSimulator_proofs -----------------------
(* The safety properties of MemcardSimulator, for every card geometry, every *)
(* set of images and every build the assumptions allow.                      *)
EXTENDS MemcardSimulator, TLAPS

-----------------------------------------------------------------------------
(* Type correctness, one lemma for each of the three groups of actions. *)

LEMMA Geometry ==
    /\ 0 \in Sectors
    /\ \A s \in Sectors : SlotOf(s) \in Slots
    /\ 0 \in 0 .. MC_SEC_SIZE - 1
    /\ \A k \in 0 .. MC_SEC_SIZE - 1 : k < MC_SEC_SIZE
BY GeometryAssumption DEF Sectors, Slots

LEMMA HandlerTypeOK ==
    ASSUME TypeOK, HandlerNext \/ SelRise
    PROVE  TypeOK'
<1> USE Geometry, GeometryAssumption, BuildAssumption
<1>1. CASE WriteCmd
  BY <1>1 DEF WriteCmd, TypeOK, shared, main, storage
<1>2. CASE WriteEnter
  BY <1>2 DEF WriteEnter, TypeOK, Critical, main, storage
<1>3. ASSUME NEW a \in Address, WriteAddress(a) PROVE TypeOK'
  BY <1>3 DEF WriteAddress, WriteRefused, TypeOK, Critical, shared, main, storage
<1>4. ASSUME NEW b \in Byte, WriteData(b) PROVE TypeOK'
  <2>1. mc_data' \in Card
    BY <1>4 DEF WriteData, TypeOK, Card, Content
  <2>2. idx' \in 0 .. MC_SEC_SIZE - 1
    BY <1>4 DEF WriteData, IsLastByte, TypeOK
  <2> QED
    BY <1>4, <2>1, <2>2 DEF WriteData, TypeOK, Critical, main, storage
<1>5. CASE WriteAcked
  BY <1>5 DEF WriteAcked, TypeOK, Critical, main, storage
<1>6. CASE WriteQueue
  <2>1. sync_queue' \in Seq(Sectors)
    BY <1>6 DEF WriteQueue, TypeOK
  <2> QED
    BY <1>6, <2>1 DEF WriteQueue, TypeOK, Critical, main, storage
<1>7. CASE WriteStatus
  BY <1>7 DEF WriteStatus, TypeOK, main, storage
<1>8. ASSUME NEW r \in {"next", "prev", "new"}, PadRead(r) PROVE TypeOK'
  BY <1>8 DEF PadRead, TypeOK, handler, main, storage
<1>9. CASE SelRise
  BY <1>9 DEF SelRise, TypeOK, shared, main, storage
<1> QED
  BY <1>1, <1>2, <1>3, <1>4, <1>5, <1>6, <1>7, <1>8, <1>9 DEF HandlerNext

LEMMA SaveTypeOK ==
    ASSUME TypeOK, SaveNext \/ Tick
    PROVE  TypeOK'
<1> USE Geometry, GeometryAssumption, BuildAssumption
<1>1. CASE LoopHead
  BY <1>1 DEF LoopHead, TypeOK, handler, shared, storage
<1>2. CASE Dequeue
  <2>1. Head(sync_queue) \in Sectors /\ Tail(sync_queue) \in Seq(Sectors)
    BY <1>2 DEF Dequeue, TypeOK
  <2> QED
    BY <1>2, <2>1 DEF Dequeue, TypeOK, handler, storage
<1>3. CASE SyncCopy
  <2>1. mc_data[sec][Len(buf)] \in Byte
    BY <1>3 DEF SyncCopy, TypeOK, Card, Content
  <2>2. buf' \in Seq(Byte) /\ Len(buf') <= MC_SEC_SIZE
    BY <1>3, <2>1 DEF SyncCopy, TypeOK
  <2> QED
    BY <1>3, <2>2 DEF SyncCopy, TypeOK, handler, shared, storage
<1>4. CASE SyncDone
  <2>1. [k \in 0 .. MC_SEC_SIZE - 1 |-> buf[k + 1]] \in Content
    BY <1>4 DEF SyncDone, TypeOK, Content
  <2>2. store' \in [Images -> Card]
    BY <1>4, <2>1 DEF SyncDone, TypeOK, Card
  <2> QED
    BY <1>4, <2>2 DEF SyncDone, SyncReturns, TypeOK, handler, shared
<1>5. CASE SyncFail
  <2>1. led' \in BOOLEAN
    BY <1>5 DEF SyncFail, TypeOK
  <2>2. lost' \subseteq Sectors
    BY <1>5 DEF SyncFail, TypeOK
  <2>3. buf' \in Seq(Byte) /\ Len(buf') <= MC_SEC_SIZE
    BY <1>5 DEF SyncFail, SyncReturns
  <2> QED
    BY <1>5, <2>1, <2>2, <2>3 DEF SyncFail, SyncReturns, TypeOK, handler, shared, storage
<1>6. CASE SyncMark
  <2>1. out_of_sync' \subseteq Slots
    BY <1>6 DEF SyncMark, TypeOK
  <2>2. buf' \in Seq(Byte) /\ Len(buf') <= MC_SEC_SIZE
    BY <1>6 DEF SyncMark, SyncReturns
  <2> QED
    BY <1>6, <2>1, <2>2 DEF SyncMark, SyncReturns, TypeOK, handler, shared
<1>7. CASE Drained
  <2>1. burst' \in 0 .. MaxBurst
    BY <1>7 DEF Drained, BurstAfterDrain, TypeOK
  <2> QED
    BY <1>7, <2>1 DEF Drained, TypeOK, handler, shared, storage
<1>8. CASE Tick
  BY <1>8 DEF Tick, TypeOK, handler, shared, main
<1>9. CASE TryFlush
  BY <1>9 DEF TryFlush, TypeOK, handler, shared, storage
<1>10. ASSUME NEW i \in Slots, FlushSlot(i) PROVE TypeOK'
  <2>1. store' \in [Images -> Card]
    BY <1>10, SMTT(30) DEF FlushSlot, WriteSlot, TypeOK, Card
  <2> QED
    BY <1>10, <2>1 DEF FlushSlot, InSlot, TypeOK, handler, shared, main
<1>11. ASSUME NEW i \in Slots, FlushHang(i) PROVE TypeOK'
  <2>1. store' \in [Images -> Card]
    BY <1>11, SMTT(30) DEF FlushHang, WriteSlot, TypeOK, Card
  <2> QED
    BY <1>11, <2>1 DEF FlushHang, TypeOK, handler, shared
<1>12. CASE FlushEnd
  BY <1>12 DEF FlushEnd, TypeOK, handler, shared, storage
<1> QED
  BY <1>1, <1>2, <1>3, <1>4, <1>5, <1>6, <1>7, <1>8, <1>9, <1>10, <1>11, <1>12
  DEF SaveNext

LEMMA ImportTypeOK ==
    ASSUME TypeOK, NEW card \in Card, NEW n \in 0 .. MC_SEC_COUNT, Import(card, n)
    PROVE  mc_data' \in Card /\ lost' \subseteq Sectors /\ flag_byte' \in BOOLEAN
BY DEF Import, TypeOK, Card

LEMMA InputTypeOK ==
    ASSUME TypeOK, InputNext
    PROVE  TypeOK'
<1> USE GeometryAssumption, ImagesAssumption, BuildAssumption
<1>1. CASE NoChange
  BY <1>1 DEF NoChange, TypeOK, handler, storage
<1>2. CASE EndOfList
  BY <1>2 DEF EndOfList, TypeOK, handler, storage
<1>3. CASE ChooseNew
  BY <1>3 DEF ChooseNew, TypeOK, handler, shared, storage
<1>4. CASE Lock
  BY <1>4 DEF Lock, TypeOK, handler, storage
<1>5. CASE DrainedForChange
  <2>1. burst' \in 0 .. MaxBurst
    BY <1>5 DEF DrainedForChange, BurstAfterDrain, TypeOK
  <2> QED
    BY <1>5, <2>1 DEF DrainedForChange, TypeOK, handler, shared, storage
<1>6. CASE Reconnect
  BY <1>6 DEF Reconnect, TypeOK, handler, storage
<1>7. ASSUME NEW i \in Images, Choose(i) PROVE TypeOK'
  BY <1>7 DEF Choose, TypeOK, handler, shared, storage
<1>8. ASSUME NEW n \in 0 .. MC_SEC_COUNT, Switch(n) PROVE TypeOK'
  <2>1. store[LoadedImage] \in Card
    BY DEF TypeOK, LoadedImage
  <2>2. mc_data' \in Card /\ lost' \subseteq Sectors /\ flag_byte' \in BOOLEAN
    BY <1>8, <2>1, ImportTypeOK DEF Switch
  <2> QED
    BY <1>8, <2>2 DEF Switch, TypeOK, handler, storage
<1>9. ASSUME NEW i \in Images, NEW n \in 0 .. MC_SEC_COUNT, Create(i, n)
      PROVE TypeOK'
  <2>1. store' \in [Images -> Card]
    BY <1>9 DEF Create, TypeOK
  <2>2. mc_data' \in Card /\ lost' \subseteq Sectors /\ flag_byte' \in BOOLEAN
    BY <1>9, ImportTypeOK DEF Create
  <2> QED
    BY <1>9, <2>1, <2>2 DEF Create, TypeOK, handler
<1>10. ASSUME NEW i \in Images, NEW n \in 0 .. MC_SEC_COUNT, CreateFail(i, n)
       PROVE TypeOK'
  <2>1. store' \in [Images -> Card]
    BY <1>10 DEF CreateFail, TypeOK, Card
  <2>2. lost' \subseteq Sectors
    BY <1>10 DEF CreateFail, TypeOK
  <2> QED
    BY <1>10, <2>1, <2>2 DEF CreateFail, TypeOK, handler, shared
<1> QED
  BY <1>1, <1>2, <1>3, <1>4, <1>5, <1>6, <1>7, <1>8, <1>9, <1>10 DEF InputNext

\* Every variable keeps its type: the handler's, the main loop's and the
\* storage's.
THEOREM TypeCorrect == Spec => []TypeOK
<1>1. Init => TypeOK
  <2> SUFFICES ASSUME Init PROVE TypeOK
    OBVIOUS
  <2> USE Geometry, GeometryAssumption, ImagesAssumption, BuildAssumption
  <2>1. mc_data \in Card /\ store \in [Images -> Card] /\ mc_file_name \in Images
    BY DEF Init
  <2>2. sync_queue \in Seq(Sectors) /\ buf \in Seq(Byte) /\ Len(buf) <= MC_SEC_SIZE
    BY DEF Init
  <2>3. burst \in 0 .. MaxBurst
    BY DEF Init
  <2> QED
    BY <2>1, <2>2, <2>3 DEF Init, TypeOK
<1>2. TypeOK /\ [Next]_vars => TypeOK'
  <2> SUFFICES ASSUME TypeOK, [Next]_vars PROVE TypeOK'
    OBVIOUS
  <2>1. CASE Next
    BY <2>1, HandlerTypeOK, SaveTypeOK, InputTypeOK DEF Next, MainNext
  <2>2. CASE UNCHANGED vars
    BY <2>2 DEF vars, handler, shared, main, storage, TypeOK
  <2> QED
    BY <2>1, <2>2
<1> QED
  BY <1>1, <1>2, PTL DEF Spec

-----------------------------------------------------------------------------
(* Mutual exclusion and the phases of the main loop. *)

ControlInv == MutexOwned /\ Phases /\ OneAtATime

LEMMA ControlInvStep ==
    ASSUME TypeOK, ControlInv, [Next]_vars
    PROVE  ControlInv'
<1> USE BuildAssumption DEF ControlInv, MutexOwned, Phases, OneAtATime, Changing, Critical
<1>1. CASE WriteCmd
  BY <1>1 DEF WriteCmd, HandlerRuns, shared, main, storage
<1>2. CASE WriteEnter
  BY <1>2 DEF WriteEnter, HandlerRuns, Available, main, storage
<1>3. ASSUME NEW a \in Address, WriteAddress(a) PROVE ControlInv'
  BY <1>3 DEF WriteAddress, WriteRefused, HandlerRuns, shared, main, storage
<1>4. ASSUME NEW b \in Byte, WriteData(b) PROVE ControlInv'
  BY <1>4 DEF WriteData, HandlerRuns, main, storage
<1>5. CASE WriteAcked
  BY <1>5 DEF WriteAcked, HandlerRuns, main, storage
<1>6. CASE WriteQueue
  BY <1>6 DEF WriteQueue, HandlerRuns, main, storage
<1>7. CASE WriteStatus
  BY <1>7 DEF WriteStatus, HandlerRuns, main, storage
<1>8. ASSUME NEW r \in {"next", "prev", "new"}, PadRead(r) PROVE ControlInv'
  BY <1>8 DEF PadRead, HandlerRuns, handler, main, storage
<1>9. CASE SelRise
  BY <1>9 DEF SelRise, shared, main, storage
<1>10. CASE LoopHead
  BY <1>10 DEF LoopHead, Idle, handler, shared, storage
<1>11. CASE Dequeue
  BY <1>11 DEF Dequeue, handler, storage
<1>12. CASE SyncCopy
  BY <1>12 DEF SyncCopy, handler, shared, storage
<1>13. CASE SyncDone
  BY <1>13 DEF SyncDone, SyncReturns, handler, shared
<1>14. CASE SyncFail
  BY <1>14 DEF SyncFail, SyncReturns, handler, shared, storage
<1>15. CASE SyncMark
  BY <1>15 DEF SyncMark, SyncReturns, handler, shared
<1>16. CASE Drained
  BY <1>16 DEF Drained, FlushDone, handler, shared, storage
<1>17. CASE Tick
  BY <1>17 DEF Tick, handler, shared, main
<1>18. CASE TryFlush
  BY <1>18 DEF TryFlush, handler, shared, storage
<1>19. ASSUME NEW i \in Slots, FlushSlot(i) PROVE ControlInv'
  BY <1>19 DEF FlushSlot, FirstSlot, handler, shared, main
<1>20. ASSUME NEW i \in Slots, FlushHang(i) PROVE ControlInv'
  BY <1>20 DEF FlushHang, FirstSlot, handler, shared
<1>21. CASE FlushEnd
  BY <1>21 DEF FlushEnd, handler, shared, storage
<1>22. CASE NoChange
  BY <1>22 DEF NoChange, handler, storage
<1>23. CASE EndOfList
  BY <1>23 DEF EndOfList, handler, storage
<1>24. CASE ChooseNew
  BY <1>24 DEF ChooseNew, handler, shared, storage
<1>25. CASE Lock
  BY <1>25 DEF Lock, handler, storage
<1>26. CASE DrainedForChange
  BY <1>26 DEF DrainedForChange, QueueSaved, handler, shared, storage
<1>27. CASE Reconnect
  BY <1>27 DEF Reconnect, handler, storage
<1>28. ASSUME NEW i \in Images, Choose(i) PROVE ControlInv'
  BY <1>28 DEF Choose, handler, shared, storage
<1>29. ASSUME NEW n \in 0 .. MC_SEC_COUNT, Switch(n) PROVE ControlInv'
  BY <1>29 DEF Switch, handler, storage
<1>30. ASSUME NEW i \in Images, NEW n \in 0 .. MC_SEC_COUNT, Create(i, n)
       PROVE ControlInv'
  BY <1>30 DEF Create, handler
<1>31. ASSUME NEW i \in Images, NEW n \in 0 .. MC_SEC_COUNT, CreateFail(i, n)
       PROVE ControlInv'
  BY <1>31 DEF CreateFail, handler, shared
<1>32. CASE UNCHANGED vars
  BY <1>32 DEF vars, handler, shared, main, storage
<1> QED
  BY <1>1, <1>2, <1>3, <1>4, <1>5, <1>6, <1>7, <1>8, <1>9, <1>10, <1>11, <1>12,
     <1>13, <1>14, <1>15, <1>16, <1>17, <1>18, <1>19, <1>20, <1>21, <1>22,
     <1>23, <1>24, <1>25, <1>26, <1>27, <1>28, <1>29, <1>30, <1>31, <1>32
  DEF Next, HandlerNext, MainNext, SaveNext, InputNext

LEMMA ControlInvInvariant == Spec => []ControlInv
<1>1. Init => ControlInv
  BY DEF Init, ControlInv, MutexOwned, Phases, OneAtATime, Changing, Critical
<1> QED
  BY <1>1, ControlInvStep, TypeCorrect, PTL DEF Spec

\* The handler is never inside a WRITE while the card is being changed, in
\* either build and whatever the deselect interrupt cuts short.
THEOREM WriteOrChangeInvariant == Spec => []WriteOrChange
<1>1. ControlInv => WriteOrChange
  BY DEF ControlInv, MutexOwned, WriteOrChange
<1> QED
  BY <1>1, ControlInvInvariant, PTL

-----------------------------------------------------------------------------
(* The queue has room for a whole card. *)

LEMMA CountedStep ==
    ASSUME TypeOK, Counted, [Next]_vars
    PROVE  Counted'
<1> USE DEF TypeOK, Counted, Arriving, Unqueued
<1>1. CASE WriteCmd
  BY <1>1 DEF WriteCmd, shared
<1>2. CASE WriteEnter
  BY <1>2 DEF WriteEnter
<1>3. ASSUME NEW a \in Address, WriteAddress(a) PROVE Counted'
  BY <1>3 DEF WriteAddress, WriteRefused, shared
<1>4. ASSUME NEW b \in Byte, WriteData(b) PROVE Counted'
  BY <1>4 DEF WriteData
<1>5. CASE WriteAcked
  BY <1>5 DEF WriteAcked
<1>6. CASE WriteQueue
  <2>1. Len(sync_queue') = Len(sync_queue) + 1
    BY <1>6 DEF WriteQueue
  <2> QED
    BY <1>6, <2>1 DEF WriteQueue
<1>7. CASE WriteStatus
  BY <1>7 DEF WriteStatus, Critical
<1>8. CASE SelRise
  BY <1>8 DEF SelRise, shared
<1>9. CASE Dequeue
  <2>1. Len(sync_queue') = Len(sync_queue) - 1
    BY <1>9 DEF Dequeue
  <2> QED
    BY <1>9, <2>1 DEF Dequeue, handler
<1>10. CASE Drained \/ DrainedForChange
  <2>1. sync_queue' = <<>> /\ burst' = BurstAfterDrain /\ pc' = pc
    BY <1>10 DEF Drained, DrainedForChange, FlushDone, QueueSaved, handler, shared
  <2> QED
    BY <2>1 DEF BurstAfterDrain
<1>11. CASE UNCHANGED <<sync_queue, pc, burst>>
  BY <1>11
<1>12. Next \/ UNCHANGED vars =>
         \/ WriteCmd \/ WriteEnter \/ (\E a \in Address : WriteAddress(a))
         \/ (\E b \in Byte : WriteData(b)) \/ WriteAcked \/ WriteQueue
         \/ WriteStatus \/ SelRise \/ Dequeue \/ Drained \/ DrainedForChange
         \/ UNCHANGED <<sync_queue, pc, burst>>
  <2>1. ASSUME NEW r \in {"next", "prev", "new"}, PadRead(r)
        PROVE  UNCHANGED <<sync_queue, pc, burst>>
    BY <2>1 DEF PadRead, handler
  <2>2. LoopHead \/ SyncCopy \/ SyncDone \/ SyncFail \/ SyncMark \/ TryFlush
        \/ FlushEnd \/ Tick
        => UNCHANGED <<sync_queue, pc, burst>>
    BY DEF LoopHead, SyncCopy, SyncDone, SyncFail, SyncMark, TryFlush, FlushEnd, Tick,
           handler, shared
  <2>3. ASSUME NEW i \in Slots, FlushSlot(i) \/ FlushHang(i)
        PROVE  UNCHANGED <<sync_queue, pc, burst>>
    BY <2>3 DEF FlushSlot, FlushHang, handler, shared
  <2>4. NoChange \/ EndOfList \/ ChooseNew \/ Lock \/ Reconnect
        => UNCHANGED <<sync_queue, pc, burst>>
    BY DEF NoChange, EndOfList, ChooseNew, Lock, Reconnect, handler, shared
  <2>5. ASSUME NEW i \in Images, NEW n \in 0 .. MC_SEC_COUNT,
               Create(i, n) \/ CreateFail(i, n)
        PROVE  UNCHANGED <<sync_queue, pc, burst>>
    BY <2>5 DEF Create, CreateFail, handler, shared
  <2>6. ASSUME NEW n \in 0 .. MC_SEC_COUNT, Switch(n)
        PROVE  UNCHANGED <<sync_queue, pc, burst>>
    BY <2>6 DEF Switch, handler
  <2>7. ASSUME NEW i \in Images, Choose(i)
        PROVE  UNCHANGED <<sync_queue, pc, burst>>
    BY <2>7 DEF Choose, handler, shared
  <2>8. UNCHANGED vars => UNCHANGED <<sync_queue, pc, burst>>
    BY DEF vars, handler, shared
  <2>9. HandlerNext \/ SelRise =>
           \/ WriteCmd \/ WriteEnter \/ (\E a \in Address : WriteAddress(a))
           \/ (\E b \in Byte : WriteData(b)) \/ WriteAcked \/ WriteQueue
           \/ WriteStatus \/ SelRise \/ UNCHANGED <<sync_queue, pc, burst>>
    BY <2>1 DEF HandlerNext
  <2>10. SaveNext \/ Tick =>
            Dequeue \/ Drained \/ UNCHANGED <<sync_queue, pc, burst>>
    BY <2>2, <2>3 DEF SaveNext
  <2>11. InputNext => DrainedForChange \/ UNCHANGED <<sync_queue, pc, burst>>
    BY <2>4, <2>5, <2>6, <2>7 DEF InputNext
  <2> QED
    BY <2>8, <2>9, <2>10, <2>11 DEF Next, MainNext
<1> QED
  BY <1>1, <1>2, <1>3, <1>4, <1>5, <1>6, <1>7, <1>8, <1>9, <1>10, <1>11, <1>12

LEMMA CountedInvariant == Spec => []Counted
<1>1. Init => Counted
  BY BuildAssumption DEF Init, Counted, Arriving, Unqueued
<1> QED
  BY <1>1, CountedStep, TypeCorrect, PTL DEF Spec

\* queue_add_blocking never blocks a console that writes at most a whole card
\* between two drains of the queue.
THEOREM QueueNeverBlocksInvariant == Spec => []QueueNeverBlocks
<1>1. TypeOK /\ Counted => QueueNeverBlocks
  BY GeometryAssumption, BuildAssumption
  DEF TypeOK, Counted, QueueNeverBlocks, QueueCapacity, Arriving, Unqueued
<1> QED
  BY <1>1, TypeCorrect, CountedInvariant, PTL

-----------------------------------------------------------------------------
(* Nothing is forgotten. *)

\* What Accounted and CopyTracked say of one sector.
Safe(s) == Saved(s) \/ Pending(s) \/ s \in lost
Tracked(s) == BeingCopied(s) \/ InQueue(s) \/ BeingWritten(s) \/ s \in lost

LEMMA SafeAndTracked ==
    /\ Accounted <=> \A s \in SyncedSectors : Safe(s)
    /\ CopyTracked <=> (mpc = "sync" /\ sec \in SyncedSectors => Tracked(sec))
BY DEF Accounted, CopyTracked, Safe, Tracked

\* A step that leaves the data, the queue and the slots alone, and neither
\* ends a copy nor an unfinished WRITE, forgets nothing.
LEMMA QuietStep ==
    ASSUME Accounted,
           UNCHANGED <<mc_data, store, mc_file_name, sync_queue, out_of_sync, lost>>,
           UNCHANGED <<sec, buf>>, mpc = "sync" => mpc' = "sync",
           UNCHANGED write_address, pc \in Unqueued => pc' \in Unqueued
    PROVE  Accounted'
BY DEF Accounted, Saved, Pending, InQueue, BeingWritten, BeingCopied

LEMMA HandlerAccounted ==
    ASSUME TypeOK, Accounted, HandlerNext \/ SelRise
    PROVE  Accounted'
<1>1. CASE WriteCmd
  BY <1>1, QuietStep DEF WriteCmd, Unqueued, shared, main, storage
<1>2. CASE WriteEnter
  BY <1>2, QuietStep DEF WriteEnter, Unqueued, main, storage
<1>3. ASSUME NEW a \in Address, WriteAddress(a) PROVE Accounted'
  <2>1. pc \notin Unqueued
    BY <1>3 DEF WriteAddress, Unqueued
  <2> QED
    BY <1>3, <2>1 DEF WriteAddress, Accounted, Saved, Pending, InQueue,
       BeingWritten, BeingCopied, shared, main, storage
<1>4. ASSUME NEW b \in Byte, WriteData(b) PROVE Accounted'
  <2> SUFFICES ASSUME NEW s \in SyncedSectors PROVE Safe(s)'
    BY DEF Accounted, Safe
  <2>1. CASE s = write_address
    BY <1>4, <2>1 DEF WriteData, Safe, Pending, BeingWritten, Unqueued
  <2>2. CASE s # write_address
    <3>1. mc_data'[s] = mc_data[s]
      BY <1>4, <2>2 DEF WriteData, TypeOK, Card
    <3>2. UNCHANGED <<store, mc_file_name, sync_queue, out_of_sync, lost,
                      mpc, sec, buf>>
      BY <1>4 DEF WriteData, main, storage
    <3>3. Saved(s) \/ InQueue(s) \/ SlotOf(s) \in out_of_sync \/ BeingCopied(s)
          \/ s \in lost
      BY <2>2 DEF Accounted, Pending, BeingWritten
    <3> QED
      BY <3>1, <3>2, <3>3 DEF Safe, Saved, Pending, InQueue, BeingCopied
  <2> QED
    BY <2>1, <2>2
<1>5. CASE WriteAcked
  <2> SUFFICES ASSUME NEW s \in SyncedSectors PROVE Safe(s)'
    BY DEF Accounted, Safe
  <2>1. BeingWritten(s) => BeingWritten(s)'
    BY <1>5 DEF WriteAcked, BeingWritten, Unqueued, NeedsSync, SyncedSectors
  <2> QED
    BY <1>5, <2>1 DEF WriteAcked, Accounted, Safe, Saved, Pending, InQueue,
       BeingCopied, main, storage
<1>6. CASE WriteQueue
  <2> SUFFICES ASSUME NEW s \in SyncedSectors PROVE Safe(s)'
    BY DEF Accounted, Safe
  <2>1. BeingWritten(s) => InQueue(s)'
    BY <1>6 DEF WriteQueue, BeingWritten, InQueue, TypeOK
  <2>2. InQueue(s) => InQueue(s)'
    BY <1>6 DEF WriteQueue, InQueue, TypeOK
  <2> QED
    BY <1>6, <2>1, <2>2 DEF WriteQueue, Accounted, Safe, Saved, Pending,
       BeingCopied, main, storage
<1>7. CASE WriteStatus
  <2>1. pc \notin Unqueued
    BY <1>7 DEF WriteStatus, Unqueued
  <2> QED
    BY <1>7, <2>1 DEF WriteStatus, Accounted, Saved, Pending, InQueue,
       BeingWritten, BeingCopied, main, storage
<1>8. ASSUME NEW r \in {"next", "prev", "new"}, PadRead(r) PROVE Accounted'
  BY <1>8, QuietStep DEF PadRead, handler, main, storage
<1>9. CASE SelRise
  BY <1>9 DEF SelRise, Accounted, Saved, Pending, InQueue, BeingWritten,
     BeingCopied, shared, main, storage
<1> QED
  BY <1>1, <1>2, <1>3, <1>4, <1>5, <1>6, <1>7, <1>8, <1>9 DEF HandlerNext

LEMMA SaveAccounted ==
    ASSUME TypeOK, ControlInv, CopyTracked, Accounted, SaveNext \/ Tick
    PROVE  Accounted'
<1>1. CASE LoopHead \/ TryFlush \/ FlushEnd \/ Drained \/ Tick
  BY <1>1, QuietStep
  DEF LoopHead, TryFlush, FlushEnd, Drained, Tick, handler, shared, main, storage
<1>2. CASE Dequeue
  <2> SUFFICES ASSUME NEW s \in SyncedSectors PROVE Safe(s)'
    BY DEF Accounted, Safe
  <2>1. buf' = <<>> /\ sec' = Head(sync_queue) /\ mpc' = "sync"
    BY <1>2 DEF Dequeue, ControlInv, Phases
  <2>2. CASE s = Head(sync_queue)
    BY <2>1, <2>2 DEF Safe, Pending, BeingCopied
  <2>3. CASE s # Head(sync_queue)
    <3>1. InQueue(s) => InQueue(s)'
      <4> SUFFICES ASSUME NEW n \in 1 .. Len(sync_queue), sync_queue[n] = s
                   PROVE  InQueue(s)'
        BY DEF InQueue
      <4>1. n # 1
        BY <1>2, <2>3 DEF Dequeue, TypeOK
      <4>2. n - 1 \in 1 .. Len(sync_queue') /\ sync_queue'[n - 1] = s
        BY <1>2, <4>1 DEF Dequeue, TypeOK
      <4> QED
        BY <4>2 DEF InQueue
    <3> QED
      BY <1>2, <2>3, <3>1 DEF Dequeue, Accounted, Safe, Saved, Pending,
         BeingWritten, BeingCopied, handler, storage
  <2> QED
    BY <2>2, <2>3
<1>3. CASE SyncCopy
  <2> SUFFICES ASSUME NEW s \in SyncedSectors PROVE Safe(s)'
    BY DEF Accounted, Safe
  <2>1. BeingCopied(s) => BeingCopied(s)'
    <3> SUFFICES ASSUME BeingCopied(s), NEW k \in 1 .. Len(buf')
                 PROVE  buf'[k] = mc_data'[s][k - 1]
      BY <1>3 DEF SyncCopy, BeingCopied
    <3>1. CASE k \in 1 .. Len(buf)
      BY <1>3, <3>1 DEF SyncCopy, BeingCopied, TypeOK, shared
    <3>2. CASE k = Len(buf) + 1
      BY <1>3, <3>2 DEF SyncCopy, BeingCopied, TypeOK, shared
    <3> QED
      BY <1>3, <3>1, <3>2 DEF SyncCopy, TypeOK
  <2> QED
    BY <1>3, <2>1 DEF SyncCopy, Accounted, Safe, Saved, Pending, InQueue,
       BeingWritten, handler, shared, storage
<1>4. CASE SyncDone
  <2> SUFFICES ASSUME NEW s \in SyncedSectors PROVE Safe(s)'
    BY DEF Accounted, Safe
  <2>1. CASE BeingCopied(s)
    <3>1. mc_data[s] \in [0 .. MC_SEC_SIZE - 1 -> Byte]
      BY DEF TypeOK, Card, Content, SyncedSectors
    <3>2. \A k \in 0 .. MC_SEC_SIZE - 1 : buf[k + 1] = mc_data[s][k]
      BY <1>4, <2>1, GeometryAssumption DEF SyncDone, BeingCopied
    <3>3. [k \in 0 .. MC_SEC_SIZE - 1 |-> buf[k + 1]] = mc_data[s]
      BY <3>1, <3>2
    <3>4. store'[mc_file_name][s] = mc_data[s]
      BY <1>4, <2>1, <3>3 DEF SyncDone, BeingCopied, TypeOK, Card
    <3> QED
      BY <1>4, <3>4 DEF SyncDone, SyncReturns, Safe, Saved, shared
  <2>2. CASE s # sec
    <3>1. store'[mc_file_name][s] = store[mc_file_name][s]
      BY <1>4, <2>2 DEF SyncDone, TypeOK, Card
    <3> QED
      BY <1>4, <2>2, <3>1 DEF SyncDone, SyncReturns, Accounted, Safe, Saved,
         Pending, InQueue, BeingWritten, BeingCopied, handler, shared
  <2>3. CASE s = sec /\ ~BeingCopied(s)
    <3>1. InQueue(s) \/ BeingWritten(s) \/ s \in lost
      BY <1>4, <2>3 DEF SyncDone, CopyTracked
    <3> QED
      BY <1>4, <3>1 DEF SyncDone, SyncReturns, Safe, Pending, InQueue,
         BeingWritten, handler, shared
  <2> QED
    BY <2>1, <2>2, <2>3
<1>5. CASE SyncFail
  <2> SUFFICES ASSUME NEW s \in SyncedSectors PROVE Safe(s)'
    BY DEF Accounted, Safe
  <2> QED
    BY <1>5 DEF SyncFail, SyncReturns, Accounted, Safe, Saved, Pending, InQueue,
       BeingWritten, BeingCopied, handler, shared, storage
<1>6. CASE SyncMark
  <2> SUFFICES ASSUME NEW s \in SyncedSectors PROVE Safe(s)'
    BY DEF Accounted, Safe
  <2> QED
    BY <1>6 DEF SyncMark, SyncReturns, Accounted, Safe, Saved, Pending, InQueue,
       BeingWritten, BeingCopied, handler, shared
<1>7. ASSUME NEW i \in Slots, FlushSlot(i) PROVE Accounted'
  <2> SUFFICES ASSUME NEW s \in SyncedSectors PROVE Safe(s)'
    BY DEF Accounted, Safe
  <2>0. s \in Sectors
    BY DEF SyncedSectors
  <2>1. UNCHANGED <<mc_data, mc_file_name, sync_queue, pc, write_address, mpc, sec, buf>>
    BY <1>7 DEF FlushSlot, handler, shared, main
  <2>2. CASE s \in InSlot(i)
    <3>1. store'[mc_file_name][s] = mc_data[s] \/ s \in lost'
      BY <1>7, <2>0, <2>2 DEF FlushSlot, WriteSlot, TypeOK, Card
    <3> QED
      BY <2>1, <3>1 DEF Safe, Saved
  <2>3. CASE s \notin InSlot(i)
    <3>1. store'[mc_file_name][s] = store[mc_file_name][s]
      BY <1>7, <2>0, <2>3 DEF FlushSlot, WriteSlot, TypeOK, Card
    <3>2. s \in lost => s \in lost'
      BY <1>7, <2>3 DEF FlushSlot
    <3>3. SlotOf(s) # i
      BY <2>0, <2>3 DEF InSlot
    <3>4. SlotOf(s) \in out_of_sync => SlotOf(s) \in out_of_sync'
      BY <1>7, <3>3 DEF FlushSlot
    <3> QED
      BY <2>1, <3>1, <3>2, <3>4 DEF Accounted, Safe, Saved, Pending, InQueue,
         BeingWritten, BeingCopied
  <2> QED
    BY <2>2, <2>3
<1>8. ASSUME NEW i \in Slots, FlushHang(i) PROVE Accounted'
  <2> SUFFICES ASSUME NEW s \in SyncedSectors PROVE Safe(s)'
    BY DEF Accounted, Safe
  <2>1. UNCHANGED <<mc_data, mc_file_name, sync_queue, out_of_sync, pc, write_address, lost>>
    BY <1>8 DEF FlushHang, handler, shared
  <2>2. Saved(s) => Saved(s)'
    BY <1>8, <2>1 DEF FlushHang, WriteSlot, Saved, SyncedSectors, TypeOK, Card
  <2>3. mpc # "sync"
    BY <1>8 DEF FlushHang, FirstSlot
  <2> QED
    BY <2>1, <2>2, <2>3 DEF Accounted, Safe, Pending, InQueue, BeingWritten, BeingCopied
<1> QED
  BY <1>1, <1>2, <1>3, <1>4, <1>5, <1>6, <1>7, <1>8 DEF SaveNext

LEMMA InputAccounted ==
    ASSUME TypeOK, ControlInv, Accounted, InputNext
    PROVE  Accounted'
<1>1. CASE NoChange \/ EndOfList \/ ChooseNew \/ Lock \/ DrainedForChange \/ Reconnect
  BY <1>1, QuietStep
  DEF NoChange, EndOfList, ChooseNew, Lock, DrainedForChange, Reconnect, handler,
      shared, storage
<1>2. ASSUME NEW i \in Images, Choose(i) PROVE Accounted'
  BY <1>2, QuietStep DEF Choose, handler, shared, storage
<1>3. ASSUME NEW n \in 0 .. MC_SEC_COUNT, Switch(n) PROVE Accounted'
  <2> SUFFICES ASSUME NEW s \in SyncedSectors PROVE Safe(s)'
    BY DEF Accounted, Safe
  <2>1. s \in Sectors
    BY DEF SyncedSectors
  <2>2. mc_data'[s] = store'[mc_file_name'][s] \/ s \in lost'
    BY <1>3, <2>1, GeometryAssumption DEF Switch, LoadedImage, Import, Sectors, storage
  <2> QED
    BY <2>2 DEF Safe, Saved
<1>4. ASSUME NEW i \in Images, NEW n \in 0 .. MC_SEC_COUNT, Create(i, n)
      PROVE Accounted'
  <2> SUFFICES ASSUME NEW s \in SyncedSectors PROVE Safe(s)'
    BY DEF Accounted, Safe
  <2>1. s \in Sectors
    BY DEF SyncedSectors
  <2>2. store'[mc_file_name'][s] = BlankCard[s]
    BY <1>4 DEF Create, TypeOK
  <2>3. mc_data'[s] = BlankCard[s] \/ s \in lost'
    BY <1>4, <2>1, GeometryAssumption DEF Create, Import, Sectors
  <2> QED
    BY <2>2, <2>3 DEF Safe, Saved
<1>5. ASSUME NEW i \in Images, NEW n \in 0 .. MC_SEC_COUNT, CreateFail(i, n)
      PROVE Accounted'
  <2> SUFFICES ASSUME NEW s \in SyncedSectors PROVE Safe(s)'
    BY DEF Accounted, Safe
  <2>1. s \in Sectors
    BY DEF SyncedSectors
  <2>2. store'[mc_file_name][s] = store[mc_file_name][s] \/ s \in lost'
    BY <1>5, <2>1 DEF CreateFail, TypeOK, Card
  <2>3. s \in lost => s \in lost'
    BY <1>5 DEF CreateFail
  <2> QED
    BY <1>5, <2>2, <2>3 DEF CreateFail, Accounted, Safe, Saved, Pending, InQueue,
       BeingWritten, BeingCopied, handler, shared
<1> QED
  BY <1>1, <1>2, <1>3, <1>4, <1>5 DEF InputNext

\* The copy in progress stays tracked through every step of the handler and of
\* the main loop.
LEMMA HandlerCopyTracked ==
    ASSUME TypeOK, CopyTracked, HandlerNext \/ SelRise
    PROVE  CopyTracked'
<1> SUFFICES ASSUME mpc' = "sync", sec' \in SyncedSectors PROVE Tracked(sec)'
  BY DEF CopyTracked, Tracked
<1>1. UNCHANGED <<mpc, sec, buf>>
  BY DEF HandlerNext, WriteCmd, WriteEnter, WriteAddress, WriteData, WriteAcked,
     WriteQueue, WriteStatus, PadRead, SelRise, main
<1>2. mpc = "sync" /\ sec \in SyncedSectors /\ Tracked(sec)
  BY <1>1 DEF CopyTracked, Tracked
<1>3. CASE WriteCmd
  BY <1>2, <1>3 DEF WriteCmd, Tracked, InQueue, BeingCopied, BeingWritten, Unqueued,
     shared, main
<1>4. CASE WriteEnter
  BY <1>2, <1>4 DEF WriteEnter, Tracked, InQueue, BeingCopied, BeingWritten, Unqueued,
     main
<1>5. ASSUME NEW a \in Address, WriteAddress(a) PROVE Tracked(sec)'
  BY <1>2, <1>5 DEF WriteAddress, Tracked, InQueue, BeingCopied, BeingWritten,
     Unqueued, shared, main
<1>6. ASSUME NEW b \in Byte, WriteData(b) PROVE Tracked(sec)'
  <2>1. CASE sec = write_address
    BY <1>1, <1>6, <2>1 DEF WriteData, Tracked, BeingWritten, Unqueued
  <2>2. CASE sec # write_address
    <3>1. mc_data'[sec] = mc_data[sec]
      BY <1>6, <2>2 DEF WriteData, TypeOK, Card
    <3> QED
      BY <1>1, <1>2, <1>6, <2>2, <3>1 DEF WriteData, Tracked, InQueue, BeingCopied,
         BeingWritten
  <2> QED
    BY <2>1, <2>2
<1>7. CASE WriteAcked
  <2>1. BeingWritten(sec) => BeingWritten(sec)'
    BY <1>1, <1>2, <1>7 DEF WriteAcked, BeingWritten, Unqueued, NeedsSync, SyncedSectors
  <2> QED
    BY <1>1, <1>2, <1>7, <2>1 DEF WriteAcked, Tracked, InQueue, BeingCopied
<1>8. CASE WriteQueue
  <2>1. BeingWritten(sec) => InQueue(sec)'
    BY <1>1, <1>8 DEF WriteQueue, BeingWritten, InQueue, TypeOK
  <2>2. InQueue(sec) => InQueue(sec)'
    BY <1>1, <1>8 DEF WriteQueue, InQueue, TypeOK
  <2> QED
    BY <1>1, <1>2, <1>8, <2>1, <2>2 DEF WriteQueue, Tracked, BeingCopied
<1>9. CASE WriteStatus
  BY <1>2, <1>9 DEF WriteStatus, Tracked, InQueue, BeingCopied, BeingWritten, Unqueued,
     main
<1>10. ASSUME NEW r \in {"next", "prev", "new"}, PadRead(r) PROVE Tracked(sec)'
  BY <1>2, <1>10 DEF PadRead, Tracked, InQueue, BeingCopied, BeingWritten, handler, main
<1>11. CASE SelRise
  BY <1>2, <1>11 DEF SelRise, Tracked, InQueue, BeingCopied, BeingWritten, shared, main
<1> QED
  BY <1>3, <1>4, <1>5, <1>6, <1>7, <1>8, <1>9, <1>10, <1>11 DEF HandlerNext

LEMMA CopyBegins ==
    ASSUME TypeOK, ControlInv, Dequeue
    PROVE  CopyTracked'
BY DEF Dequeue, ControlInv, Phases, CopyTracked, BeingCopied

LEMMA CopyGoesOn ==
    ASSUME TypeOK, CopyTracked, SyncCopy
    PROVE  CopyTracked'
<1> SUFFICES ASSUME sec \in SyncedSectors PROVE Tracked(sec)'
  BY DEF CopyTracked, Tracked, SyncCopy
<1>1. UNCHANGED <<mpc, sec, mc_data, sync_queue, pc, write_address, lost>>
  BY DEF SyncCopy, handler, shared
<1>2. Tracked(sec)
  BY DEF SyncCopy, CopyTracked, Tracked
<1>3. BeingCopied(sec) => BeingCopied(sec)'
  <2> SUFFICES ASSUME BeingCopied(sec), NEW k \in 1 .. Len(buf')
               PROVE  buf'[k] = mc_data[sec][k - 1]
    BY <1>1 DEF BeingCopied
  <2>1. CASE k \in 1 .. Len(buf)
    BY <2>1 DEF SyncCopy, BeingCopied, TypeOK
  <2>2. CASE k = Len(buf) + 1
    BY <2>2 DEF SyncCopy, BeingCopied, TypeOK
  <2> QED
    BY <2>1, <2>2 DEF SyncCopy, TypeOK
<1> QED
  BY <1>1, <1>2, <1>3 DEF Tracked, InQueue, BeingWritten

LEMMA MainCopyTracked ==
    ASSUME TypeOK, ControlInv, CopyTracked, MainNext \/ Tick
    PROVE  CopyTracked'
<1>1. CASE Dequeue
  BY <1>1, CopyBegins
<1>2. CASE SyncCopy
  BY <1>2, CopyGoesOn
<1>3. CASE Tick
  BY <1>3 DEF Tick, CopyTracked, InQueue, BeingCopied, BeingWritten, handler, shared, main
<1>4. CASE LoopHead \/ SyncDone \/ SyncFail \/ SyncMark \/ Drained \/ TryFlush
           \/ FlushEnd
  BY <1>4 DEF LoopHead, SyncDone, SyncFail, SyncMark, SyncReturns, Drained, TryFlush,
     FlushEnd, CopyTracked
<1>5. ASSUME NEW i \in Slots, FlushSlot(i) \/ FlushHang(i) PROVE CopyTracked'
  BY <1>5 DEF FlushSlot, FlushHang, FirstSlot, CopyTracked, main
<1>6. CASE InputNext
  BY <1>6 DEF InputNext, NoChange, EndOfList, ChooseNew, Lock, DrainedForChange,
     Reconnect, Choose, Switch, Create, CreateFail, CopyTracked
<1> QED
  BY <1>1, <1>2, <1>3, <1>4, <1>5, <1>6 DEF MainNext, SaveNext

LEMMA AccountedStep ==
    ASSUME TypeOK, ControlInv, CopyTracked /\ Accounted, [Next]_vars
    PROVE  (CopyTracked /\ Accounted)'
<1>1. CASE HandlerNext \/ SelRise
  BY <1>1, HandlerAccounted, HandlerCopyTracked
<1>2. CASE MainNext \/ Tick
  BY <1>2, SaveAccounted, InputAccounted, MainCopyTracked, QuietStep DEF MainNext
<1>3. CASE UNCHANGED vars
  BY <1>3 DEF vars, handler, shared, main, storage, Accounted, CopyTracked, Saved,
     Pending, InQueue, BeingWritten, BeingCopied
<1> QED
  BY <1>1, <1>2, <1>3 DEF Next

LEMMA AccountedInit == Init => CopyTracked /\ Accounted
BY DEF Init, CopyTracked, Accounted, Saved

\* Whatever is written, cut short, switched, created or fails: a sector that
\* differs from its file is on its way to it, or was given up knowingly.
THEOREM AccountedInvariant == Spec => []Accounted
<1>1. Init => CopyTracked /\ Accounted
  BY AccountedInit
<1>2. TypeOK /\ ControlInv /\ CopyTracked /\ Accounted /\ [Next]_vars
      => (CopyTracked /\ Accounted)'
  BY AccountedStep
<1> QED
  BY <1>1, <1>2, TypeCorrect, ControlInvInvariant, PTL DEF Spec

\* The invariant that carries all the others, as TLC checks it.
THEOREM IInvInvariant == Spec => []IInv
<1>1. Init => CopyTracked /\ Accounted
  BY AccountedInit
<1>2. TypeOK /\ ControlInv /\ CopyTracked /\ Accounted /\ [Next]_vars
      => (CopyTracked /\ Accounted)'
  BY AccountedStep
<1>3. ControlInv /\ Counted /\ CopyTracked /\ Accounted => IInv
  BY DEF IInv, ControlInv
<1> QED
  BY <1>1, <1>2, <1>3, TypeCorrect, ControlInvInvariant, CountedInvariant, PTL DEF Spec

-----------------------------------------------------------------------------
(* Changing cards. *)

\* With the card image on the SD card, the program leaves an image only when
\* all that was written to it, and not given up, is in its file - also when
\* the handler runs on its own core.
THEOREM SwitchAfterSyncHolds ==
    ASSUME USE_SDCARD
    PROVE  Spec => SwitchAfterSync
<1>1. ASSUME IInv, TypeOK, [Next]_vars, mc_file_name' # mc_file_name,
             NEW s \in SyncedSectors
      PROVE  Saved(s) \/ s \in lost
  <2>1. mpc = "change"
    <3>1. CASE HandlerNext \/ SelRise
      BY <1>1, <3>1 DEF HandlerNext, WriteCmd, WriteEnter, WriteAddress, WriteData,
         WriteAcked, WriteQueue, WriteStatus, PadRead, SelRise, main
    <3>2. CASE SaveNext \/ Tick
      BY <1>1, <3>2 DEF SaveNext, LoopHead, Dequeue, SyncCopy, SyncDone, SyncFail,
         SyncMark, SyncReturns, Drained, TryFlush, FlushSlot, FlushHang, FlushEnd,
         Tick, main
    <3>3. CASE InputNext
      BY <1>1, <3>3 DEF InputNext, NoChange, EndOfList, ChooseNew, Lock,
         DrainedForChange, Reconnect, Choose, Switch, Create, CreateFail
    <3>4. CASE UNCHANGED vars
      BY <1>1, <3>4 DEF vars, main
    <3> QED
      BY <1>1, <3>1, <3>2, <3>3, <3>4 DEF Next, MainNext
  <2>2. ~InQueue(s) /\ out_of_sync = {}
    BY <1>1, <2>1 DEF IInv, Phases, InQueue
  <2>3. pc \notin Critical
    BY <1>1, <2>1 DEF IInv, MutexOwned, Changing
  <2>4. ~BeingWritten(s) /\ ~BeingCopied(s)
    BY <2>1, <2>3 DEF BeingWritten, BeingCopied, Unqueued, Critical
  <2> QED
    BY <1>1, <2>2, <2>4 DEF IInv, Accounted, Pending
<1>2. IInv /\ TypeOK /\ [Next]_vars
      => [mc_file_name' # mc_file_name =>
             \A s \in SyncedSectors : Saved(s) \/ s \in lost]_vars
  BY <1>1
<1> QED
  BY <1>2, IInvInvariant, TypeCorrect, PTL DEF SwitchAfterSync, Spec

-----------------------------------------------------------------------------
(* A card that was just inserted. *)

Kept(s) == Saved(s) \/ BeingWritten(s) \/ s \in lost

\* While the console sees a new card, nothing is queued or being saved, and what
\* differs from the file is the WRITE being received or was given up.
Fresh ==
    flag_byte => /\ sync_queue = <<>> /\ mpc # "sync" /\ pc # "w_queue"
                 /\ \A s \in Sectors : Kept(s)

\* Steps that touch neither the card, its file, the queue nor the handler.
LEMMA IdleFresh ==
    ASSUME Fresh, mpc' # "sync",
           UNCHANGED <<handler, mc_data, flag_byte, sync_queue, store,
                       mc_file_name, lost>>
    PROVE  Fresh'
BY DEF Fresh, Kept, Saved, BeingWritten, handler

LEMMA HandlerFresh ==
    ASSUME TypeOK, Fresh, HandlerNext \/ SelRise
    PROVE  Fresh'
<1> SUFFICES ASSUME flag_byte'
             PROVE  /\ sync_queue' = <<>> /\ mpc' # "sync" /\ pc' # "w_queue"
                    /\ \A s \in Sectors : Kept(s)'
  BY DEF Fresh
<1>1. UNCHANGED <<mpc, mc_file_name, store>>
  BY DEF HandlerNext, WriteCmd, WriteEnter, WriteAddress, WriteData, WriteAcked,
     WriteQueue, WriteStatus, PadRead, SelRise, main, storage
<1>2. flag_byte
  BY DEF HandlerNext, WriteCmd, WriteEnter, WriteAddress, WriteData, WriteAcked,
     WriteQueue, WriteStatus, PadRead, SelRise, shared
<1>3. /\ sync_queue = <<>> /\ mpc # "sync" /\ pc # "w_queue"
      /\ \A s \in Sectors : Kept(s)
  BY <1>2 DEF Fresh
<1>4. CASE WriteCmd \/ WriteEnter \/ WriteStatus
  BY <1>1, <1>3, <1>4 DEF WriteCmd, WriteEnter, WriteStatus, Kept, Saved,
     BeingWritten, Unqueued, shared
<1>5. ASSUME NEW a \in Address, WriteAddress(a)
      PROVE  /\ sync_queue' = <<>> /\ mpc' # "sync" /\ pc' # "w_queue"
             /\ \A s \in Sectors : Kept(s)'
  BY <1>1, <1>3, <1>5 DEF WriteAddress, WriteRefused, Kept, Saved, BeingWritten,
     Unqueued, shared
<1>6. ASSUME NEW b \in Byte, WriteData(b)
      PROVE  /\ sync_queue' = <<>> /\ mpc' # "sync" /\ pc' # "w_queue"
             /\ \A s \in Sectors : Kept(s)'
  <2>1. ASSUME NEW s \in Sectors PROVE Kept(s)'
    <3>1. CASE s = write_address
      BY <1>6, <3>1 DEF WriteData, Kept, BeingWritten, Unqueued
    <3>2. CASE s # write_address
      BY <1>1, <1>3, <1>6, <3>2 DEF WriteData, Kept, Saved, BeingWritten, TypeOK, Card
    <3> QED
      BY <3>1, <3>2
  <2> QED
    BY <1>1, <1>3, <1>6, <2>1 DEF WriteData
<1>7. ~WriteAcked /\ ~WriteQueue
  BY <1>3 DEF WriteAcked, WriteQueue
<1>8. ASSUME NEW r \in {"next", "prev", "new"}, PadRead(r)
      PROVE  /\ sync_queue' = <<>> /\ mpc' # "sync" /\ pc' # "w_queue"
             /\ \A s \in Sectors : Kept(s)'
  BY <1>1, <1>3, <1>8 DEF PadRead, Kept, Saved, BeingWritten, handler
<1>9. CASE SelRise
  BY <1>1, <1>3, <1>9 DEF SelRise, Kept, Saved, BeingWritten, shared
<1> QED
  BY <1>4, <1>5, <1>6, <1>7, <1>8, <1>9 DEF HandlerNext

LEMMA SaveFresh ==
    ASSUME TypeOK, Fresh, SaveNext \/ Tick
    PROVE  Fresh'
<1>1. CASE LoopHead \/ Drained \/ TryFlush \/ FlushEnd
  BY <1>1, IdleFresh DEF LoopHead, Drained, TryFlush, FlushEnd, shared, storage
<1>2. CASE Tick
  BY <1>2 DEF Tick, Fresh, Kept, Saved, BeingWritten, handler, shared, main
<1>3. CASE Dequeue \/ SyncCopy \/ SyncDone \/ SyncFail \/ SyncMark
  BY <1>3 DEF Dequeue, SyncCopy, SyncDone, SyncFail, SyncMark, Fresh, shared
<1>4. ASSUME NEW i \in Slots, FlushSlot(i) PROVE Fresh'
  <2> SUFFICES ASSUME flag_byte PROVE \A s \in Sectors : Kept(s)'
    BY <1>4 DEF FlushSlot, FirstSlot, Fresh, handler, shared, main
  <2> SUFFICES ASSUME NEW s \in Sectors PROVE Kept(s)'
    OBVIOUS
  <2>1. UNCHANGED <<mc_data, mc_file_name, pc, write_address, mpc>>
    BY <1>4 DEF FlushSlot, handler, shared, main
  <2>2. Kept(s)
    BY DEF Fresh
  <2>3. CASE s \in InSlot(i)
    <3>1. store'[mc_file_name][s] = mc_data[s] \/ s \in lost'
      BY <1>4, <2>3 DEF FlushSlot, WriteSlot, TypeOK, Card
    <3> QED
      BY <2>1, <3>1 DEF Kept, Saved
  <2>4. CASE s \notin InSlot(i)
    <3>1. store'[mc_file_name][s] = store[mc_file_name][s]
      BY <1>4, <2>4 DEF FlushSlot, WriteSlot, TypeOK, Card
    <3>2. s \in lost => s \in lost'
      BY <1>4, <2>4 DEF FlushSlot
    <3> QED
      BY <2>1, <2>2, <3>1, <3>2 DEF Kept, Saved, BeingWritten
  <2> QED
    BY <2>3, <2>4
<1>5. ASSUME NEW i \in Slots, FlushHang(i) PROVE Fresh'
  <2> SUFFICES ASSUME flag_byte PROVE \A s \in Sectors : Kept(s)'
    BY <1>5 DEF FlushHang, Fresh, handler, shared
  <2>1. UNCHANGED <<mc_data, mc_file_name, pc, write_address, lost>>
    BY <1>5 DEF FlushHang, handler, shared
  <2>2. ASSUME NEW s \in Sectors PROVE Saved(s) => Saved(s)'
    BY <1>5, <2>1 DEF FlushHang, WriteSlot, Saved, TypeOK, Card
  <2> QED
    BY <2>1, <2>2 DEF Fresh, Kept, BeingWritten
<1> QED
  BY <1>1, <1>2, <1>3, <1>4, <1>5 DEF SaveNext

LEMMA InputFresh ==
    ASSUME TypeOK, ControlInv, Fresh, InputNext
    PROVE  Fresh'
<1>1. CASE NoChange \/ EndOfList \/ ChooseNew \/ Lock \/ DrainedForChange \/ Reconnect
  BY <1>1, IdleFresh DEF NoChange, EndOfList, ChooseNew, Lock, DrainedForChange,
     Reconnect, shared, storage
<1>2. ASSUME NEW i \in Images, Choose(i) PROVE Fresh'
  BY <1>2, IdleFresh DEF Choose, shared, storage
<1>3. mpc = "change" => sync_queue = <<>> /\ pc # "w_queue"
  BY DEF ControlInv, MutexOwned, Phases, Changing, Critical
<1>4. ASSUME NEW n \in 0 .. MC_SEC_COUNT, Switch(n) PROVE Fresh'
  <2>1. ASSUME NEW s \in Sectors PROVE Kept(s)'
    BY <1>4, GeometryAssumption DEF Switch, LoadedImage, Import, Kept, Saved,
       Sectors, storage
  <2> QED
    BY <1>3, <1>4, <2>1 DEF Switch, Fresh, handler
<1>5. ASSUME NEW i \in Images, NEW n \in 0 .. MC_SEC_COUNT, Create(i, n)
      PROVE  Fresh'
  <2>1. ASSUME NEW s \in Sectors PROVE Kept(s)'
    <3>1. store'[mc_file_name'] = BlankCard
      BY <1>5 DEF Create, TypeOK
    <3>2. mc_data'[s] = BlankCard[s] \/ s \in lost'
      BY <1>5, <2>1, GeometryAssumption DEF Create, Import, Sectors
    <3> QED
      BY <3>1, <3>2 DEF Kept, Saved
  <2> QED
    BY <1>3, <1>5, <2>1 DEF Create, Fresh, handler
<1>6. ASSUME NEW i \in Images, NEW n \in 0 .. MC_SEC_COUNT, CreateFail(i, n)
      PROVE  Fresh'
  <2>1. ASSUME NEW s \in Sectors, Kept(s) PROVE Kept(s)'
    <3>1. store'[mc_file_name][s] = store[mc_file_name][s] \/ s \in lost'
      BY <1>6 DEF CreateFail, TypeOK, Card
    <3>2. s \in lost => s \in lost'
      BY <1>6 DEF CreateFail
    <3> QED
      BY <1>6, <2>1, <3>1, <3>2 DEF CreateFail, Kept, Saved, BeingWritten, handler,
         shared
  <2> QED
    BY <1>6, <2>1 DEF CreateFail, Fresh, handler, shared
<1> QED
  BY <1>1, <1>2, <1>4, <1>5, <1>6 DEF InputNext

LEMMA FreshInvariant == Spec => []Fresh
<1>1. Init => Fresh
  BY DEF Init, Fresh, Kept, Saved
<1>2. TypeOK /\ ControlInv /\ Fresh /\ [Next]_vars => Fresh'
  <2> SUFFICES ASSUME TypeOK, ControlInv, Fresh, [Next]_vars PROVE Fresh'
    OBVIOUS
  <2>1. CASE UNCHANGED vars
    BY <2>1 DEF vars, handler, shared, main, storage, Fresh, Kept, Saved, BeingWritten
  <2> QED
    BY <2>1, HandlerFresh, SaveFresh, InputFresh DEF Next, MainNext
<1> QED
  BY <1>1, <1>2, TypeCorrect, ControlInvInvariant, PTL DEF Spec

\* The file of a card the console has not written to since it was inserted is
\* left as it is, whatever slots of the card before it are still to be flushed.
THEOREM FreshCardUnchangedHolds == Spec => FreshCardUnchanged
<1>1. ASSUME TypeOK, ControlInv, Fresh, [Next]_vars, flag_byte, mpc # "change",
             NEW s \in Sectors \ lost
      PROVE  store'[mc_file_name][s] = store[mc_file_name][s]
  <2>1. mpc # "sync" /\ Kept(s)
    BY <1>1 DEF Fresh
  <2>2. ASSUME NEW i \in Slots, FlushSlot(i) \/ FlushHang(i)
        PROVE  store'[mc_file_name][s] = store[mc_file_name][s]
    <3>1. mpc = "slots" /\ i \in out_of_sync
      BY <2>2 DEF FlushSlot, FlushHang, FirstSlot
    <3>2. pc = "top"
      BY <1>1, <3>1, BuildAssumption DEF ControlInv, Phases, OneAtATime
    <3>3. store[mc_file_name][s] = mc_data[s]
      BY <1>1, <2>1, <3>2 DEF Kept, Saved, BeingWritten, Unqueued
    <3> QED
      BY <1>1, <2>2, <3>3 DEF FlushSlot, FlushHang, WriteSlot, TypeOK, Card
  <2>3. CASE HandlerNext \/ SelRise
    BY <2>3 DEF HandlerNext, WriteCmd, WriteEnter, WriteAddress, WriteData,
       WriteAcked, WriteQueue, WriteStatus, PadRead, SelRise, storage
  <2>4. CASE SaveNext \/ Tick
    BY <2>1, <2>2, <2>4 DEF SaveNext, LoopHead, Dequeue, SyncCopy, SyncDone, SyncFail,
       SyncMark, Drained, TryFlush, FlushEnd, Tick, storage
  <2>5. CASE InputNext
    BY <1>1, <2>5 DEF InputNext, NoChange, EndOfList, ChooseNew, Lock,
       DrainedForChange, Reconnect, Choose, Switch, Create, CreateFail, storage
  <2>6. CASE UNCHANGED vars
    BY <2>6 DEF vars, storage
  <2> QED
    BY <1>1, <2>3, <2>4, <2>5, <2>6 DEF Next, MainNext
<1>2. TypeOK /\ ControlInv /\ Fresh /\ [Next]_vars
      => [flag_byte /\ mpc # "change" =>
             \A s \in Sectors \ lost :
                 store'[mc_file_name][s] = store[mc_file_name][s]]_vars
  BY <1>1
<1> QED
  BY <1>2, TypeCorrect, ControlInvInvariant, FreshInvariant, PTL
  DEF FreshCardUnchanged, Spec
=============================================================================
