------------------------- MODULE UsbTransfer_proofs -------------------------
(* The safety invariants of UsbTransfer, for any number of images and files, *)
(* with power cuts and errors of littlefs or without.                        *)
EXTENDS UsbTransfer, FiniteSetTheorems, TLAPS

-----------------------------------------------------------------------------
(* What Untouched rests on. *)

\* While an image or a request is copied, entry is at the file it comes from.
Positions ==
    /\ task \in {"create", "write"} =>
          entry \in 1 .. Len(upload) /\ IsImage(upload[entry])
    /\ task \in {"meta_create", "meta_write"} =>
          entry \in 1 .. Len(download) /\ IsSlot(download[entry])

\* Whatever may be copied from the UPLOAD folder was named by the PC.
Named == \A i \in 1 .. Len(upload) :
            upload[i].name \in Slots => upload[i].name \in touched

\* A flash that was never formatted holds nothing of the user's.
FirstUse == ~formatted => touched = Slots

UsbInv == TypeOK /\ Positions /\ Named /\ FirstUse /\ Untouched

-----------------------------------------------------------------------------
(* Sets and records. *)

LEMMA Numbering ==
    /\ 0 \in Names /\ NoRequest \in 1 .. EmptyFile /\ EmptyFile \in 1 .. EmptyFile
    /\ \A n \in Names : n > 0 => n \in 1 .. EmptyFile
    /\ \A n \in 1 .. EmptyFile : n # NoRequest /\ n # EmptyFile => n \in Names
    /\ \A n \in Names : IsSlot(n) => n \in Slots
    /\ 1 \in 1 .. MaxFiles + 1
BY UsbTransferAssumption DEF Names, NoRequest, EmptyFile, IsSlot, Slots

LEMMA Images ==
    /\ [size |-> "empty", data |-> Blank] \in Image
    /\ [size |-> "exact", data |-> Blank] \in Image
    /\ [size |-> "long", data |-> Blank] \in Image
    /\ \A f \in FatFile : [size |-> "short", data |-> f.data] \in Image
    /\ \A f \in FatFile : f.size # "short" => [size |-> f.size, data |-> f.data] \in Image
    /\ PCFiles \subseteq FatFile
BY UsbTransferAssumption DEF Image, Data, FatFile

\* A new image gets a number there is room for.
LEMMA NextNumber ==
    ASSUME NEW S \in SUBSET Slots
    PROVE  Cardinality(S) \in Nat
<1>1. IsFiniteSet(1 .. MAX_MC_IMAGES)
  BY FS_Interval, UsbTransferAssumption
<1>2. IsFiniteSet(S)
  BY <1>1, FS_Subset DEF Slots
<1> QED
  BY <1>2, FS_CardinalityType

\* Folders without files, no request.
LEMMA Nothing ==
    /\ <<>> \in Seq(FatFile) /\ <<>> \in Seq(Names)
    /\ Len(<<>>) = 0 /\ 0 <= MaxFiles /\ 0 <= 1
    /\ 0 \in 0 .. MaxName
BY UsbTransferAssumption

\* The disk that is built holds one image at most.
LEMMA Copied ==
    ASSUME TypeOK, NEW n \in Names
    PROVE  InRoot(n) \in Seq(FatFile) /\ Len(InRoot(n)) <= 1
<1>1. CASE n \notin DOMAIN lfs
  BY <1>1 DEF InRoot
<1>2. CASE n \in DOMAIN lfs
  <2> DEFINE f == [name |-> n, data |-> lfs[n].data,
                   size |-> IF lfs[n].size = "empty" THEN "short" ELSE lfs[n].size]
  <2>1. lfs[n] \in Image
    BY <1>2 DEF TypeOK
  <2>2. f \in FatFile
    BY <2>1 DEF Image, FatFile
  <2>3. InRoot(n) = <<f>>
    BY <1>2 DEF InRoot
  <2> HIDE DEF f
  <2> QED
    BY <2>2, <2>3
<1> QED
  BY <1>1, <1>2

LEMMA Built ==
    ASSUME TypeOK, CreateFatFs
    PROVE  /\ root' \in Seq(FatFile) /\ Len(root') <= 1
           /\ upload' = <<>> /\ download' = <<>> /\ fat' = TRUE
           /\ metadata' = NoRequest /\ wanted' = 0 /\ import_lfs_completed' = TRUE
           /\ played' = FALSE
<1>1. \A n \in Requested : n \in Names
  BY Numbering DEF Requested, TypeOK
<1>2. CASE Requested = {}
  BY <1>2 DEF CreateFatFs
<1>3. ASSUME NEW n \in Requested, root' = InRoot(n)
      PROVE  root' \in Seq(FatFile) /\ Len(root') <= 1
  BY <1>1, <1>3, Copied
<1> QED
  BY <1>2, <1>3 DEF CreateFatFs

\* A file torn by "new" keeps its name and its size.
LEMMA TornFileType ==
    ASSUME NEW f \in FatFile
    PROVE  TornFile(f) \in FatFile /\ TornFile(f).name = f.name
BY DEF TornFile, FatFile, Data

-----------------------------------------------------------------------------
(* Type correctness. *)

\* An image put in place of another.
LEMMA StoredType ==
    ASSUME TypeOK, NEW n \in Slots, NEW image \in Image, Stored(n, image)
    PROVE  DOMAIN lfs' \subseteq Slots /\ \A m \in DOMAIN lfs' : lfs'[m] \in Image
BY DEF Stored, TypeOK

\* The PC and the user, while nothing is copied.
LEMMA IdleTypeOK ==
    ASSUME TypeOK,
           \/ Boot \/ PowerOff \/ Mount \/ Load \/ Eject \/ Umount
           \/ \E sim \in BOOLEAN : Simulate(sim)
           \/ \E f \in PCFiles : PutUpload(f)
           \/ \E n \in Names : PutDownload(n)
           \/ CommandNew \/ CommandMc \/ CommandFormat
    PROVE  TypeOK'
<1> USE Numbering, Images, Nothing
<1>1. CASE Boot
  BY <1>1 DEF Boot, TypeOK, copying, disk, ghosts, requests
<1>2. CASE PowerOff
  BY <1>2 DEF PowerOff, TypeOK, flash
<1>3. CASE Mount
  BY <1>3, Built DEF Mount, TypeOK, copying
<1>4. CASE Load
  BY <1>4, Built DEF Load, TypeOK, copying
<1>5. CASE Eject
  BY <1>5 DEF Eject, StartSync, Names, TypeOK, flash, disk
<1>6. CASE Umount
  BY <1>6 DEF Umount, StartSync, Names, TypeOK, flash, usb, disk
<1>7. ASSUME NEW sim \in BOOLEAN, Simulate(sim) PROVE TypeOK'
  <2>1. 1 \in Slots
    BY UsbTransferAssumption DEF Slots
  <2>2. DOMAIN lfs' \subseteq Slots /\ \A m \in DOMAIN lfs' : lfs'[m] \in Image
    BY <1>7, <2>1, StoredType DEF Simulate, TypeOK
  <2>3. touched' \subseteq Slots
    BY <1>7, <2>1 DEF Simulate, TypeOK
  <2> QED
    BY <1>7, <2>2, <2>3 DEF Simulate, TypeOK, copying
<1>8. ASSUME NEW f \in PCFiles, PutUpload(f) PROVE TypeOK'
  <2>1. upload' \in Seq(FatFile) /\ Len(upload') <= MaxFiles
    BY <1>8, UsbTransferAssumption DEF PutUpload, CanHold, TypeOK
  <2>2. touched' \subseteq Slots
    BY <1>8 DEF PutUpload, TypeOK
  <2> QED
    BY <1>8, <2>1, <2>2 DEF PutUpload, TypeOK, flash, usb, copying, requests
<1>9. ASSUME NEW n \in Names, PutDownload(n) PROVE TypeOK'
  <2>1. download' \in Seq(Names) /\ Len(download') <= MaxFiles
    BY <1>9, UsbTransferAssumption DEF PutDownload, TypeOK
  <2> QED
    BY <1>9, <2>1 DEF PutDownload, TypeOK, flash, usb, copying, ghosts, requests
<1>10. CASE CommandNew
  <2> DEFINE n == Cardinality(DOMAIN lfs) + 1
             image == [size |-> IF n \in DOMAIN lfs /\ lfs[n].size = "long"
                                THEN "long" ELSE "exact", data |-> Blank]
  <2>1. n \in Slots
    <3>1. Cardinality(DOMAIN lfs) \in Nat
      BY NextNumber DEF TypeOK
    <3>2. n <= MAX_MC_IMAGES
      BY <1>10 DEF CommandNew
    <3> HIDE DEF image
    <3> QED
      BY <3>1, <3>2, UsbTransferAssumption DEF Slots
  <2>2. image \in Image
    OBVIOUS
  <2>3. lfs' = [m \in DOMAIN lfs \cup {n} |-> IF m = n THEN image ELSE lfs[m]]
    BY <1>10 DEF CommandNew, Stored
  <2>4. DOMAIN lfs' \subseteq Slots /\ \A m \in DOMAIN lfs' : lfs'[m] \in Image
    <3> HIDE DEF n, image
    <3> QED BY <2>1, <2>2, <2>3 DEF TypeOK
  <2>5. /\ upload' \in Seq(FatFile) /\ Len(upload') = Len(upload)
        /\ root' \in Seq(FatFile) /\ Len(root') = Len(root)
    BY <1>10, SMTT(30), TornFileType DEF CommandNew, TornFiles, TypeOK
  <2>6. touched' \subseteq Slots
    BY <1>10, <2>1 DEF CommandNew, TypeOK
  <2> QED
    BY <1>10, <2>4, <2>5, <2>6 DEF CommandNew, TypeOK, usb, copying, requests
<1>11. CASE CommandMc
  BY <1>11 DEF CommandMc, TypeOK, flash, usb, copying, ghosts, requests
<1>12. CASE CommandFormat
  <2>1. DOMAIN lfs' \subseteq Slots /\ \A m \in DOMAIN lfs' : lfs'[m] \in Image
    BY <1>12 DEF CommandFormat, NoImages
  <2>2. wanted' \in 0 .. MaxName /\ touched' \subseteq Slots
    BY <1>12 DEF CommandFormat
  <2> QED
    BY <1>12, <2>1, <2>2 DEF CommandFormat, TypeOK, usb, copying, disk
<1> QED
  BY <1>1, <1>2, <1>3, <1>4, <1>5, <1>6, <1>7, <1>8, <1>9, <1>10, <1>11, <1>12

\* The firmware, copying.
LEMMA CopyTypeOK ==
    ASSUME TypeOK, Positions,
           \/ UploadEnd \/ UploadRefused \/ UploadRemove \/ UploadCreate
           \/ UploadWrite \/ UploadUnsaved \/ UploadFail
           \/ DownloadSkip \/ MetaRemove \/ MetaCreate \/ MetaWrite \/ MetaFail
           \/ MetaMountFail \/ DownloadEnd
    PROVE  TypeOK'
<1> USE Numbering, Images, UsbTransferAssumption
<1>0. /\ entry \in 1 .. Len(upload) =>
            entry + 1 \in 1 .. MaxFiles + 1 /\ upload[entry] \in FatFile
      /\ entry \in 1 .. Len(download) =>
            entry + 1 \in 1 .. MaxFiles + 1 /\ download[entry] \in Names
  BY DEF TypeOK
<1>1. CASE UploadEnd
  BY <1>1 DEF UploadEnd, EndSync, TypeOK, flash, disk, ghosts, requests
<1>2. CASE UploadRefused
  BY <1>2 DEF UploadRefused, EndSync, AfterRefusal, TypeOK, flash, disk, ghosts, requests
<1>3. CASE UploadRemove
  BY <1>3 DEF UploadRemove, TypeOK, usb, disk, ghosts, requests
<1>4. CASE UploadCreate
  <2>1. DOMAIN lfs' \subseteq Slots /\ \A m \in DOMAIN lfs' : lfs'[m] \in Image
    BY <1>4, <1>0, StoredType
       DEF UploadCreate, Positions, IsImage, IsSlot, StoredName, FatFile, Names, Slots
  <2> QED
    BY <1>4, <2>1 DEF UploadCreate, TypeOK, usb, disk, ghosts, requests
<1>5. CASE UploadWrite
  <2>1. upload[entry].name \in Slots /\ upload[entry].size # "short"
    BY <1>5, <1>0 DEF UploadWrite, Positions, IsImage, FatFile
  <2>2. DOMAIN lfs' \subseteq Slots /\ \A m \in DOMAIN lfs' : lfs'[m] \in Image
    BY <1>5, <1>0, <2>1, StoredType DEF UploadWrite, Positions, StoredName
  <2> QED
    BY <1>5, <1>0, <2>2 DEF UploadWrite, Positions, TypeOK, usb, disk, ghosts, requests
<1>6. CASE UploadUnsaved \/ UploadFail
  <2>1. ASSUME task = "write",
               Stored(StoredName(upload[entry]),
                      [size |-> "short", data |-> upload[entry].data])
        PROVE  DOMAIN lfs' \subseteq Slots /\ \A m \in DOMAIN lfs' : lfs'[m] \in Image
    <3>1. upload[entry].name \in Slots
      BY <2>1, <1>0 DEF Positions, IsImage, FatFile
    <3> QED
      BY <2>1, <1>0, <3>1, StoredType DEF Positions, StoredName
  <2>2. \/ UNCHANGED lfs
        \/ /\ task = "write"
           /\ Stored(StoredName(upload[entry]),
                     [size |-> "short", data |-> upload[entry].data])
    BY <1>6 DEF UploadUnsaved, UploadFail, LeftPartly
  <2>3. DOMAIN lfs' \subseteq Slots /\ \A m \in DOMAIN lfs' : lfs'[m] \in Image
    BY <2>1, <2>2 DEF TypeOK
  <2>4. CASE UploadUnsaved
    <3>1. failed' \subseteq Names
      BY <2>4, <1>0 DEF UploadUnsaved, Positions, FatFile, TypeOK
    <3> QED
      BY <2>3, <2>4, <1>0, <3>1 DEF UploadUnsaved, Positions, TypeOK, usb, disk, requests
  <2>5. CASE UploadFail
    BY <2>3, <2>5 DEF UploadFail, EndSync, AfterRefusal, TypeOK, disk, requests
  <2> QED
    BY <1>6, <2>4, <2>5
<1>7. CASE DownloadSkip
  BY <1>7, <1>0 DEF DownloadSkip, TypeOK, flash, usb, disk, ghosts, requests
<1>8. CASE MetaRemove
  BY <1>8 DEF MetaRemove, TypeOK, usb, disk, ghosts, requests
<1>9. CASE MetaCreate
  BY <1>9 DEF MetaCreate, TypeOK, usb, disk, ghosts, requests
<1>10. CASE MetaWrite
  <2>1. metadata' \in 1 .. EmptyFile
    BY <1>10, <1>0 DEF MetaWrite, Positions, IsSlot
  <2> QED
    BY <1>10, <1>0, <2>1 DEF MetaWrite, Positions, TypeOK, usb, disk, ghosts, requests
<1>11. CASE MetaFail
  BY <1>11, <1>0 DEF MetaFail, Positions, TypeOK, flash, usb, disk
<1>12. CASE DownloadEnd
  BY <1>12 DEF DownloadEnd, EndSync, TypeOK, flash, disk, requests
<1>13. CASE MetaMountFail
  BY <1>13, Nothing DEF MetaMountFail, EndSync, TypeOK, flash, disk
<1> QED
  BY <1>1, <1>2, <1>3, <1>4, <1>5, <1>6, <1>7, <1>8, <1>9, <1>10, <1>11, <1>12, <1>13

-----------------------------------------------------------------------------
(* The other conjuncts. *)

\* entry is only read while the folders stay as they are.
LEMMA PositionsKept ==
    ASSUME TypeOK, Positions, Next
    PROVE  Positions'
<1> USE DEF Positions, Polling
<1>1. CASE Boot \/ PowerOff \/ Mount \/ Load \/ Eject \/ Umount
  BY <1>1 DEF Boot, PowerOff, Mount, Load, Eject, Umount, StartSync, copying, disk
<1>2. ASSUME NEW sim \in BOOLEAN, Simulate(sim) PROVE Positions'
  BY <1>2 DEF Simulate, copying
<1>3. ASSUME NEW f \in PCFiles, PutUpload(f) PROVE Positions'
  BY <1>3 DEF PutUpload, Ready, copying
<1>4. ASSUME NEW n \in Names, PutDownload(n) PROVE Positions'
  BY <1>4 DEF PutDownload, Ready, copying
<1>5. CASE UploadEnd \/ UploadRefused \/ UploadFail \/ MetaMountFail \/ DownloadEnd
  BY <1>5 DEF UploadEnd, UploadRefused, UploadFail, MetaMountFail, DownloadEnd, EndSync,
              AfterRefusal
<1>6. CASE UploadRemove \/ UploadCreate \/ UploadWrite \/ UploadUnsaved
  BY <1>6 DEF UploadRemove, UploadCreate, UploadWrite, UploadUnsaved, disk, TypeOK
<1>7. CASE DownloadSkip \/ MetaRemove \/ MetaCreate \/ MetaWrite \/ MetaFail
  BY <1>7 DEF DownloadSkip, MetaRemove, MetaCreate, MetaWrite, MetaFail, disk, TypeOK
<1>8. CASE CommandNew \/ CommandMc \/ CommandFormat
  BY <1>8 DEF CommandNew, CommandMc, CommandFormat, copying
<1> QED
  BY <1>1, <1>2, <1>3, <1>4, <1>5, <1>6, <1>7, <1>8 DEF Next

\* The firmware never renames a file of the PC.
LEMMA NamedKept ==
    ASSUME TypeOK, Named, Next
    PROVE  Named'
<1> USE DEF Named
<1>1. CASE Boot \/ Eject \/ Umount
  BY <1>1 DEF Boot, Eject, Umount, disk, ghosts, requests
<1>2. CASE PowerOff
  BY <1>2 DEF PowerOff
<1>3. CASE Mount \/ Load
  <2>1. upload' = <<>>
    BY <1>3 DEF Mount, Load, CreateFatFs
  <2> QED
    BY <2>1, Nothing
<1>4. ASSUME NEW sim \in BOOLEAN, Simulate(sim) PROVE Named'
  BY <1>4 DEF Simulate
<1>5. ASSUME NEW f \in PCFiles, PutUpload(f) PROVE Named'
  <2>1. upload \in Seq(FatFile) /\ f \in FatFile
    BY Images DEF TypeOK
  <2> QED
    BY <1>5, <2>1 DEF PutUpload
<1>6. ASSUME NEW n \in Names, PutDownload(n) PROVE Named'
  BY <1>6 DEF PutDownload, ghosts, requests
<1>7. CASE UploadEnd \/ UploadRefused \/ UploadFail \/ MetaMountFail \/ DownloadEnd
  BY <1>7 DEF UploadEnd, UploadRefused, UploadFail, MetaMountFail, DownloadEnd, disk,
              ghosts, requests
<1>8. CASE UploadRemove \/ UploadCreate \/ UploadWrite \/ UploadUnsaved
  BY <1>8 DEF UploadRemove, UploadCreate, UploadWrite, UploadUnsaved, disk, ghosts, requests
<1>9. CASE DownloadSkip \/ MetaRemove \/ MetaCreate \/ MetaWrite \/ MetaFail
  BY <1>9 DEF DownloadSkip, MetaRemove, MetaCreate, MetaWrite, MetaFail, disk, ghosts, requests
<1>10. CASE CommandNew
  <2>1. \A i \in 1 .. Len(upload) : TornFile(upload[i]).name = upload[i].name
    BY TornFileType DEF TypeOK
  <2>2. upload' = [i \in 1 .. Len(upload) |-> TornFile(upload[i])]
    BY <1>10 DEF CommandNew, TornFiles
  <2>3. Len(upload) \in Nat
    BY DEF TypeOK
  <2>4. Len(upload') = Len(upload)
    BY <2>2, <2>3
  <2>5. touched \subseteq touched'
    BY <1>10 DEF CommandNew
  <2> QED
    BY <2>1, <2>2, <2>4, <2>5
<1>11. CASE CommandMc
  BY <1>11 DEF CommandMc
<1>12. CASE CommandFormat
  BY <1>12 DEF CommandFormat, disk
<1> QED
  BY <1>1, <1>2, <1>3, <1>4, <1>5, <1>6, <1>7, <1>8, <1>9, <1>10, <1>11, <1>12 DEF Next

\* Steps that write no image, and format nothing.
LEMMA Untouching ==
    ASSUME FirstUse, Untouched, formatted' = formatted, lfs' = lfs,
           touched \subseteq touched', TypeOK'
    PROVE  FirstUse' /\ Untouched'
BY DEF FirstUse, Untouched, TypeOK

\* What a failing upload writes, it writes while it copies the data.
LEMMA FailsSomewhere ==
    ASSUME UploadFail
    PROVE  UNCHANGED lfs \/ task = "write"
BY DEF UploadFail

\* Images are written where the PC or the user asked for it.
LEMMA UntouchedKept ==
    ASSUME UsbInv, Next, TypeOK'
    PROVE  FirstUse' /\ Untouched'
<1> USE DEF UsbInv
<1>1. CASE Boot
  BY <1>1, UsbTransferAssumption DEF Boot, FirstUse, Untouched, TypeOK, ghosts, requests
<1>2. CASE PowerOff \/ Mount \/ Load \/ Eject \/ Umount
  BY <1>2, Untouching DEF PowerOff, Mount, Load, Eject, Umount, StartSync, flash
<1>3. ASSUME NEW sim \in BOOLEAN, Simulate(sim) PROVE FirstUse' /\ Untouched'
  <2>1. /\ formatted' = formatted /\ touched \subseteq touched'
        /\ \A m \in DOMAIN lfs : m \in DOMAIN lfs' /\ lfs'[m] = lfs[m]
    BY <1>3 DEF Simulate, Stored
  <2>2. touched' \subseteq Slots
    BY DEF TypeOK
  <2> QED
    BY <2>1, <2>2 DEF FirstUse, Untouched
<1>4. ASSUME NEW f \in PCFiles, PutUpload(f) PROVE FirstUse' /\ Untouched'
  BY <1>4, Untouching DEF PutUpload, flash
<1>5. ASSUME NEW n \in Names, PutDownload(n) PROVE FirstUse' /\ Untouched'
  BY <1>5, Untouching DEF PutDownload, flash, ghosts, requests
<1>6. CASE \/ UploadEnd \/ UploadRefused \/ MetaMountFail \/ DownloadEnd
           \/ UploadFail /\ UNCHANGED lfs
  BY <1>6, Untouching
     DEF UploadEnd, UploadRefused, UploadFail, MetaMountFail, DownloadEnd, flash, ghosts,
         requests
<1>7. CASE \/ UploadRemove \/ UploadCreate \/ UploadWrite \/ UploadUnsaved
           \/ UploadFail /\ task = "write"
  <2>1. StoredName(upload[entry]) \in touched
    <3>1. entry \in 1 .. Len(upload) /\ IsImage(upload[entry])
      BY <1>7 DEF UploadRemove, UploadCreate, UploadWrite, UploadUnsaved, Positions, TypeOK
    <3>2. upload[entry] \in FatFile
      BY <3>1 DEF TypeOK
    <3>3. upload[entry].name \in Slots
      BY <3>1, <3>2, Numbering DEF IsImage, FatFile
    <3> QED
      BY <3>1, <3>3 DEF Named, StoredName
  <2>2. formatted' = formatted /\ touched' = touched
    BY <1>7 DEF UploadRemove, UploadCreate, UploadWrite, UploadUnsaved, UploadFail, ghosts,
                requests
  <2>3. \A n \in DOMAIN lfs : n # StoredName(upload[entry]) =>
            n \in DOMAIN lfs' /\ lfs'[n] = lfs[n]
    BY <1>7 DEF UploadRemove, UploadCreate, UploadWrite, UploadUnsaved, UploadFail,
                LeftPartly, Stored
  <2> QED
    BY <2>1, <2>2, <2>3 DEF FirstUse, Untouched
<1>8. CASE DownloadSkip \/ MetaRemove \/ MetaCreate \/ MetaWrite \/ MetaFail
  BY <1>8, Untouching
     DEF DownloadSkip, MetaRemove, MetaCreate, MetaWrite, MetaFail, flash, ghosts, requests
<1>9. CASE CommandNew
  <2> DEFINE n == Cardinality(DOMAIN lfs) + 1
  <2>1. formatted' = formatted /\ touched' = touched \cup {n}
    BY <1>9 DEF CommandNew
  <2>2. \A m \in DOMAIN lfs : m # n => m \in DOMAIN lfs' /\ lfs'[m] = lfs[m]
    BY <1>9 DEF CommandNew, Stored
  <2> HIDE DEF n
  <2> QED
    BY <2>1, <2>2 DEF FirstUse, Untouched, TypeOK
<1>10. CASE CommandMc
  BY <1>10, Untouching DEF CommandMc, flash, ghosts, requests
<1>11. CASE CommandFormat
  BY <1>11, UsbTransferAssumption DEF CommandFormat, FirstUse, Untouched
<1> QED
  <2>1. UploadFail =>
            (UploadFail /\ UNCHANGED lfs) \/ (UploadFail /\ task = "write")
    BY FailsSomewhere
  <2> QED
    BY <1>1, <1>2, <1>3, <1>4, <1>5, <1>6, <1>7, <1>8, <1>9, <1>10, <1>11, <2>1 DEF Next

-----------------------------------------------------------------------------
(* The theorems. *)

LEMMA UsbInvInit == Init => UsbInv
<1> SUFFICES ASSUME Init PROVE UsbInv
  OBVIOUS
<1> USE Numbering, Nothing, UsbTransferAssumption
<1>1. TypeOK
  BY DEF Init, TypeOK, NoImages
<1>2. Positions /\ Named /\ FirstUse /\ Untouched
  BY DEF Init, Positions, Named, FirstUse, Untouched
<1> QED
  BY <1>1, <1>2 DEF UsbInv

LEMMA UsbInvNext == UsbInv /\ [Next]_vars => UsbInv'
<1> SUFFICES ASSUME UsbInv, [Next]_vars PROVE UsbInv'
  OBVIOUS
<1>1. CASE Next
  <2>1. TypeOK'
    BY <1>1, IdleTypeOK, CopyTypeOK DEF UsbInv, Next
  <2>2. Positions' /\ Named'
    BY <1>1, PositionsKept, NamedKept DEF UsbInv
  <2>3. FirstUse' /\ Untouched'
    BY <1>1, <2>1, UntouchedKept
  <2> QED
    BY <2>1, <2>2, <2>3 DEF UsbInv
<1>2. CASE UNCHANGED vars
  <2>1. TypeOK'
    BY <1>2 DEF UsbInv, TypeOK, vars, flash, usb, copying, disk, ghosts, requests
  <2>2. Positions' /\ Named' /\ FirstUse' /\ Untouched'
    BY <1>2 DEF UsbInv, Positions, Named, FirstUse, Untouched,
                vars, flash, usb, copying, disk, ghosts, requests
  <2> QED
    BY <2>1, <2>2 DEF UsbInv
<1> QED
  BY <1>1, <1>2

\* What is copied between the disk and littlefs stays within the folders, the
\* images and the one request there is room for, at whatever moment the PC
\* ejects and the power goes (flash_wrapper.c).
THEOREM UsbTypeCorrect == Spec => []TypeOK
<1>1. UsbInv => TypeOK
  BY DEF UsbInv
<1> QED
  BY <1>1, UsbInvInit, UsbInvNext, PTL DEF Spec

\* RAM_disk_sync_LFS_from_FatFs and the serial commands change no image but
\* those the PC or the user named, with any number of images and files, and
\* with power lost and littlefs failing at any moment.
THEOREM UntouchedInvariant == Spec => []Untouched
<1>1. UsbInv => Untouched
  BY DEF UsbInv
<1> QED
  BY <1>1, UsbInvInit, UsbInvNext, PTL DEF Spec

-----------------------------------------------------------------------------
(* What the PC is promised: uploads arrive, requests are served. *)

\* Files in UPLOAD that are images have different numbers.
Distinct ==
    \A i, j \in 1 .. Len(upload) :
        i # j /\ upload[i].name # 0 => upload[i].name # upload[j].name

\* The files the iteration has left behind are stored whole, but for errors it
\* did not notice.
StoredWhole(f) ==
    f.name \in DOMAIN lfs /\ lfs[f.name] = [size |-> f.size, data |-> f.data]
Arrived ==
    task \in {"upload", "create", "write"} =>
        \A i \in 1 .. entry - 1 : upload[i].name \in failed \/ StoredWhole(upload[i])

\* The entries of DOWNLOAD still to be visited; the last request among them is
\* the one wanted, or else RETRIEVE.meta holds it already, if no simulation of a
\* card has used it up.
ToVisit ==
    (IF task \in {"upload", "create", "write"} THEN 1 ELSE entry) .. Len(download)
Noted == metadata = IF played THEN NoRequest ELSE wanted
Asking ==
    wanted # 0 =>
        IF task = "idle" THEN Noted
        ELSE /\ \A i \in ToVisit :
                   Asks(i) /\ (\A j \in i + 1 .. Len(download) : ~Asks(j))
                   => wanted = download[i]
             /\ (\A i \in ToVisit : ~Asks(i)) => Noted
             /\ played => \A i \in ToVisit : ~Asks(i)

CopyInv == UsbInv /\ Distinct /\ Arrived /\ Asking

\* "new" tears files, but leaves their names.
LEMMA NamesKept ==
    ASSUME TypeOK, CommandNew
    PROVE  /\ Len(upload') = Len(upload)
           /\ \A i \in 1 .. Len(upload) : upload'[i].name = upload[i].name
<1>1. \A i \in 1 .. Len(upload) : TornFile(upload[i]).name = upload[i].name
  BY TornFileType DEF TypeOK
<1>2. upload' = [i \in 1 .. Len(upload) |-> TornFile(upload[i])] /\ Len(upload) \in Nat
  BY DEF CommandNew, TornFiles, TypeOK
<1> QED
  BY <1>1, <1>2

LEMMA DistinctKept ==
    ASSUME TypeOK, Distinct, Next
    PROVE  Distinct'
<1>1. CASE upload' = upload
  BY <1>1 DEF Distinct
<1>2. CASE upload' = <<>>
  BY <1>2 DEF Distinct
<1>3. ASSUME NEW f \in PCFiles, PutUpload(f) PROVE Distinct'
  <2> DEFINE u == upload
  <2>1. u \in Seq(FatFile) /\ f \in FatFile /\ upload' = Append(u, f)
    BY <1>3, Images DEF PutUpload, TypeOK
  <2>2. Len(u) \in Nat /\ Len(upload') = Len(u) + 1
        /\ \A i \in 1 .. Len(u) + 1 :
              upload'[i] = IF i = Len(u) + 1 THEN f ELSE u[i]
    BY <2>1
  <2>3. f.name # 0 => \A i \in 1 .. Len(u) : u[i].name # f.name
    BY <1>3 DEF PutUpload, CanHold
  <2> QED
    BY <2>2, <2>3 DEF Distinct
<1>4. CASE CommandNew
  BY <1>4, NamesKept DEF Distinct
<1>5. \/ upload' = upload \/ upload' = <<>> \/ CommandNew
      \/ \E f \in PCFiles : PutUpload(f)
  BY DEF Next, Boot, PowerOff, Mount, Load, CreateFatFs, Eject, Umount, Simulate,
         PutDownload, UploadEnd, UploadRefused, UploadRemove, UploadCreate,
         UploadWrite, UploadUnsaved, UploadFail, DownloadSkip, MetaRemove, MetaCreate,
         MetaWrite, MetaFail, MetaMountFail, DownloadEnd, CommandMc, CommandFormat, disk
<1> QED
  BY <1>1, <1>2, <1>3, <1>4, <1>5

\* Steps of the PC and the user begin no copy but at its first entry.
LEMMA OutsideCopy ==
    ASSUME \/ Boot \/ PowerOff \/ Mount \/ Load \/ Eject \/ Umount
           \/ \E sim \in BOOLEAN : Simulate(sim)
           \/ \E f \in PCFiles : PutUpload(f)
           \/ \E n \in Names : PutDownload(n)
           \/ CommandNew \/ CommandMc \/ CommandFormat
    PROVE  \/ Boot /\ UNCHANGED <<task, entry, upload, download, lfs, metadata, ghosts>>
           \/ task' = "idle"
           \/ Eject \/ Umount
BY DEF PowerOff, Mount, Load, Simulate, PutUpload, PutDownload, CommandNew, CommandMc,
       CommandFormat, Boot, Ready, Polling, copying, disk, ghosts, requests

LEMMA ArrivedKept ==
    ASSUME UsbInv, Distinct, Arrived, Next
    PROVE  Arrived'
<1>1. CASE \/ Boot \/ PowerOff \/ Mount \/ Load \/ Eject \/ Umount
           \/ \E sim \in BOOLEAN : Simulate(sim)
           \/ \E f \in PCFiles : PutUpload(f)
           \/ \E n \in Names : PutDownload(n)
           \/ CommandNew \/ CommandMc \/ CommandFormat
  <2>1. CASE Eject \/ Umount
    BY <2>1 DEF Eject, Umount, StartSync, Arrived
  <2> QED
    BY <1>1, <2>1, OutsideCopy DEF Arrived, StoredWhole, ghosts
<1>2. CASE \/ UploadEnd \/ UploadRefused \/ UploadFail \/ DownloadSkip \/ MetaRemove
           \/ MetaCreate \/ MetaWrite \/ MetaFail \/ MetaMountFail \/ DownloadEnd
  BY <1>2 DEF UploadEnd, UploadRefused, UploadFail, DownloadSkip, MetaRemove,
              MetaCreate, MetaWrite, MetaFail, MetaMountFail, DownloadEnd, EndSync,
              AfterRefusal, Arrived
<1>3. CASE UploadRemove \/ UploadCreate \/ UploadWrite \/ UploadUnsaved
  <2>0. PICK k : k = entry
    OBVIOUS
  <2> DEFINE f == upload[k]
  <2>1. entry \in 1 .. Len(upload) /\ IsImage(f) /\ Len(upload) \in Nat
    BY <1>3, <2>0
       DEF UploadRemove, UploadCreate, UploadWrite, UploadUnsaved, UsbInv, Positions, TypeOK
  <2>2. upload \in Seq(FatFile) /\ f \in FatFile
    BY <2>0, <2>1 DEF UsbInv, TypeOK
  <2>3. f.name # 0
    BY <2>1, <2>2 DEF IsImage, IsSlot
  <2>4. \A i \in 1 .. entry - 1 :
            upload[i].name # f.name /\ (upload[i].name \in failed \/ StoredWhole(upload[i]))
    BY <1>3, <2>0, <2>1, <2>3
       DEF UploadRemove, UploadCreate, UploadWrite, UploadUnsaved, Distinct, Arrived
  <2>5. upload' = upload /\ failed \subseteq failed'
    BY <1>3 DEF UploadRemove, UploadCreate, UploadWrite, UploadUnsaved, disk, ghosts
  <2>6. \A n \in DOMAIN lfs : n # f.name => n \in DOMAIN lfs' /\ lfs'[n] = lfs[n]
    BY <1>3, <2>0
       DEF UploadRemove, UploadCreate, UploadWrite, UploadUnsaved, LeftPartly, Stored, StoredName
  <2>7. \A i \in 1 .. entry - 1 : (upload[i].name \in failed \/ StoredWhole(upload[i]))'
    BY <2>4, <2>5, <2>6 DEF StoredWhole
  <2>8. CASE UploadRemove \/ UploadCreate
    <3>1. entry' = entry
      BY <2>8 DEF UploadRemove, UploadCreate
    <3> QED
      BY <2>7, <3>1 DEF Arrived
  <2>9. CASE UploadWrite
    <3>1. entry' = entry + 1
      BY <2>9 DEF UploadWrite
    <3>2. StoredWhole(upload[k])'
      BY <2>0, <2>5, <2>9 DEF UploadWrite, Stored, StoredName, StoredWhole
    <3>3. \A i \in 1 .. entry : (upload[i].name \in failed \/ StoredWhole(upload[i]))'
      BY <2>0, <2>1, <2>7, <3>2
    <3> QED
      BY <2>1, <3>1, <3>3 DEF Arrived
  <2>10. CASE UploadUnsaved
    <3>1. entry' = entry + 1 /\ f.name \in failed'
      BY <2>0, <2>10 DEF UploadUnsaved
    <3>2. \A i \in 1 .. entry : (upload[i].name \in failed \/ StoredWhole(upload[i]))'
      BY <2>0, <2>1, <2>5, <2>7, <3>1
    <3> QED
      BY <2>1, <3>1, <3>2 DEF Arrived
  <2> QED
    BY <1>3, <2>8, <2>9, <2>10
<1> QED
  BY <1>1, <1>2, <1>3 DEF Next

\* What an eject is to leave in RETRIEVE.meta.
LEMMA AskingStarts ==
    ASSUME UsbInv, Asking, Eject \/ Umount
    PROVE  Asking'
<1>1. /\ task = "idle" /\ task' = "upload" /\ download' = download
      /\ metadata' = metadata /\ \E n \in Names : Asked(n) /\ wanted' = n
      /\ played' = (played /\ \A i \in 1 .. Len(download) : ~Asks(i))
  BY DEF Eject, Umount, StartSync, Polling, flash, disk
<1>2. Len(download) \in Nat /\ ToVisit' = 1 .. Len(download)
  BY <1>1 DEF ToVisit, UsbInv, TypeOK
<1>3. \A i : Asks(i)' <=> Asks(i)
  BY <1>1 DEF Asks
<1>4. CASE \E i \in 1 .. Len(download) : Asks(i)
  <2>1. PICK i \in 1 .. Len(download) :
           Asks(i) /\ (\A j \in i + 1 .. Len(download) : ~Asks(j)) /\ wanted' = download[i]
    BY <1>1, <1>4 DEF Asked
  <2>2. ASSUME NEW k \in 1 .. Len(download), Asks(k),
               \A j \in k + 1 .. Len(download) : ~Asks(j)
        PROVE  k = i
    BY <1>2, <2>1, <2>2
  <2> QED
    BY <1>1, <1>2, <1>3, <1>4, <2>1, <2>2 DEF Asking, Noted
<1>5. CASE ~ \E i \in 1 .. Len(download) : Asks(i)
  <2>1. wanted' = wanted /\ (played' <=> played)
    BY <1>1, <1>5 DEF Asked
  <2> QED
    BY <1>1, <1>2, <1>3, <1>5, <2>1 DEF Asking, Noted
<1> QED
  BY <1>4, <1>5

LEMMA AskingKept ==
    ASSUME UsbInv, Asking, Next
    PROVE  Asking'
<1>1. CASE Eject \/ Umount
  BY <1>1, AskingStarts
<1>2. CASE wanted' = 0
  BY <1>2 DEF Asking
<1>3. CASE /\ task = "idle" /\ task' = "idle" /\ wanted' = wanted
           /\ \/ UNCHANGED <<metadata, played>>
              \/ metadata' = NoRequest /\ played'
  BY <1>3 DEF Asking, Noted
<1>4. CASE UNCHANGED <<task, entry, download, wanted, played, metadata>>
  BY <1>4 DEF Asking, Noted, ToVisit, Asks
<1>5. CASE UploadEnd \/ UploadRefused \/ UploadFail \/ UploadRemove \/ UploadCreate
           \/ UploadWrite \/ UploadUnsaved
  <2>1. /\ task \in {"upload", "create", "write"}
        /\ UNCHANGED <<download, wanted, played, metadata>>
        /\ \/ task' \in {"upload", "create", "write"}
           \/ task' = "download" /\ entry' = 1
    BY <1>5 DEF UploadEnd, UploadRefused, UploadFail, UploadRemove, UploadCreate,
                UploadWrite, UploadUnsaved, EndSync, AfterRefusal, flash, disk, ghosts, requests
  <2>2. ToVisit' = ToVisit /\ \A i : Asks(i)' <=> Asks(i)
    BY <2>1 DEF ToVisit, Asks
  <2> QED
    BY <2>1, <2>2 DEF Asking, Noted
<1>6. CASE DownloadSkip \/ MetaRemove \/ MetaCreate \/ MetaWrite
  <2>1. /\ task \in {"download", "meta_create", "meta_write"} /\ task' # "idle"
        /\ task' \notin {"upload", "create", "write"}
        /\ UNCHANGED <<download, wanted, played>>
    BY <1>6 DEF DownloadSkip, MetaRemove, MetaCreate, MetaWrite, disk, ghosts, requests
  <2>2. /\ entry \in 1 .. Len(download) /\ Len(download) \in Nat
        /\ ToVisit = entry .. Len(download) /\ ToVisit' = entry' .. Len(download)
    BY <1>6, <2>1 DEF DownloadSkip, MetaRemove, MetaCreate, MetaWrite, UsbInv, Positions,
                      TypeOK, ToVisit
  <2>3. \A i : Asks(i)' <=> Asks(i)
    BY <2>1 DEF Asks
  <2>4. IsSlot(download[entry]) <=> Asks(entry)
    <3>1. download[entry] \in Names
      BY <2>2 DEF UsbInv, TypeOK
    <3> QED
      BY <3>1, UsbTransferAssumption DEF IsSlot, Asks, Slots, Names
  <2>5. CASE DownloadSkip
    <3>1. entry' = entry + 1 /\ ~Asks(entry) /\ metadata' = metadata
      BY <2>4, <2>5 DEF DownloadSkip, flash
    <3>2. \A i \in ToVisit : i = entry \/ i \in ToVisit'
      BY <2>2, <3>1
    <3>3. \A i \in ToVisit' : i \in ToVisit
      BY <2>2, <3>1
    <3> QED
      BY <2>1, <2>3, <3>1, <3>2, <3>3 DEF Asking, Noted
  <2>6. CASE MetaRemove \/ MetaCreate
    <3>1. entry' = entry /\ Asks(entry)
      BY <2>4, <2>6 DEF MetaRemove, MetaCreate, UsbInv, Positions
    <3> QED
      BY <2>1, <2>2, <2>3, <3>1 DEF Asking, Noted
  <2>7. CASE MetaWrite
    <3>1. entry' = entry + 1 /\ Asks(entry) /\ metadata' = download[entry]
      BY <2>4, <2>7 DEF MetaWrite, UsbInv, Positions
    <3>2. \A i \in ToVisit' : i \in ToVisit
      BY <2>2, <3>1
    <3>3. entry \in ToVisit /\ ToVisit' = entry + 1 .. Len(download)
      BY <2>2, <3>1
    <3>4. CASE \A i \in ToVisit' : ~Asks(i)
      <4>1. wanted # 0 => ~played
        BY <2>1, <3>1, <3>3 DEF Asking
      <4>2. \A j \in entry + 1 .. Len(download) : ~Asks(j)
        BY <3>3, <3>4
      <4>3. wanted # 0 => wanted = download[entry]
        BY <2>1, <3>1, <3>3, <4>2 DEF Asking
      <4> QED
        BY <2>1, <2>3, <3>1, <3>2, <3>4, <4>1, <4>3 DEF Asking, Noted
    <3>5. CASE ~ \A i \in ToVisit' : ~Asks(i)
      BY <2>1, <2>3, <3>1, <3>2, <3>5 DEF Asking
    <3> QED
      BY <3>4, <3>5
  <2> QED
    BY <1>6, <2>5, <2>6, <2>7
<1>7. CASE DownloadEnd
  <2>1. /\ task = "download" /\ task' = "idle" /\ entry > Len(download)
        /\ UNCHANGED <<wanted, played, metadata>>
    BY <1>7 DEF DownloadEnd, EndSync, flash, ghosts, requests
  <2>2. ToVisit = {}
    BY <2>1 DEF ToVisit, UsbInv, TypeOK
  <2> QED
    BY <2>1, <2>2 DEF Asking, Noted
<1>8. \/ Eject \/ Umount
      \/ wanted' = 0
      \/ /\ task = "idle" /\ task' = "idle" /\ wanted' = wanted
         /\ \/ UNCHANGED <<metadata, played>>
            \/ metadata' = NoRequest /\ played'
      \/ UNCHANGED <<task, entry, download, wanted, played, metadata>>
      \/ UploadEnd \/ UploadRefused \/ UploadFail \/ UploadRemove \/ UploadCreate
      \/ UploadWrite \/ UploadUnsaved \/ DownloadSkip \/ MetaRemove \/ MetaCreate \/ MetaWrite
      \/ DownloadEnd
  <2>1. CASE \E sim \in BOOLEAN : Simulate(sim)
    BY <2>1 DEF Simulate, Polling, copying
  <2>2. CASE PowerOff
    BY <2>2 DEF PowerOff, flash, UsbInv, TypeOK
  <2>3. CASE ~PowerOff /\ ~ \E sim \in BOOLEAN : Simulate(sim)
    BY <2>3 DEF Next, Boot, Mount, Load, CreateFatFs, PutUpload, PutDownload, MetaFail,
                MetaMountFail, CommandNew, CommandMc, CommandFormat, Ready, Polling,
                flash, usb, copying, disk, ghosts, requests
  <2> QED
    BY <2>1, <2>2, <2>3
<1> QED
  BY <1>1, <1>2, <1>3, <1>4, <1>5, <1>6, <1>7, <1>8

LEMMA CopyInvInit == Init => CopyInv
<1> SUFFICES ASSUME Init PROVE CopyInv
  OBVIOUS
<1>1. Distinct /\ Arrived /\ Asking
  BY DEF Init, Distinct, Arrived, Asking
<1> QED
  BY <1>1, UsbInvInit DEF CopyInv

LEMMA CopyInvNext == CopyInv /\ [Next]_vars => CopyInv'
<1> SUFFICES ASSUME CopyInv, [Next]_vars PROVE CopyInv'
  OBVIOUS
<1>1. UsbInv'
  BY UsbInvNext DEF CopyInv
<1>2. CASE Next
  BY <1>1, <1>2, DistinctKept, ArrivedKept, AskingKept DEF CopyInv, UsbInv
<1>3. CASE UNCHANGED vars
  BY <1>1, <1>3 DEF CopyInv, Distinct, Arrived, StoredWhole, Asking, Noted, ToVisit, Asks,
                    vars, flash, usb, copying, disk, ghosts, requests
<1> QED
  BY <1>2, <1>3

\* The iteration ends behind the last image, at a file that is none, or at one
\* littlefs fails on.
LEMMA ArriveAtEnd ==
    ASSUME CopyInv, [Next]_vars, power' = power,
           task \in {"upload", "create", "write"}, task' \in {"download", "idle"},
           NEW i \in 1 .. Len(upload), \A j \in 1 .. i : Acceptable(upload[j]),
           upload[i].name \notin failed, UploadFail => i < entry
    PROVE  StoredWhole(upload[i])
<1>1. UploadEnd \/ UploadRefused \/ UploadFail
  BY DEF Next, vars, copying, Boot, PowerOff, Mount, Load, Eject, Umount, StartSync,
         Simulate, PutUpload, PutDownload, Ready, Polling, UploadRemove, UploadCreate,
         UploadWrite, UploadUnsaved, DownloadSkip, MetaRemove, MetaCreate, MetaWrite,
         MetaFail, MetaMountFail, DownloadEnd, CommandNew, CommandMc, CommandFormat
<1>2. Len(upload) \in Nat /\ entry \in Nat /\ entry >= 1
  BY DEF CopyInv, UsbInv, TypeOK
<1>3. i < entry
  <2>1. CASE UploadEnd
    BY <1>2, <2>1 DEF UploadEnd
  <2>2. CASE UploadRefused
    <3>1. entry \in 1 .. Len(upload) /\ ~IsImage(upload[entry])
      BY <1>2, <2>2 DEF UploadRefused
    <3>2. upload[entry] \in FatFile
      BY <3>1 DEF CopyInv, UsbInv, TypeOK
    <3>3. ~Acceptable(upload[entry])
      BY <3>1, <3>2, UsbTransferAssumption
         DEF Acceptable, IsImage, IsSlot, Slots, FatFile, Names
    <3> QED
      BY <1>2, <3>1, <3>3
  <2> QED
    BY <1>1, <2>1, <2>2
<1> QED
  BY <1>2, <1>3 DEF CopyInv, Arrived

\* Building the disk is what serves a request.
LEMMA Served ==
    ASSUME CopyInv, [Next]_vars,
           task = "idle", wanted # 0, wanted' = 0, wanted \in DOMAIN lfs, lfs' = lfs
    PROVE  IF played THEN root' = <<>>
           ELSE /\ Len(root') = 1
                /\ root'[1].name = wanted /\ root'[1].data = lfs[wanted].data
<1>1. CreateFatFs
  <2>1. ~(Eject \/ Umount)
    BY DEF Eject, Umount, StartSync, Asked, Asks, Slots
  <2>2. ~CommandFormat
    BY DEF CommandFormat, NoImages
  <2> QED
    BY <2>1, <2>2
       DEF Next, vars, ghosts, requests, Boot, PowerOff, Mount, Load, Simulate, PutUpload,
           PutDownload, UploadEnd, UploadRefused, UploadRemove, UploadCreate,
           UploadWrite, UploadUnsaved, UploadFail, DownloadSkip, MetaRemove, MetaCreate,
           MetaWrite, MetaFail, MetaMountFail, DownloadEnd, CommandNew, CommandMc
<1>2. CASE played
  <2>1. metadata = NoRequest
    BY <1>2 DEF CopyInv, Asking, Noted
  <2>2. Requested = {}
    BY <2>1, UsbTransferAssumption DEF Requested, NoRequest, EmptyFile
  <2> QED
    BY <1>1, <1>2, <2>2 DEF CreateFatFs
<1>3. CASE ~played
  <2>1. metadata = wanted /\ wanted \in 0 .. MaxName
    BY <1>3 DEF CopyInv, Asking, Noted, UsbInv, TypeOK
  <2>2. Requested = {wanted}
    BY <2>1, UsbTransferAssumption DEF Requested, NoRequest, EmptyFile
  <2>3. root' = InRoot(wanted)
    BY <1>1, <2>2 DEF CreateFatFs
  <2>4. root' = <<[name |-> wanted, data |-> lfs[wanted].data,
                   size |-> IF lfs[wanted].size = "empty" THEN "short"
                                                         ELSE lfs[wanted].size]>>
    BY <2>3 DEF InRoot
  <2> QED
    BY <1>3, <2>4
<1> QED
  BY <1>2, <1>3

\* What was copied to the UPLOAD folder is in littlefs under its number, whole,
\* when the folder was gone through, however that ended: all files before the
\* first that is no image or that an error the code notices met, but those an
\* error it ignores met.  For any number of files, and whatever littlefs held
\* (RAM_disk_sync_LFS_from_FatFs, copy_mcr_file_to_lfs).
THEOREM UploadsArriveAtEnd == Spec => UploadsArrive
<1>1. CopyInv /\ [Next]_vars =>
        [(/\ task \in {"upload", "create", "write"} /\ task' \in {"download", "idle"}
          /\ power' = power)
         => \A i \in 1 .. Len(upload) :
               /\ \A j \in 1 .. i : Acceptable(upload[j])
               /\ upload[i].name \notin failed
               /\ UploadFail => i < entry
               => /\ upload[i].name \in DOMAIN lfs
                  /\ lfs[upload[i].name] = [size |-> upload[i].size,
                                           data |-> upload[i].data]]_vars
  BY ArriveAtEnd DEF StoredWhole
<1> QED
  BY <1>1, CopyInvInit, CopyInvNext, PTL DEF Spec, UploadsArrive

\* The last request of an eject is the one in RETRIEVE.meta when the disk is
\* built, and its image is in the root then, with any number of requests and of
\* restarts in between; it is not there, whatever was asked for, once a card was
\* simulated since (create_retrieve_file, RAM_disk_create_FatFs_from_file,
\* simulate_memory_card).
THEOREM RequestsServed == Spec => Retrievable
<1>1. CopyInv /\ [Next]_vars =>
        [(/\ task = "idle" /\ wanted # 0 /\ wanted' = 0
          /\ wanted \in DOMAIN lfs /\ lfs' = lfs)
         => IF played THEN root' = <<>>
            ELSE /\ Len(root') = 1
                 /\ root'[1].name = wanted
                 /\ root'[1].data = lfs[wanted].data]_vars
  BY Served
<1> QED
  BY <1>1, CopyInvInit, CopyInvNext, PTL DEF Spec, Retrievable
=============================================================================
