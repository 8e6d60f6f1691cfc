---------------------------- MODULE UsbTransfer ----------------------------
(***************************************************************************)
(* The device plugged into a PC, flash build: a FAT disk in RAM is built   *)
(* when USB is mounted, the PC copies images to its UPLOAD folder and      *)
(* requests to its DOWNLOAD folder, and on eject the firmware copies the   *)
(* images to littlefs and notes the request in RETRIEVE.meta, to be served *)
(* when the disk is built the next time (flash_wrapper.c).  Around that,   *)
(* the start of the program, the serial commands and the hand-over to the  *)
(* simulation of a card, which takes the RAM (main.c).                     *)
(*                                                                         *)
(* The firmware is one thread: the PC waits while it copies.  littlefs     *)
(* makes an operation permanent as a whole, so that power can be lost      *)
(* between any two of them.                                                *)
(***************************************************************************)
EXTENDS Naturals, Sequences, FiniteSets

CONSTANTS
    MAX_MC_IMAGES,     \* images the flash has room for
    MaxName,           \* bound: the largest number N a PC calls a file N.MCR
    MaxFiles,          \* bound: files the PC puts into a folder
    PCFiles,           \* the files on the PC, with their contents
    Blank,             \* the content of a new image
    Torn,              \* the content of a file that was partly overwritten
    StoredAtFirst,     \* the images of a device that was used before
    PowerCuts,         \* whether power can be lost while the firmware copies
    LfsErrors          \* whether littlefs can fail

\* Names: N for N.MCR; 0 also stands for every file called otherwise.
Names == 0 .. MaxName
Slots == 1 .. MAX_MC_IMAGES
Data == {f.data : f \in PCFiles} \cup {Blank, Torn}
Image == [size : {"empty", "short", "exact", "long"}, data : Data]
FatFile == [name : Names, size : {"short", "exact", "long"}, data : Data]

\* RETRIEVE.meta: the number it holds, or one of these.
NoRequest == MaxName + 1
EmptyFile == MaxName + 2

ASSUME UsbTransferAssumption ==
    /\ MAX_MC_IMAGES \in Nat \ {0} /\ MaxName \in Nat /\ MaxFiles \in Nat
    /\ PCFiles \subseteq FatFile
    /\ DOMAIN StoredAtFirst \subseteq Slots
    /\ \A n \in DOMAIN StoredAtFirst : StoredAtFirst[n] \in Image
    /\ PowerCuts \in BOOLEAN /\ LfsErrors \in BOOLEAN

VARIABLES
    \* littlefs
    formatted,             \* it can be mounted
    lfs,                   \* the images: a function from their numbers
    metadata,              \* RETRIEVE.meta
    \* the program
    power,                 \* "off", "usb" or "sim", the loop of main or beyond
    initialized,
    tud_mount_status,
    import_lfs_completed,
    task,                  \* where it is in RAM_disk_sync_LFS_from_FatFs
    entry,                 \* the folder entry it has reached
    umounting,             \* it was called by flash_umount
    \* the RAM disk
    fat,                   \* it holds a file system
    root,                  \* the images in its root folder
    upload, download,      \* the files of the two folders, in their order
    \* bookkeeping of the model
    wanted,                \* the last request of a PC, not yet served
    played,                \* a card was simulated since that request
    failed,                \* names littlefs did not store, in this iteration,
                           \* without the code noticing
    touched                \* images uploaded, created or formatted away

flash   == <<formatted, lfs, metadata>>
usb     == <<power, initialized, tud_mount_status, import_lfs_completed>>
copying == <<task, entry, umounting>>
disk    == <<fat, root, upload, download>>
requests == <<wanted, played>>
ghosts  == <<requests, failed, touched>>
vars    == <<flash, usb, copying, disk, ghosts>>

TypeOK ==
    /\ formatted \in BOOLEAN
    /\ DOMAIN lfs \subseteq Slots /\ \A n \in DOMAIN lfs : lfs[n] \in Image
    /\ metadata \in 1 .. EmptyFile
    /\ power \in {"off", "usb", "sim"}
    /\ initialized \in BOOLEAN /\ tud_mount_status \in BOOLEAN
    /\ import_lfs_completed \in BOOLEAN
    /\ task \in {"idle", "upload", "create", "write",
                 "download", "meta_create", "meta_write"}
    /\ entry \in 1 .. MaxFiles + 1
    /\ umounting \in BOOLEAN /\ fat \in BOOLEAN
    /\ root \in Seq(FatFile) /\ Len(root) <= 1
    /\ upload \in Seq(FatFile) /\ Len(upload) <= MaxFiles
    /\ download \in Seq(Names) /\ Len(download) <= MaxFiles
    /\ wanted \in 0 .. MaxName /\ played \in BOOLEAN
    /\ failed \subseteq Names /\ touched \subseteq Slots

NoImages == [n \in {} |-> Blank]

Stored(n, image) ==
    lfs' = [m \in DOMAIN lfs \cup {n} |-> IF m = n THEN image ELSE lfs[m]]

Init ==
    /\ \/ formatted = TRUE /\ lfs = StoredAtFirst /\ touched = {}
       \/ formatted = FALSE /\ lfs = NoImages /\ touched = Slots
    /\ metadata = NoRequest
    /\ power = "off" /\ initialized = FALSE
    /\ tud_mount_status = FALSE /\ import_lfs_completed = FALSE
    /\ task = "idle" /\ entry = 1 /\ umounting = FALSE
    /\ fat = FALSE /\ root = <<>> /\ upload = <<>> /\ download = <<>>
    /\ wanted = 0 /\ played = FALSE /\ failed = {}

-----------------------------------------------------------------------------
(* The loop of main and its hand-over. *)

\* lfs_init: the boot that formats the flash leaves initialized unset.
Boot ==
    /\ power = "off"
    /\ power' = "usb" /\ initialized' = formatted /\ formatted' = TRUE
    /\ UNCHANGED <<lfs, metadata, tud_mount_status, import_lfs_completed,
                   copying, disk, ghosts>>

Polling == power = "usb" /\ task = "idle"

\* No PC for three seconds, or the command "sim": for good.  The simulation
\* mounts the storage once more, which serves the request to a disk that no PC
\* sees, creates the first image if there is none, and imports one to the RAM
\* the disk is in.
Simulate(sim) ==
    /\ Polling /\ (sim \/ ~tud_mount_status)
    /\ power' = "sim" /\ import_lfs_completed' = TRUE
    /\ metadata' = NoRequest
    /\ IF DOMAIN lfs = {}
       THEN Stored(1, [size |-> "exact", data |-> Blank]) /\ touched' = touched \cup {1}
       ELSE UNCHANGED <<lfs, touched>>
    /\ fat' = FALSE /\ root' = <<>> /\ upload' = <<>> /\ download' = <<>>
    /\ played' = (wanted # 0)
    /\ UNCHANGED <<formatted, initialized, tud_mount_status, copying, wanted, failed>>

PowerOff ==
    /\ power # "off" /\ (PowerCuts \/ task = "idle")
    /\ power' = "off" /\ initialized' = FALSE
    /\ tud_mount_status' = FALSE /\ import_lfs_completed' = FALSE
    /\ task' = "idle" /\ entry' = 1 /\ umounting' = FALSE
    /\ fat' = FALSE /\ root' = <<>> /\ upload' = <<>> /\ download' = <<>>
    /\ wanted' = (IF task = "idle" THEN wanted ELSE 0)
    /\ played' = (played /\ task = "idle") /\ failed' = {}
    /\ UNCHANGED <<flash, touched>>

-----------------------------------------------------------------------------
(* Building the RAM disk. *)

\* RAM_disk_create_FatFs_from_file: a file without a number in it leaves the
\* variable it is read to as it was.
Requested == CASE metadata = NoRequest -> {}
               [] metadata = EmptyFile -> Names
               [] OTHER -> {metadata}

\* The copy of an image to the disk, if there is an image of that number.
InRoot(n) ==
    IF n \notin DOMAIN lfs THEN <<>>
    ELSE <<[name |-> n, data |-> lfs[n].data,
            size |-> IF lfs[n].size = "empty" THEN "short" ELSE lfs[n].size]>>

\* RAM_disk_create_FatFs_from_LFS; the request is removed in any case.
CreateFatFs ==
    /\ IF Requested = {} THEN root' = <<>>
                         ELSE \E n \in Requested : root' = InRoot(n)
    /\ metadata' = NoRequest /\ wanted' = 0 /\ played' = FALSE
    /\ fat' = TRUE /\ upload' = <<>> /\ download' = <<>>
    /\ import_lfs_completed' = TRUE

\* tud_mount_cb, also the command "mount".
Mount ==
    /\ Polling
    /\ tud_mount_status' = TRUE
    /\ CreateFatFs
    /\ UNCHANGED <<formatted, lfs, power, initialized, copying, failed, touched>>

\* flash_startstop, to load the disk; neither it nor the eject asks whether
\* the disk is ready.
Load ==
    /\ Polling /\ tud_mount_status
    /\ CreateFatFs
    /\ UNCHANGED <<formatted, lfs, power, initialized, tud_mount_status,
                   copying, failed, touched>>

-----------------------------------------------------------------------------
(* The PC. *)

\* tud_msc_test_unit_ready_cb, flash_ready
Ready == Polling /\ initialized /\ import_lfs_completed

\* The disk has room for one image, names in a folder are distinct.
CanHold(f) ==
    /\ Len(upload) < MaxFiles
    /\ f.size # "short" => \A i \in 1 .. Len(upload) : upload[i].size = "short"
    /\ f.size # "short" => \A i \in 1 .. Len(root) : root[i].size = "short"
    /\ f.name # 0 => \A i \in 1 .. Len(upload) : upload[i].name # f.name

PutUpload(f) ==
    /\ Ready /\ fat /\ CanHold(f)
    /\ upload' = Append(upload, f)
    /\ touched' = touched \cup ({f.name} \cap Slots)
    /\ UNCHANGED <<flash, usb, copying, fat, root, download, requests, failed>>

PutDownload(n) ==
    /\ Ready /\ fat /\ Len(download) < MaxFiles
    /\ download' = Append(download, n)
    /\ UNCHANGED <<flash, usb, copying, fat, root, upload, ghosts>>

-----------------------------------------------------------------------------
(* RAM_disk_sync_LFS_from_FatFs, first the UPLOAD folder. *)

\* filename_to_mc_slot.  Seeded bug: one more image than there is room for.
IsSlotOneMore(n) == n > 0 /\ n <= MAX_MC_IMAGES + 1
IsSlot(n) == n > 0 /\ n <= MAX_MC_IMAGES

\* What the PC asked for last: the model's, not the code's.
Asks(i) == download[i] \in Slots
Asked(n) == IF \E i \in 1 .. Len(download) : Asks(i)
            THEN \E i \in 1 .. Len(download) :
                    /\ Asks(i) /\ \A j \in i + 1 .. Len(download) : ~Asks(j)
                    /\ n = download[i]
            ELSE n = wanted

StartSync(umount) ==
    /\ task' = "upload" /\ entry' = 1 /\ umounting' = umount
    /\ \E n \in Names : Asked(n) /\ wanted' = n
    /\ played' = (played /\ \A i \in 1 .. Len(download) : ~Asks(i))

\* flash_startstop, to eject.
Eject ==
    /\ Polling /\ tud_mount_status
    /\ import_lfs_completed' = FALSE
    /\ StartSync(FALSE)
    /\ UNCHANGED <<flash, power, initialized, tud_mount_status, disk, failed, touched>>

\* tud_umount_cb, also the command "umount".
Umount ==
    /\ Polling
    /\ StartSync(TRUE)
    /\ UNCHANGED <<flash, usb, disk, failed, touched>>

\* check_and_copy_mcr.  Seeded bug: an image of the right size is refused.
IsImageLonger(f) == IsSlot(f.name) /\ f.size = "long"
IsImage(f) == IsSlot(f.name) /\ f.size \in {"exact", "long"}

\* Where the iteration goes when an entry stops it: the other folder is still
\* visited.  Seeded bug: it is not.
AfterRefusalNothing == "idle"
AfterRefusal == "download"

EndSync(next) ==
    /\ task' = next /\ entry' = 1 /\ failed' = {}
    /\ IF next = "idle" THEN /\ umounting' = FALSE
                             /\ tud_mount_status' = (tud_mount_status /\ ~umounting)
                        ELSE UNCHANGED <<umounting, tud_mount_status>>

UploadEnd ==
    /\ task = "upload" /\ entry > Len(upload)
    /\ EndSync("download")
    /\ UNCHANGED <<flash, power, initialized, import_lfs_completed, disk, requests, touched>>

UploadRefused ==
    /\ task = "upload" /\ entry <= Len(upload) /\ ~IsImage(upload[entry])
    /\ EndSync(AfterRefusal)
    /\ UNCHANGED <<flash, power, initialized, import_lfs_completed, disk, requests, touched>>

\* Seeded bug: the images are numbered from zero.
StoredNameFromZero(f) == IF f.name = 1 THEN 1 ELSE f.name - 1
StoredName(f) == f.name

\* copy_mcr_file_to_lfs: the old image is removed, an empty file created, and
\* written to; what was written is permanent when the file is closed.
UploadRemove ==
    /\ task = "upload" /\ entry <= Len(upload) /\ IsImage(upload[entry])
    /\ lfs' = [n \in DOMAIN lfs \ {StoredName(upload[entry])} |-> lfs[n]]
    /\ task' = "create"
    /\ UNCHANGED <<formatted, metadata, usb, entry, umounting, disk, ghosts>>

UploadCreate ==
    /\ task = "create"
    /\ Stored(StoredName(upload[entry]), [size |-> "empty", data |-> Blank])
    /\ task' = "write"
    /\ UNCHANGED <<formatted, metadata, usb, entry, umounting, disk, ghosts>>

UploadWrite ==
    /\ task = "write"
    /\ Stored(StoredName(upload[entry]),
              [size |-> upload[entry].size, data |-> upload[entry].data])
    /\ task' = "upload" /\ entry' = entry + 1
    /\ UNCHANGED <<formatted, metadata, usb, umounting, disk, ghosts>>

\* What an error while the data is written leaves: the empty file, or one with
\* a part of it.
LeftPartly ==
    \/ UNCHANGED lfs
    \/ Stored(StoredName(upload[entry]), [size |-> "short", data |-> upload[entry].data])

\* lfs_file_sync or lfs_file_close fails, and nobody looks: on to the next.
UploadUnsaved ==
    /\ LfsErrors /\ task = "write" /\ LeftPartly
    /\ task' = "upload" /\ entry' = entry + 1
    /\ failed' = failed \cup {upload[entry].name}
    /\ UNCHANGED <<formatted, metadata, usb, umounting, disk, requests, touched>>

\* littlefs cannot be mounted, so that the old image stays, or creating the
\* file or writing to it fails: this and the files after it are not stored.
UploadFail ==
    /\ LfsErrors
    /\ \/ task = "upload" /\ entry <= Len(upload) /\ IsImage(upload[entry]) /\ UNCHANGED lfs
       \/ task = "create" /\ UNCHANGED lfs
       \/ task = "write" /\ LeftPartly
    /\ EndSync(AfterRefusal)
    /\ UNCHANGED <<formatted, metadata, power, initialized, import_lfs_completed, disk,
                   requests, touched>>

-----------------------------------------------------------------------------
(* Then the DOWNLOAD folder. *)

\* create_retrieve_file: other files are passed over.
DownloadSkip ==
    /\ task = "download" /\ entry <= Len(download) /\ ~IsSlot(download[entry])
    /\ entry' = entry + 1
    /\ UNCHANGED <<flash, usb, task, umounting, disk, ghosts>>

\* The old request is removed, an empty file created and written to.
MetaRemove ==
    /\ task = "download" /\ entry <= Len(download) /\ IsSlot(download[entry])
    /\ metadata' = NoRequest
    /\ task' = "meta_create"
    /\ UNCHANGED <<formatted, lfs, usb, entry, umounting, disk, ghosts>>

MetaCreate ==
    /\ task = "meta_create"
    /\ metadata' = EmptyFile
    /\ task' = "meta_write"
    /\ UNCHANGED <<formatted, lfs, usb, entry, umounting, disk, ghosts>>

MetaWrite ==
    /\ task = "meta_write"
    /\ metadata' = download[entry]
    /\ task' = "download" /\ entry' = entry + 1
    /\ UNCHANGED <<formatted, lfs, usb, umounting, disk, ghosts>>

\* Creating or writing it, or writing it out when it is closed, fails: the
\* error is overwritten by status = 0.
MetaFail ==
    /\ LfsErrors /\ task \in {"meta_create", "meta_write"}
    /\ task' = "download" /\ entry' = entry + 1 /\ wanted' = 0
    /\ UNCHANGED <<flash, usb, umounting, disk, played, failed, touched>>

\* littlefs cannot be mounted: the iteration ends, the old request stays.
MetaMountFail ==
    /\ LfsErrors
    /\ task = "download" /\ entry <= Len(download) /\ IsSlot(download[entry])
    /\ EndSync("idle")
    /\ wanted' = 0
    /\ UNCHANGED <<flash, power, initialized, import_lfs_completed, disk, played, touched>>

DownloadEnd ==
    /\ task = "download" /\ entry > Len(download)
    /\ EndSync("idle")
    /\ UNCHANGED <<flash, power, initialized, import_lfs_completed, disk, requests, touched>>

-----------------------------------------------------------------------------
(* Serial commands that change something. *)

TornFile(f) == IF f.size = "short" THEN f ELSE [f EXCEPT !.data = Torn]
TornFiles(files) == [i \in 1 .. Len(files) |-> TornFile(files[i])]

\* "new": memcard_manager_create names the image after their number, and
\* builds it in the RAM behind the first 128 KB, where the disk has its files.
CommandNew ==
    LET n == Cardinality(DOMAIN lfs) + 1
    IN  /\ Polling /\ n <= MAX_MC_IMAGES
        /\ Stored(n, [size |-> IF n \in DOMAIN lfs /\ lfs[n].size = "long"
                               THEN "long" ELSE "exact", data |-> Blank])
        /\ upload' = TornFiles(upload) /\ root' = TornFiles(root)
        /\ touched' = touched \cup {n}
        /\ UNCHANGED <<formatted, metadata, usb, copying, fat, download, requests, failed>>

\* "mc": memory_card_import fills the RAM the disk is in.
CommandMc ==
    /\ Polling /\ \E n \in DOMAIN lfs : lfs[n].size = "exact"
    /\ fat' = FALSE /\ root' = <<>> /\ upload' = <<>> /\ download' = <<>>
    /\ UNCHANGED <<flash, usb, copying, ghosts>>

CommandFormat ==
    /\ Polling
    /\ lfs' = NoImages /\ metadata' = NoRequest
    /\ wanted' = 0 /\ played' = FALSE /\ touched' = Slots
    /\ UNCHANGED <<formatted, usb, copying, disk, failed>>

Next ==
    \/ Boot \/ PowerOff \/ Mount \/ Load \/ Eject \/ Umount
    \/ \E sim \in BOOLEAN : Simulate(sim)
    \/ \E f \in PCFiles : PutUpload(f)
    \/ \E n \in Names : PutDownload(n)
    \/ UploadEnd \/ UploadRefused \/ UploadRemove \/ UploadCreate \/ UploadWrite
    \/ UploadUnsaved \/ UploadFail
    \/ DownloadSkip \/ MetaRemove \/ MetaCreate \/ MetaWrite \/ MetaFail \/ MetaMountFail
    \/ DownloadEnd
    \/ CommandNew \/ CommandMc \/ CommandFormat

Spec == Init /\ [][Next]_vars

-----------------------------------------------------------------------------
(* Properties. *)

\* What the instructions on the disk ask of a file (flash_config.h:17-27).
Acceptable(f) == f.name \in Slots /\ f.size # "short"

\* When the UPLOAD folder was gone through, every file before the first that is
\* no image is stored under its number, whole and as the PC wrote it, save for
\* those littlefs failed on: "it will automatically overwrite the corresponding
\* memory slot" (flash_config.h:27).  The files after one that is no image are
\* not stored, which the instructions do not say, nor those after an error the
\* code notices; one it ignores costs no other file.
UploadsArrive ==
    [][(/\ task \in {"upload", "create", "write"} /\ task' \in {"download", "idle"}
        /\ power' = power)
       => \A i \in 1 .. Len(upload) :
             /\ \A j \in 1 .. i : Acceptable(upload[j])
             /\ upload[i].name \notin failed
             /\ UploadFail => i < entry
             => /\ upload[i].name \in DOMAIN lfs
                /\ lfs[upload[i].name] = [size |-> upload[i].size,
                                         data |-> upload[i].data]]_vars

\* A request copied to the DOWNLOAD folder is served when the disk is built for
\* a PC the next time, whatever was in the UPLOAD folder and however often power
\* was lost in between, unless littlefs failed or power was lost during the
\* copying (flash_config.h:40).  Only that once: RETRIEVE.meta is removed before
\* the PC has read anything.  And only if the device was not at a console in
\* between: then the simulation has used the request up and the disk is without
\* the image, against what the instructions say.
Retrievable ==
    [][(/\ task = "idle" /\ wanted # 0 /\ wanted' = 0
        /\ wanted \in DOMAIN lfs /\ lfs' = lfs)
       => IF played THEN root' = <<>>
                    ELSE /\ Len(root') = 1
                         /\ root'[1].name = wanted
                         /\ root'[1].data = lfs[wanted].data]_vars

\* No image changes but those the PC or the user named or created: neither
\* requests, refused files and ejects nor power lost at any moment do.
Untouched ==
    formatted => \A n \in DOMAIN StoredAtFirst \ touched :
                    n \in DOMAIN lfs /\ lfs[n] = StoredAtFirst[n]
=============================================================================
