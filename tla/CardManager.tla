---------------------------- MODULE CardManager ----------------------------
(***************************************************************************)
(* The card images of the device (memcard_manager.c): which files of the   *)
(* storage are images, in which order they are visited, how a new one is   *)
(* named, and the file that remembers, by its position in that order, the  *)
(* image to load at the next power on (simulate_memory_card).              *)
(*                                                                         *)
(* An image N.MCR is represented by its number N; names with leading zeros *)
(* are left out.  Numbers are written in base Base, 10 in the code, so     *)
(* that a few images already have numbers of several digits.               *)
(***************************************************************************)
EXTENDS Naturals, Sequences, FiniteSets

CONSTANTS
    Base,             \* base of the numbers in file names and in the index
    MaxNumber,        \* bound: the largest number an image file has
    MAX_MC_IMAGES,    \* the limit on the number of images
    CountWidth,       \* memcard_n is a uint8_t: 256 in the code
    MC_SLOT_COUNT,    \* slots of an image, the units in which it is created
    FilesAtFirst,     \* the image files before the first power on
    LongNames,        \* the file system takes names longer than 8.3: littlefs
                      \* does, FatFs is configured without them
    Garbage,          \* what may follow the index in the buffer it is read to
    PCNumbers,        \* bound: the numbers of the files a PC changes
    Interrupted       \* whether creating may fail or lose power half way

Numbers == 0 .. MaxNumber
NoCard == MaxNumber + 1
\* The length of a file, in slots, and whether the player's saves are in it.
\* One slot more than an image stands for every longer file.
File == [slots : 0 .. MC_SLOT_COUNT + 1, saves : BOOLEAN]

ASSUME CardManagerAssumption ==
    /\ Base \in Nat /\ Base > 1
    /\ MaxNumber \in Nat /\ MC_SLOT_COUNT \in Nat \ {0}
    /\ MAX_MC_IMAGES \in Nat \ {0} /\ MAX_MC_IMAGES <= MaxNumber
    /\ CountWidth \in Nat \ {0}
    /\ DOMAIN FilesAtFirst \subseteq Numbers
    /\ \A n \in DOMAIN FilesAtFirst : FilesAtFirst[n] \in File
    /\ Garbage \subseteq Seq(0 .. Base - 1)
    /\ PCNumbers \subseteq Numbers
    /\ LongNames \in BOOLEAN /\ Interrupted \in BOOLEAN

VARIABLES
    power,         \* "off", "on", "switching" (the index is written, the image
                   \* not changed yet), "creating" (from "on"), "first"
                   \* (creating the first image at boot), "failed" (stopped by
                   \* an error)
    files,         \* the image files: a function from their numbers
    index_file,    \* the digits of the index file; empty: there is none
    mc_file_name,  \* the image in use
    new_name,      \* the image being created or changed to
    slot,          \* slots of it written so far
    image_names,   \* the global pointer to the list of names: "null", or
                   \* "freed" by memcard_manager_get
    \* bookkeeping of the model
    last,          \* the image in use at the last power off, and the one it
                   \* was being changed to, if any
    edited,        \* a PC has changed the files
    cut            \* the creation of an image has failed or lost power

ghosts == <<last, edited, cut>>
vars == <<power, files, index_file, mc_file_name, new_name, slot, image_names,
          ghosts>>

-----------------------------------------------------------------------------
(* Numbers and their order. *)

\* "%d"
Digits[n \in Nat] ==
    IF n < Base THEN <<n>> ELSE Append(Digits[n \div Base], n % Base)

\* strtol
Value(d) ==
    LET upTo[k \in 0 .. Len(d)] == IF k = 0 THEN 0 ELSE upTo[k - 1] * Base + d[k]
    IN  upTo[Len(d)]

\* strcmp on "N.MCR": the dot comes before every digit.
Before(m, n) ==
    LET a == Digits[m]
        b == Digits[n]
    IN  \E k \in 0 .. Len(a) :
           /\ k < Len(b) /\ SubSeq(a, 1, k) = SubSeq(b, 1, k)
           /\ k < Len(a) => a[k + 1] < b[k + 1]

\* is_image_valid, is_name_valid.  Seeded bug: the length is not checked.
ValidImagesAnySize == DOMAIN files
ValidImages == {n \in DOMAIN files : files[n].slots = MC_SLOT_COUNT}
NamedImages == DOMAIN files

\* The place of an image in the sorted list, and the one image at a place.
\* Seeded bug: places count from one.
PositionFromOne(n) == Cardinality({m \in ValidImages : Before(m, n)}) + 1
Position(n) == Cardinality({m \in ValidImages : Before(m, n)})
InRange(i) == i <= MAX_MC_IMAGES /\ i < Cardinality(ValidImages)
ImageAt(i) == {n \in ValidImages : Cardinality({m \in ValidImages : Before(m, n)}) = i}

\* The index is written over the old one; the file is not truncated.  Its
\* name, LastMemcardIndex.dat, is a long one; nobody looks at the error.
Overwrite(old, new) == new \o SubSeq(old, Len(new) + 1, Len(old))
UpdateIndex(i) ==
    index_file' = IF LongNames THEN Overwrite(index_file, Digits[i]) ELSE index_file

\* memcard_manager_get_prev_loaded_memcard_index: the buffer is not
\* terminated where the file ends.
PrevLoadedIndex ==
    IF index_file = <<>> THEN {0} ELSE {Value(index_file \o g) : g \in Garbage}

-----------------------------------------------------------------------------
TypeOK ==
    /\ power \in {"off", "on", "switching", "creating", "first", "failed"}
    /\ DOMAIN files \subseteq Numbers
    /\ \A n \in DOMAIN files : files[n] \in File
    /\ index_file \in Seq(0 .. Base - 1)
    /\ mc_file_name \in Numbers \cup {NoCard}
    /\ new_name \in Numbers
    /\ slot \in 0 .. MC_SLOT_COUNT
    /\ image_names \in {"null", "freed"}
    /\ last \subseteq Numbers /\ edited \in BOOLEAN /\ cut \in BOOLEAN

Init ==
    /\ power = "off"
    /\ files = FilesAtFirst
    /\ index_file = <<>>
    /\ mc_file_name = NoCard
    /\ new_name = 0 /\ slot = 0
    /\ image_names = "null"
    /\ last = {} /\ edited = FALSE /\ cut = FALSE

-----------------------------------------------------------------------------
(* Power on. *)

\* The image at the remembered place, or else the first one, is loaded; the
\* list of names that was sorted for it is freed.
BootLoad ==
    /\ power = "off"
    /\ \E i \in PrevLoadedIndex :
          \/ InRange(i) /\ mc_file_name' \in ImageAt(i)
          \/ ~InRange(i) /\ InRange(0) /\ mc_file_name' \in ImageAt(0)
    /\ power' = "on" /\ image_names' = "freed"
    /\ UNCHANGED <<files, index_file, new_name, slot, ghosts>>

\* No image can be loaded.  The first one is created if there is no file with
\* the name of an image; otherwise the device gives up.
BootEmpty ==
    /\ power = "off" /\ ~InRange(0)
    /\ IF NamedImages = {} THEN power' = "first" /\ new_name' = 1 /\ slot' = 0
                           ELSE power' = "failed" /\ UNCHANGED <<new_name, slot>>
    /\ UNCHANGED <<files, index_file, mc_file_name, image_names, ghosts>>

-----------------------------------------------------------------------------
(* The player's requests. *)

NextImages == {n \in ValidImages : Before(mc_file_name, n)}
PrevImages == {n \in ValidImages : Before(n, mc_file_name)}

\* The place of the new image is remembered before the image is changed.
GoTo(n) ==
    /\ UpdateIndex(Position(n))
    /\ power' = "switching" /\ new_name' = n
    /\ UNCHANGED <<files, mc_file_name, slot, image_names, ghosts>>

\* Seeded bug: the list is searched from its end.
IsNextFromEnd(n) == \A m \in NextImages : m = n \/ Before(m, n)
IsNext(n) == \A m \in NextImages : m = n \/ Before(n, m)

\* memcard_manager_get_next and _get_prev allocate a list of their own, but
\* set_images_names fills it through the global pointer, which still has the
\* block memcard_manager_get freed.  They find the image in use only if malloc
\* returns that block again; otherwise they search memory nobody set, and like
\* at the end of the list nothing changes.  An image in use that is too long
\* is not in the list either.
Found == image_names = "freed" /\ mc_file_name \in ValidImages

GetNext ==
    /\ power = "on" /\ Found
    /\ \E n \in NextImages : IsNext(n) /\ GoTo(n)

GetPrev ==
    /\ power = "on" /\ Found
    /\ \E n \in PrevImages :
          /\ \A m \in PrevImages : m = n \/ Before(m, n)
          /\ GoTo(n)

\* The names are copied to address zero.
GetFault ==
    /\ power = "on" /\ image_names = "null"
    /\ power' = "failed"
    /\ UNCHANGED <<files, index_file, mc_file_name, new_name, slot, image_names, ghosts>>

\* The queue is empty: the image is changed (process_user_input).
Change ==
    /\ power = "switching"
    /\ power' = "on" /\ mc_file_name' = new_name /\ new_name' = 0 /\ slot' = 0
    /\ UNCHANGED <<files, index_file, image_names, ghosts>>

\* memcard_n: the number of files with the name of an image, in a uint8_t.
\* Seeded bug: it wraps at the limit instead of stopping there.
ImageCountWrapped == Cardinality(NamedImages) % MAX_MC_IMAGES
ImageCount == Cardinality(NamedImages) % CountWidth

CreateBegin ==
    /\ power = "on" /\ ImageCount < MAX_MC_IMAGES
    /\ power' = "creating" /\ new_name' = ImageCount + 1 /\ slot' = 0
    /\ UNCHANGED <<files, index_file, mc_file_name, image_names, ghosts>>

Creating == power \in {"creating", "first"}

\* Seeded bug: without the seek, the slot is added at the end of the file.
LongerAppended(n) == IF n \in DOMAIN files THEN files[n].slots + 1 ELSE 1
Longer(n) == IF n \in DOMAIN files /\ files[n].slots > slot THEN files[n].slots ELSE slot + 1

\* One slot is written, over what is there if the file exists; it is not
\* truncated.
CreateSlot ==
    /\ Creating /\ slot < MC_SLOT_COUNT
    /\ files' = [n \in DOMAIN files \cup {new_name} |->
                    IF n = new_name THEN [slots |-> Longer(n), saves |-> FALSE]
                                    ELSE files[n]]
    /\ slot' = slot + 1
    /\ UNCHANGED <<power, index_file, mc_file_name, new_name, image_names, ghosts>>

CreateError ==
    /\ Interrupted
    /\ Creating /\ slot < MC_SLOT_COUNT
    /\ power' = IF power = "first" THEN "failed" ELSE "on"
    /\ new_name' = 0 /\ slot' = 0 /\ cut' = TRUE
    /\ UNCHANGED <<files, index_file, mc_file_name, image_names, last, edited>>

\* The place remembered for the new image is the number of files before it.
CreateEnd ==
    /\ Creating /\ slot = MC_SLOT_COUNT
    /\ UpdateIndex(new_name - 1)
    /\ power' = "switching"
    /\ UNCHANGED <<files, mc_file_name, new_name, slot, image_names, ghosts>>

-----------------------------------------------------------------------------
(* The world around the device. *)

PowerOff ==
    /\ power # "off" /\ (Creating => Interrupted)
    /\ power' = "off" /\ mc_file_name' = NoCard /\ new_name' = 0 /\ slot' = 0
    /\ image_names' = "null"
    /\ last' = ({mc_file_name} \ {NoCard}) \cup (IF power = "switching" THEN {new_name} ELSE {})
    /\ cut' = (cut \/ Creating)
    /\ UNCHANGED <<files, index_file, edited>>

\* A PC stores an image, or a file with the name of one and another length.
PCStore(n, f) ==
    /\ power = "off"
    /\ files' = [m \in DOMAIN files \cup {n} |-> IF m = n THEN f ELSE files[m]]
    /\ edited' = TRUE
    /\ UNCHANGED <<power, index_file, mc_file_name, new_name, slot, image_names, last, cut>>

PCDelete(n) ==
    /\ power = "off" /\ n \in DOMAIN files
    /\ files' = [m \in DOMAIN files \ {n} |-> files[m]]
    /\ edited' = TRUE
    /\ UNCHANGED <<power, index_file, mc_file_name, new_name, slot, image_names, last, cut>>

\* The player saves a game: what makes an image worth keeping.
Save ==
    /\ power = "on" /\ ~files[mc_file_name].saves
    /\ files' = [files EXCEPT ![mc_file_name].saves = TRUE]
    /\ UNCHANGED <<power, index_file, mc_file_name, new_name, slot, image_names, ghosts>>

Next ==
    \/ BootLoad \/ BootEmpty \/ GetNext \/ GetPrev \/ GetFault \/ Change
    \/ CreateBegin \/ CreateSlot \/ CreateError \/ CreateEnd
    \/ PowerOff \/ Save
    \/ \E n \in PCNumbers :
          \/ PCDelete(n)
          \/ \E l \in MC_SLOT_COUNT - 1 .. MC_SLOT_COUNT + 1 :
                PCStore(n, [slots |-> l, saves |-> l >= MC_SLOT_COUNT])

Spec == Init /\ [][Next]_vars

-----------------------------------------------------------------------------
(* What the component promises. *)

\* The image in use, and the one it is being changed to, can be imported
\* whole: what boots, follows, precedes or was created is a file with every
\* slot of an image, whatever a PC stored, wherever creating was cut short and
\* whatever the index holds (is_image_valid, memory_card_import).  It may be
\* longer: a file that is too long keeps its length when an image is created
\* over it.
Whole(n) == n \in DOMAIN files /\ files[n].slots >= MC_SLOT_COUNT
CurrentWhole ==
    /\ power \in {"on", "creating"} => Whole(mc_file_name)
    /\ power = "switching" =>
          Whole(new_name) /\ (mc_file_name = NoCard \/ Whole(mc_file_name))

\* README, "create a new empty memory card image": creating one never costs
\* the player the saves of another, as long as nobody but the device changed
\* the files (memcard_manager_create).
CreateKeepsSaves ==
    [][Creating /\ ~edited =>
          \A n \in DOMAIN files :
             files[n].saves => n \in DOMAIN files' /\ files'[n].saves]_vars

\* README, "On boot your previously loaded image will be reloaded": the image
\* that was in use, or the one it was being changed to when the power went,
\* as long as nobody else changed the files and no creation was cut short
\* (memcard_manager_get_initial).
BootReloadsLast ==
    [][power = "off" /\ power' = "on" /\ last # {} /\ ~edited /\ ~cut =>
          mc_file_name' \in last]_vars

\* README, "will switch to the next image (e.g from 1.MCR to 2.MCR)" and "to
\* the previous image": the next has a higher number, the previous a lower
\* one, and no image has a number in between (memcard_manager_get_next,
\* memcard_manager_get_prev).
NextIsNextNumber ==
    [][/\ GetNext => /\ mc_file_name < new_name'
                     /\ \A n \in ValidImages : n <= mc_file_name \/ new_name' <= n
       /\ GetPrev => /\ new_name' < mc_file_name
                     /\ \A n \in ValidImages : n <= new_name' \/ mc_file_name <= n]_vars
=============================================================================
