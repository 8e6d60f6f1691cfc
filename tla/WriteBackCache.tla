--------------------------- MODULE WriteBackCache ---------------------------
(***************************************************************************)
(* What the memory card promises, without cores, queues or back ends: it   *)
(* is a write-back cache of one image file.  A sector is owed to the file  *)
(* before its first byte changes, stays owed until the file has it, and is *)
(* forgotten only by being given up; an image is left with nothing owed.   *)
(* MemcardSimulator implements it.                                         *)
(***************************************************************************)
CONSTANTS
    Sectors,
    Exempt,     \* sectors that are never saved (the console's write test)
    Content,    \* of a sector
    Images,
    Blank,      \* the content of a newly created image
    MayLeave,   \* whether an image may be left with sectors owed to it
    MayGiveUp   \* whether anything can go wrong: an error, a reset

VARIABLES
    card,       \* the card the console sees
    image,      \* the image it is a copy of
    files,      \* the image files
    owed,       \* sectors that will be written to the file
    lost        \* sectors that were given up

vars == <<card, image, files, owed, lost>>

Init ==
    /\ image \in Images
    /\ files \in [Images -> [Sectors -> Content]]
    /\ card = files[image]
    /\ owed = {} /\ lost = {}

-----------------------------------------------------------------------------
\* The console announces what it will write; a back end that saves in larger
\* units owes all of the unit.
Owe ==
    /\ owed \subseteq owed'
    /\ UNCHANGED <<card, image, files, lost>>

\* The console writes.
Write(s) ==
    /\ s \in owed \cup Exempt
    /\ \E c \in Content : card' = [card EXCEPT ![s] = c]
    /\ UNCHANGED <<image, files, owed, lost>>

\* The sectors S reach the file.  One written again meanwhile is still owed.
Store(S) ==
    /\ files' = [files EXCEPT ![image] =
                    [s \in Sectors |-> IF s \in S THEN card[s] ELSE files[image][s]]]
    /\ owed \ S \subseteq owed' /\ owed' \subseteq owed
    /\ lost \ S \subseteq lost' /\ lost' \subseteq lost
    /\ UNCHANGED <<card, image>>

\* A sector overtaken by a write reaches the file torn: it is owed still.
StoreTorn(s) ==
    /\ s \in owed \cup lost \cup Exempt
    /\ \E c \in Content : files' = [files EXCEPT ![image][s] = c]
    /\ UNCHANGED <<card, image, owed, lost>>

\* A sector that was given up is owed again.
Retry ==
    /\ lost' \subseteq lost /\ lost \ lost' \subseteq owed \cup Exempt
    /\ UNCHANGED <<card, image, files, owed>>

GiveUp ==
    /\ MayGiveUp
    /\ lost \subseteq lost'
    /\ owed' \subseteq owed /\ owed \ owed' \subseteq lost'
    /\ UNCHANGED <<card, image, files>>

MayChange == MayLeave \/ owed = {}

\* The card becomes a copy of the image i, an existing or a blank one, as far
\* as it can be read.
Change(i) ==
    /\ MayChange
    /\ image' = i
    /\ files' = files \/ files' = [files EXCEPT ![i] = Blank]
    /\ card' = [s \in Sectors |-> IF s \in lost' THEN card[s] ELSE files'[i][s]]
    /\ MayGiveUp \/ lost' = {}
    /\ UNCHANGED owed

\* A new image is given up after the sectors S, which an image of that name
\* has lost; the card stays as it is.
CreateFail(i, S) ==
    /\ MayChange
    /\ MayGiveUp \/ S = {}
    /\ files' = [files EXCEPT ![i] =
                    [s \in Sectors |-> IF s \in S THEN Blank[s] ELSE files[i][s]]]
    /\ lost' = IF i = image THEN lost \cup S ELSE lost
    /\ UNCHANGED <<card, image, owed>>

Next ==
    \/ Owe \/ Retry \/ GiveUp
    \/ \E s \in Sectors : Write(s) \/ StoreTorn(s)
    \/ \E S \in SUBSET Sectors : Store(S)
    \/ \E i \in Images : Change(i) \/ \E S \in SUBSET Sectors : CreateFail(i, S)

Spec == Init /\ [][Next]_vars

-----------------------------------------------------------------------------
\* A sector of the card that its file does not have is owed to the file or
\* was given up.
NothingForgotten ==
    \A s \in Sectors \ Exempt :
        files[image][s] = card[s] \/ s \in owed \/ s \in lost

\* Nothing is given up where nothing can go wrong.
NothingLost == MayGiveUp \/ lost = {}
=============================================================================
