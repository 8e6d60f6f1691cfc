------------------------- MODULE CardManager_proofs -------------------------
(* The card images, for any number of images and slots.  For every order of *)
(* the names, index file and accident: types, and that what is in use can   *)
(* be imported whole.  Under the conditions each needs: creating keeps      *)
(* saves, next means the next number, and what was in use is loaded again.  *)
EXTENDS CardManager, WellFoundedInduction, FiniteSetTheorems, SequenceTheorems,
        TLAPS

\* A set of numbers has a least one: what stands for induction below, where a
\* claim about every number is proved by looking at the least exception.
LEMMA LeastNumber ==
    ASSUME NEW X, X \subseteq Nat, X # {}
    PROVE  \E x \in X : \A y \in X : x <= y
<1> DEFINE R == OpToRel(<, Nat)
<1>1. IsWellFoundedOn(R, Nat)
  BY NatLessThanWellFounded
<1>2. \A x, y \in Nat : x < y => <<x, y>> \in R
  BY DEF OpToRel
<1> HIDE DEF R
<1>3. PICK x \in X : \A y \in X : ~(<<y, x>> \in R)
  <2>1. \E x \in X : \A y \in X : ~(<<y, x>> \in R)
    BY <1>1, WFMin, Zenon
  <2> QED
    BY <2>1, Zenon
<1>4. \A y \in X : ~(y < x)
  BY <1>2, <1>3
<1> QED
  BY <1>4

-----------------------------------------------------------------------------
(* What Digits writes. *)

\* Leaving out the last digit makes a number smaller.
LEMMA ShorterIsSmaller ==
    ASSUME NEW n \in Nat, n >= Base
    PROVE  n \div Base \in 0 .. n - 1 /\ n % Base \in 0 .. Base - 1
<1> DEFINE q == n \div Base
           r == n % Base
<1>1. q \in Int /\ r \in 0 .. Base - 1 /\ n = Base * q + r
  BY CardManagerAssumption
<1>2. Base \in Nat /\ Base >= 2
  BY CardManagerAssumption
<1> HIDE DEF q, r
<1>3. q >= 0
  <2>1. ASSUME q <= -1 PROVE Base * q <= -Base
    BY <1>1, <1>2, <2>1
  <2> QED
    BY <1>1, <1>2, <2>1
<1>4. Base * q >= 2 * q
  BY <1>1, <1>2, <1>3
<1>5. q < n
  BY <1>1, <1>2, <1>3, <1>4
<1> QED
  BY <1>1, <1>3, <1>5 DEF q, r

\* What "%d" writes of n, when g tells what it writes of smaller numbers; and
\* that g is right up to N.
Written(g, n) == IF n < Base THEN <<n>> ELSE Append(g[n \div Base], n % Base)
RightUpTo(g, N) ==
    /\ g \in [0 .. N -> Seq(0 .. Base - 1)]
    /\ \A n \in 0 .. N : g[n] = Written(g, n)

\* It is digits.
LEMMA WrittenDigits ==
    ASSUME NEW n \in Nat, NEW g, n >= Base => g[n \div Base] \in Seq(0 .. Base - 1)
    PROVE  Written(g, n) \in Seq(0 .. Base - 1)
<1> DEFINE D == 0 .. Base - 1
<1>1. Base \in Nat /\ Base > 1
  BY CardManagerAssumption
<1>2. CASE n < Base
  <2>1. n \in D /\ Written(g, n) = <<n>>
    BY <1>1, <1>2 DEF Written
  <2> HIDE DEF D
  <2>2. <<n>> \in Seq(D)
    BY <2>1
  <2> QED
    BY <2>1, <2>2 DEF D
<1>3. CASE n >= Base
  <2> DEFINE s == g[n \div Base]
             d == n % Base
  <2>1. s \in Seq(D) /\ d \in D
    BY <1>3, ShorterIsSmaller
  <2>3. Written(g, n) = Append(s, d)
    BY <1>1, <1>3 DEF Written
  <2> HIDE DEF D, s, d
  <2>2. Append(s, d) \in Seq(D)
    BY <2>1
  <2> QED
    BY <2>2, <2>3 DEF D
<1> QED
  BY <1>1, <1>2, <1>3

\* There is one way to be right.
LEMMA OneWay ==
    ASSUME NEW M \in Nat, NEW N \in Nat, NEW g, NEW h,
           RightUpTo(g, M), RightUpTo(h, N), M <= N
    PROVE  \A n \in 0 .. M : g[n] = h[n]
<1> DEFINE Wrong == {n \in 0 .. M : g[n] # h[n]}
<1> SUFFICES ASSUME Wrong # {} PROVE FALSE
  OBVIOUS
<1>1. PICK n \in Wrong : \A m \in Wrong : n <= m
  <2>1. Wrong \subseteq Nat
    OBVIOUS
  <2> HIDE DEF Wrong
  <2> QED
    BY <2>1, LeastNumber
<1>2. n \in 0 .. M /\ g[n] # h[n] /\ \A m \in 0 .. n - 1 : g[m] = h[m]
  BY <1>1
<1>3. g[n] = Written(g, n) /\ h[n] = Written(h, n)
  BY <1>2 DEF RightUpTo
<1>4. n >= Base => g[n \div Base] = h[n \div Base]
  BY <1>2, ShorterIsSmaller
<1> QED
  BY <1>2, <1>3, <1>4, CardManagerAssumption DEF Written

\* It can be carried one number further, and so to any number.
LEMMA OneMore ==
    ASSUME NEW N \in Nat, N = 0 \/ \E g : RightUpTo(g, N - 1)
    PROVE  \E g : RightUpTo(g, N)
<1> DEFINE D == Seq(0 .. Base - 1)
<1>1. CASE N < Base
  <2> DEFINE g == [n \in 0 .. N |-> <<n>>]
  <2>1. g \in [0 .. N -> D]
    BY <1>1, CardManagerAssumption
  <2>2. \A n \in 0 .. N : g[n] = Written(g, n)
    BY <1>1, CardManagerAssumption DEF Written
  <2> HIDE DEF g
  <2> QED
    BY <2>1, <2>2 DEF RightUpTo
<1>2. CASE N >= Base
  <2>1. PICK h : RightUpTo(h, N - 1)
    BY <1>2, CardManagerAssumption
  <2> DEFINE g == [n \in 0 .. N |-> IF n = N THEN Written(h, N) ELSE h[n]]
  <2>2. \A n \in 0 .. N - 1 : h[n] \in D /\ h[n] = Written(h, n)
    BY <2>1 DEF RightUpTo
  <2>3. N \div Base \in 0 .. N - 1 /\ N % Base \in 0 .. Base - 1
    BY <1>2, ShorterIsSmaller
  <2>4. Written(h, N) \in D
    BY <2>2, <2>3, WrittenDigits
  <2>5. g \in [0 .. N -> D]
    BY <2>2, <2>4
  <2>6. ASSUME NEW n \in 0 .. N PROVE g[n] = Written(g, n)
    <3>1. g[n] = Written(h, n)
      BY <2>2
    <3>2. n >= Base => g[n \div Base] = h[n \div Base]
      BY ShorterIsSmaller
    <3> QED
      BY <3>1, <3>2, CardManagerAssumption DEF Written
  <2> HIDE DEF g
  <2> QED
    BY <2>5, <2>6 DEF RightUpTo
<1> QED
  BY <1>1, <1>2, CardManagerAssumption

LEMMA SomeWay ==
    ASSUME NEW N \in Nat
    PROVE  \E g : RightUpTo(g, N)
<1> DEFINE None == {n \in Nat : ~ \E g : RightUpTo(g, n)}
<1> SUFFICES ASSUME None # {} PROVE FALSE
  OBVIOUS
<1>1. PICK n \in None : \A m \in None : n <= m
  <2>1. None \subseteq Nat
    OBVIOUS
  <2> HIDE DEF None
  <2> QED
    BY <2>1, LeastNumber
<1>2. n = 0 \/ (n - 1 \in Nat /\ n - 1 \notin None)
  BY <1>1
<1>3. n = 0 \/ \E g : RightUpTo(g, n - 1)
  BY <1>2
<1> QED
  BY <1>1, <1>3, OneMore

\* The definition of Digits has a solution, so Digits is one.
LEMMA DigitsExist == \E f : f = [n \in Nat |-> Written(f, n)]
<1> DEFINE upTo(n) == CHOOSE g : RightUpTo(g, n)
           f == [n \in Nat |-> upTo(n)[n]]
<1>1. \A n \in Nat : RightUpTo(upTo(n), n)
  BY SomeWay
<1> HIDE DEF upTo
<1>2. ASSUME NEW n \in Nat PROVE f[n] = Written(f, n)
  <2>1. f[n] = Written(upTo(n), n)
    BY <1>1 DEF RightUpTo
  <2>2. ASSUME n >= Base PROVE f[n \div Base] = upTo(n)[n \div Base]
    <3> DEFINE m == n \div Base
    <3>1. m \in Nat /\ m <= n
      BY <2>2, ShorterIsSmaller
    <3> HIDE DEF m
    <3>2. RightUpTo(upTo(m), m) /\ RightUpTo(upTo(n), n)
      BY <1>1, <3>1
    <3>3. upTo(m)[m] = upTo(n)[m]
      BY <3>1, <3>2, OneWay
    <3>4. f[m] = upTo(n)[m]
      BY <3>1, <3>3
    <3> QED
      BY <3>4 DEF m
  <2> QED
    BY <2>1, <2>2, CardManagerAssumption DEF Written
<1>3. f = [n \in Nat |-> Written(f, n)]
  BY <1>2
<1> QED
  BY <1>3

LEMMA DigitsUnfold == \A n \in Nat : Digits[n] = Written(Digits, n)
<1>1. Digits = CHOOSE f : f = [n \in Nat |-> Written(f, n)]
  BY DEF Digits, Written
<1>2. Digits = [n \in Nat |-> Written(Digits, n)]
  BY <1>1, DigitsExist
<1> QED
  BY <1>2

\* What is written of any number is digits.
LEMMA DigitsType == \A n \in Nat : Digits[n] \in Seq(0 .. Base - 1)
<1> DEFINE Wrong == {n \in Nat : ~(Digits[n] \in Seq(0 .. Base - 1))}
<1> SUFFICES ASSUME Wrong # {} PROVE FALSE
  OBVIOUS
<1>1. PICK n \in Wrong : \A m \in Wrong : n <= m
  <2>1. Wrong \subseteq Nat
    OBVIOUS
  <2> HIDE DEF Wrong
  <2> QED
    BY <2>1, LeastNumber
<1>2. n \in Nat /\ \A m \in 0 .. n - 1 : Digits[m] \in Seq(0 .. Base - 1)
  BY <1>1
<1>3. n >= Base => Digits[n \div Base] \in Seq(0 .. Base - 1)
  BY <1>2, ShorterIsSmaller
<1>4. Written(Digits, n) \in Seq(0 .. Base - 1)
  BY <1>2, <1>3, WrittenDigits
<1> QED
  BY <1>1, <1>2, <1>4, DigitsUnfold

-----------------------------------------------------------------------------
(* Types. *)

\* What is written over digits leaves digits.
LEMMA OverwriteType ==
    ASSUME NEW old \in Seq(0 .. Base - 1), NEW new \in Seq(0 .. Base - 1)
    PROVE  Overwrite(old, new) \in Seq(0 .. Base - 1)
<1> DEFINE D == 0 .. Base - 1
           rest == SubSeq(old, Len(new) + 1, Len(old))
<1>1. old \in Seq(D) /\ new \in Seq(D)
  OBVIOUS
<1> HIDE DEF D
<1>2. rest \in Seq(D)
  BY <1>1
<1> HIDE DEF rest
<1>3. new \o rest \in Seq(D)
  BY <1>1, <1>2
<1> QED
  BY <1>3 DEF Overwrite, D, rest

\* The files and the images among them are finitely many.
LEMMA ValidFinite ==
    ASSUME DOMAIN files \subseteq Numbers
    PROVE  /\ IsFiniteSet(DOMAIN files) /\ IsFiniteSet(ValidImages)
           /\ Cardinality(ValidImages) \in Nat /\ Cardinality(DOMAIN files) \in Nat
           /\ Cardinality(ValidImages) <= Cardinality(DOMAIN files)
<1>1. IsFiniteSet(Numbers)
  BY FS_Interval, CardManagerAssumption DEF Numbers
<1>2. IsFiniteSet(DOMAIN files)
  BY <1>1, FS_Subset
<1>3. ValidImages \subseteq DOMAIN files
  BY DEF ValidImages
<1> QED
  BY <1>2, <1>3, FS_Subset, FS_CardinalityType

LEMMA Counted ==
    ASSUME DOMAIN files \subseteq Numbers
    PROVE  Cardinality(NamedImages) \in Nat /\ \A n : Position(n) \in Nat
<1>1. ASSUME NEW n PROVE Position(n) \in Nat
  <2> DEFINE P == {m \in ValidImages : Before(m, n)}
  <2>1. IsFiniteSet(P)
    BY ValidFinite, FS_Subset
  <2>2. Cardinality(P) \in Nat
    BY <2>1, FS_CardinalityType
  <2> QED
    BY <2>2 DEF Position
<1> QED
  BY <1>1, ValidFinite DEF NamedImages

\* Creating counts from one, so the place it writes is a number.
TypeInv == TypeOK /\ (Creating => new_name > 0)

LEMMA TypeInvInit == Init => TypeInv
<1> SUFFICES ASSUME Init PROVE TypeInv
  OBVIOUS
<1>1. <<>> \in Seq(0 .. Base - 1)
  OBVIOUS
<1>2. 0 \in Numbers /\ MC_SLOT_COUNT \in Nat
  BY CardManagerAssumption DEF Numbers
<1>3. DOMAIN files \subseteq Numbers /\ \A n \in DOMAIN files : files[n] \in File
  BY CardManagerAssumption DEF Init
<1>4. power = "off" /\ index_file = <<>> /\ new_name = 0 /\ slot = 0
  BY DEF Init
<1>5. image_names = "null" /\ mc_file_name = NoCard /\ last = {} /\ ~edited /\ ~cut
  BY DEF Init
<1>6. edited \in BOOLEAN /\ cut \in BOOLEAN
  BY DEF Init
<1>7. TypeOK
  BY <1>1, <1>2, <1>3, <1>4, <1>5, <1>6 DEF TypeOK
<1> QED
  BY <1>4, <1>7 DEF TypeInv, Creating

LEMMA IndexType ==
    ASSUME NEW i \in Nat, index_file \in Seq(0 .. Base - 1), UpdateIndex(i)
    PROVE  index_file' \in Seq(0 .. Base - 1)
BY DigitsType, OverwriteType DEF UpdateIndex

\* What a PC stores is a file.
LEMMA StoredType ==
    ASSUME NEW l \in MC_SLOT_COUNT - 1 .. MC_SLOT_COUNT + 1
    PROVE  [slots |-> l, saves |-> l >= MC_SLOT_COUNT] \in File
BY CardManagerAssumption DEF File

LEMMA TypeInvNext == TypeInv /\ [Next]_vars => TypeInv'
<1> SUFFICES ASSUME TypeInv, [Next]_vars PROVE TypeInv'
  OBVIOUS
<1>0. /\ MaxNumber \in Nat /\ MC_SLOT_COUNT \in Nat \ {0}
      /\ MAX_MC_IMAGES \in Nat \ {0} /\ MAX_MC_IMAGES <= MaxNumber
  BY CardManagerAssumption
<1> USE <1>0 DEF TypeInv, TypeOK, Creating, Numbers, NoCard, ghosts
<1>1. CASE BootLoad
  <2>1. mc_file_name' \in Numbers
    BY <1>1 DEF BootLoad, ImageAt, ValidImages
  <2> QED
    BY <1>1, <2>1 DEF BootLoad
<1>2. CASE BootEmpty
  BY <1>2 DEF BootEmpty
<1>3. CASE GetNext \/ GetPrev
  <2>1. PICK n \in ValidImages : GoTo(n)
    BY <1>3 DEF GetNext, GetPrev, NextImages, PrevImages
  <2>2. n \in Numbers
    BY <2>1 DEF ValidImages
  <2>3. index_file' \in Seq(0 .. Base - 1)
    BY <2>1, Counted, IndexType DEF GoTo
  <2> QED
    BY <2>1, <2>2, <2>3 DEF GoTo
<1>4. CASE GetFault
  BY <1>4 DEF GetFault
<1>14. CASE Change
  BY <1>14 DEF Change
<1>5. CASE CreateBegin
  <2>1. ImageCount \in Nat
    BY Counted, CardManagerAssumption DEF ImageCount
  <2> QED
    BY <1>5, <2>1 DEF CreateBegin
<1>6. CASE CreateSlot
  <2> DEFINE longer == Longer(new_name)
  <2>1. longer \in 0 .. MC_SLOT_COUNT + 1
    BY <1>6 DEF CreateSlot, Longer, File
  <2> HIDE DEF longer
  <2>2. [slots |-> longer, saves |-> FALSE] \in File
    BY <2>1 DEF File
  <2>3. files' = [n \in DOMAIN files \cup {new_name} |->
                    IF n = new_name THEN [slots |-> longer, saves |-> FALSE]
                                    ELSE files[n]]
    BY <1>6 DEF CreateSlot, longer
  <2>4. DOMAIN files' \subseteq Numbers /\ \A n \in DOMAIN files' : files'[n] \in File
    BY <2>2, <2>3
  <2>5. /\ power' = power /\ slot' \in 0 .. MC_SLOT_COUNT /\ new_name' = new_name
        /\ UNCHANGED <<index_file, mc_file_name, ghosts, image_names>>
    BY <1>6 DEF CreateSlot
  <2> QED
    BY <2>4, <2>5
<1>7. CASE CreateError
  BY <1>7 DEF CreateError
<1>8. CASE CreateEnd
  <2>1. new_name - 1 \in Nat
    BY <1>8 DEF CreateEnd
  <2>2. index_file' \in Seq(0 .. Base - 1)
    BY <1>8, <2>1, IndexType DEF CreateEnd
  <2> QED
    BY <1>8, <2>2 DEF CreateEnd
<1>9. CASE PowerOff
  BY <1>9 DEF PowerOff
<1>10. CASE Save
  <2>1. DOMAIN files' = DOMAIN files /\ \A n \in DOMAIN files : files'[n] \in File
    BY <1>10 DEF Save, File
  <2> QED
    BY <1>10, <2>1 DEF Save
<1>11. ASSUME NEW n \in PCNumbers, PCDelete(n) PROVE TypeInv'
  BY <1>11 DEF PCDelete
<1>12. ASSUME NEW n \in PCNumbers, NEW l \in MC_SLOT_COUNT - 1 .. MC_SLOT_COUNT + 1,
              PCStore(n, [slots |-> l, saves |-> l >= MC_SLOT_COUNT])
       PROVE  TypeInv'
  <2>1. [slots |-> l, saves |-> l >= MC_SLOT_COUNT] \in File
    BY StoredType
  <2>2. n \in Numbers
    BY CardManagerAssumption
  <2> QED
    BY <1>12, <2>1, <2>2 DEF PCStore
<1>13. CASE UNCHANGED vars
  BY <1>13 DEF vars
<1> QED
  BY <1>1, <1>2, <1>3, <1>4, <1>5, <1>6, <1>7, <1>8, <1>9, <1>10, <1>11, <1>12,
     <1>13, <1>14 DEF Next

\* The files are images of at most the length of one under numbers within the
\* bound, and the index file holds nothing but digits, whatever a PC stored and
\* wherever creating stopped (memcard_manager.c, update_prev_loaded_memcard_index).
THEOREM CardTypeCorrect == Spec => []TypeOK
<1>1. TypeInv => TypeOK
  BY DEF TypeInv
<1> QED
  BY <1>1, TypeInvInit, TypeInvNext, PTL DEF Spec

-----------------------------------------------------------------------------
(* The image in use can be imported whole. *)

\* What CurrentWhole rests on: of the image being created the first slots are
\* there.
Lengths ==
    /\ \A n \in DOMAIN files : files[n] \in File
    /\ slot \in 0 .. MC_SLOT_COUNT

Begun ==
    Creating /\ slot > 0 => new_name \in DOMAIN files /\ files[new_name].slots >= slot

\* And there is nothing in use before the first image is created.
Nothing == power \in {"off", "first"} => mc_file_name = NoCard

CardsInv == Lengths /\ Begun /\ Nothing /\ CurrentWhole

LEMMA CardsInvInit == Init => CardsInv
BY CardManagerAssumption
   DEF Init, CardsInv, Lengths, Begun, Nothing, CurrentWhole, Creating

-----------------------------------------------------------------------------
\* A slot is written to the image being created, which may be the one in use.
LEMMA SlotWritten ==
    ASSUME CardsInv, CreateSlot
    PROVE  CardsInv'
<1> DEFINE m == new_name
           longer == Longer(m)
<1>1. slot \in Nat /\ slot < MC_SLOT_COUNT /\ MC_SLOT_COUNT \in Nat
  BY CardManagerAssumption DEF CardsInv, Lengths, CreateSlot
<1>2. m \in DOMAIN files => files[m].slots \in 0 .. MC_SLOT_COUNT + 1
  BY DEF CardsInv, Lengths, File
<1>3. /\ longer \in 0 .. MC_SLOT_COUNT + 1 /\ longer >= slot + 1
      /\ m \in DOMAIN files /\ files[m].slots >= MC_SLOT_COUNT => longer >= MC_SLOT_COUNT
  BY <1>1, <1>2 DEF Longer
<1> HIDE DEF longer, m
<1>4. files' = [n \in DOMAIN files \cup {m} |->
                   IF n = m THEN [slots |-> longer, saves |-> FALSE] ELSE files[n]]
  BY DEF CreateSlot, longer, m
<1>5. /\ power' = power /\ mc_file_name' = mc_file_name /\ new_name' = m
      /\ slot' = slot + 1 /\ power \in {"creating", "first"}
  BY DEF CreateSlot, Creating, m
<1>6. [slots |-> longer, saves |-> FALSE] \in File
  BY <1>3 DEF File
<1>7. Lengths'
  BY <1>1, <1>4, <1>5, <1>6 DEF CardsInv, Lengths
<1>8. Begun'
  BY <1>3, <1>4, <1>5 DEF Begun
<1>9. CurrentWhole' /\ Nothing'
  BY <1>3, <1>4, <1>5 DEF CardsInv, CurrentWhole, Whole, Nothing
<1> QED
  BY <1>7, <1>8, <1>9 DEF CardsInv

\* What boots, follows or precedes was seen to be valid.
LEMMA ValidChosen ==
    ASSUME CardsInv, BootLoad \/ GetNext \/ GetPrev
    PROVE  CardsInv'
<1>1. files' = files /\ slot' = slot
  BY DEF BootLoad, GetNext, GetPrev, GoTo
<1>2. \A n \in ValidImages : Whole(n)
  BY CardManagerAssumption DEF ValidImages, Whole
<1>3. \/ power' = "on" /\ mc_file_name' \in ValidImages
      \/ /\ power = "on" /\ power' = "switching"
         /\ new_name' \in ValidImages /\ mc_file_name' = mc_file_name
  BY DEF BootLoad, ImageAt, GetNext, NextImages, GetPrev, PrevImages, GoTo
<1> QED
  BY <1>1, <1>2, <1>3
     DEF CardsInv, Lengths, Begun, Nothing, Creating, CurrentWhole, Whole

\* The image created is complete when it is to come into use.
LEMMA Completed ==
    ASSUME CardsInv, CreateEnd
    PROVE  CardsInv'
<1>1. /\ files' = files /\ slot' = slot /\ power' = "switching"
      /\ mc_file_name' = mc_file_name /\ new_name' = new_name
      /\ slot = MC_SLOT_COUNT /\ Creating
  BY DEF CreateEnd
<1>2. Whole(new_name)
  BY <1>1, CardManagerAssumption DEF CardsInv, Begun, Whole
<1>3. mc_file_name = NoCard \/ Whole(mc_file_name)
  BY <1>1 DEF CardsInv, Creating, Nothing, CurrentWhole
<1> QED
  BY <1>1, <1>2, <1>3, CardManagerAssumption
     DEF CardsInv, Lengths, Begun, Nothing, Creating, CurrentWhole, Whole

LEMMA CardsInvNext == CardsInv /\ [Next]_vars => CardsInv'
<1> SUFFICES ASSUME CardsInv, [Next]_vars PROVE CardsInv'
  OBVIOUS
<1> USE CardManagerAssumption
    DEF CardsInv, Lengths, Begun, Nothing, Creating, CurrentWhole, Whole
<1>1. CASE BootEmpty
  BY <1>1 DEF BootEmpty
<1>2. CASE GetFault \/ Change
  BY <1>2 DEF GetFault, Change
<1>3. CASE CreateBegin
  BY <1>3 DEF CreateBegin
<1>4. CASE CreateError
  BY <1>4 DEF CreateError
<1>5. CASE PowerOff
  BY <1>5 DEF PowerOff
<1>6. CASE Save
  <2>1. /\ mc_file_name \in DOMAIN files /\ DOMAIN files' = DOMAIN files
        /\ \A n \in DOMAIN files : files'[n].slots = files[n].slots /\ files'[n] \in File
    BY <1>6 DEF Save, File
  <2> QED
    BY <1>6, <2>1 DEF Save
<1>7. ASSUME NEW n \in PCNumbers, PCDelete(n) PROVE CardsInv'
  BY <1>7 DEF PCDelete
<1>8. ASSUME NEW n \in PCNumbers, NEW l \in MC_SLOT_COUNT - 1 .. MC_SLOT_COUNT + 1,
             PCStore(n, [slots |-> l, saves |-> l >= MC_SLOT_COUNT])
      PROVE  CardsInv'
  BY <1>8, StoredType DEF PCStore
<1>9. CASE UNCHANGED vars
  BY <1>9 DEF vars
<1> QED
  BY <1>1, <1>2, <1>3, <1>4, <1>5, <1>6, <1>7, <1>8, <1>9,
     SlotWritten, ValidChosen, Completed DEF Next

\* The image in use, and the one it is being changed to, has every slot of an
\* image, and may be longer: whatever files a PC stored or deleted, of whatever
\* length, wherever creating was interrupted, also between the write of the
\* index and the change of the image, and whatever was read for an index
\* (is_image_valid, memcard_manager_get, memcard_manager_create).
THEOREM CurrentWholeInvariant == Spec => []CurrentWhole
<1>1. CardsInv => CurrentWhole
  BY DEF CardsInv
<1> QED
  BY <1>1, CardsInvInit, CardsInvNext, PTL DEF Spec

-----------------------------------------------------------------------------
(* Creating an image keeps the saves of the others. *)

\* As many files as the largest number, or more: the next number, which is
\* computed from their count, is above them all.
NoGaps ==
    /\ IsFiniteSet(DOMAIN files)
    /\ DOMAIN files \subseteq 0 .. Cardinality(DOMAIN files)
    /\ Cardinality(DOMAIN files) <= MAX_MC_IMAGES

\* The image being created is new, or is there without saves.
Unsaved ==
    Creating =>
        \/ /\ new_name = Cardinality(DOMAIN files) + 1
           /\ Cardinality(DOMAIN files) < MAX_MC_IMAGES
        \/ new_name \in DOMAIN files /\ ~files[new_name].saves

NamesInv == TypeInv /\ (~edited => NoGaps /\ Unsaved)

\* When the promise holds: the files are numbered without gaps at first and
\* their count fits memcard_n.  The run CardsGap breaks the promise where there
\* is a gap.
Numbered ==
    /\ MAX_MC_IMAGES < CountWidth
    /\ DOMAIN FilesAtFirst \subseteq 0 .. Cardinality(DOMAIN FilesAtFirst)
    /\ Cardinality(DOMAIN FilesAtFirst) <= MAX_MC_IMAGES

LEMMA NamesInvInit == ASSUME Numbered PROVE Init => NamesInv
<1> SUFFICES ASSUME Init PROVE NamesInv
  OBVIOUS
<1>1. TypeInv
  BY TypeInvInit
<1>2. IsFiniteSet(Numbers)
  BY FS_Interval, CardManagerAssumption DEF Numbers
<1>3. IsFiniteSet(DOMAIN FilesAtFirst)
  BY <1>2, FS_Subset, CardManagerAssumption
<1> QED
  BY <1>1, <1>3 DEF Init, NamesInv, NoGaps, Unsaved, Creating, Numbered

\* A slot is written under a new name, or of the image that is being created.
LEMMA SlotNamed ==
    ASSUME Numbered, NamesInv, ~edited, CreateSlot
    PROVE  NoGaps' /\ Unsaved'
<1> DEFINE m == new_name
           D == DOMAIN files
           c == Cardinality(D)
           new == [slots |-> Longer(m), saves |-> FALSE]
<1>1. files' = [n \in D \cup {m} |-> IF n = m THEN new ELSE files[n]]
  BY DEF CreateSlot
<1>2. new.saves = FALSE
  OBVIOUS
<1> HIDE DEF new
<1>3. DOMAIN files' = D \cup {m} /\ files'[m] = new
  BY <1>1
<1>4. IsFiniteSet(D) /\ c \in Nat /\ D \subseteq 0 .. c /\ c <= MAX_MC_IMAGES
  BY FS_CardinalityType DEF NamesInv, NoGaps
<1>5. (m = c + 1 /\ c < MAX_MC_IMAGES) \/ m \in D
  BY DEF NamesInv, Unsaved, CreateSlot
<1>6. IsFiniteSet(D \cup {m})
      /\ Cardinality(D \cup {m}) = IF m \in D THEN c ELSE c + 1
  BY <1>4, FS_AddElement
<1> HIDE DEF m, D, c
<1>7. NoGaps'
  <2> DEFINE c2 == Cardinality(D \cup {m})
  <2>1. c2 \in Nat /\ c <= c2 /\ c2 <= MAX_MC_IMAGES /\ m \in 0 .. c2
    <3>1. MAX_MC_IMAGES \in Nat
      BY CardManagerAssumption
    <3>2. CASE m \in D
      BY <1>4, <1>6, <3>2
    <3>3. CASE m \notin D
      BY <1>4, <1>5, <1>6, <3>1, <3>3
    <3> QED
      BY <3>2, <3>3
  <2> HIDE DEF c2
  <2>2. D \cup {m} \subseteq 0 .. c2
    BY <1>4, <2>1
  <2>3. D \cup {m} \subseteq 0 .. Cardinality(D \cup {m})
        /\ Cardinality(D \cup {m}) <= MAX_MC_IMAGES
    BY <2>1, <2>2 DEF c2
  <2> QED
    BY <1>3, <1>6, <2>3 DEF NoGaps
<1>8. m' = m
  BY DEF CreateSlot, m
<1>9. new_name' \in DOMAIN files' /\ ~files'[new_name'].saves
  BY <1>2, <1>3, <1>8 DEF m
<1> QED
  BY <1>7, <1>9 DEF Unsaved

LEMMA NamesInvNext == ASSUME Numbered PROVE NamesInv /\ [Next]_vars => NamesInv'
<1> SUFFICES ASSUME NamesInv, [Next]_vars PROVE NamesInv'
  OBVIOUS
<1>0. TypeInv'
  BY TypeInvNext DEF NamesInv
<1>1. CASE CreateSlot
  BY <1>0, <1>1, SlotNamed DEF NamesInv, CreateSlot, ghosts
<1>2. CASE \/ BootLoad \/ GetNext \/ GetPrev \/ GetFault \/ Change
           \/ CreateError \/ CreateEnd \/ PowerOff
  <2> USE DEF BootLoad, GetNext, GetPrev, GoTo, GetFault, Change, CreateError,
              CreateEnd, PowerOff, ghosts
  <2>1. files' = files /\ edited' = edited
    BY <1>2
  <2>2. ~Creating'
    BY <1>2 DEF Creating
  <2> QED
    BY <1>0, <2>1, <2>2 DEF NamesInv, NoGaps, Unsaved
<1>3. CASE BootEmpty
  <2>1. files' = files /\ edited' = edited
    BY <1>3 DEF BootEmpty, ghosts
  <2>2. Creating' => NamedImages = {} /\ new_name' = 1
    BY <1>3 DEF BootEmpty, Creating
  <2>3. Creating' => Cardinality(DOMAIN files) = 0
    BY <2>2, FS_EmptySet DEF NamedImages
  <2> QED
    BY <1>0, <2>1, <2>2, <2>3, CardManagerAssumption DEF NamesInv, NoGaps, Unsaved
<1>4. CASE CreateBegin
  <2> SUFFICES ASSUME ~edited PROVE NamesInv'
    BY <1>0, <1>4 DEF NamesInv, CreateBegin, ghosts
  <2> DEFINE c == Cardinality(DOMAIN files)
  <2>1. files' = files /\ ImageCount < MAX_MC_IMAGES /\ new_name' = ImageCount + 1
    BY <1>4 DEF CreateBegin
  <2>2. c \in Nat /\ c <= MAX_MC_IMAGES
    BY FS_CardinalityType DEF NamesInv, NoGaps
  <2>3. ImageCount = c % CountWidth
    BY DEF ImageCount, NamedImages
  <2> HIDE DEF c
  <2>4. ImageCount = c
    BY <2>2, <2>3, CardManagerAssumption DEF Numbered
  <2> QED
    BY <1>0, <2>1, <2>4 DEF NamesInv, NoGaps, Unsaved, c
<1>5. CASE Save
  <2>1. DOMAIN files' = DOMAIN files /\ ~Creating' /\ edited' = edited
    BY <1>5 DEF Save, Creating, ghosts
  <2> QED
    BY <1>0, <2>1 DEF NamesInv, NoGaps, Unsaved
<1>6. ASSUME NEW n \in PCNumbers, NEW f, PCDelete(n) \/ PCStore(n, f) PROVE NamesInv'
  BY <1>0, <1>6 DEF NamesInv, PCDelete, PCStore
<1>7. CASE UNCHANGED vars
  BY <1>0, <1>7 DEF vars, ghosts, NamesInv, NoGaps, Unsaved, Creating
<1> QED
  BY <1>1, <1>2, <1>3, <1>4, <1>5, <1>6, <1>7 DEF Next

\* A step of creating leaves saves in place.
LEMMA CreatingKeeps ==
    ASSUME Numbered, NamesInv, [Next]_vars, Creating, ~edited,
           NEW n \in DOMAIN files, files[n].saves
    PROVE  n \in DOMAIN files' /\ files'[n].saves
<1>1. CASE CreateSlot
  <2>1. n # new_name
    <3>1. ~(Cardinality(DOMAIN files) + 1 \in DOMAIN files)
      BY FS_CardinalityType DEF NamesInv, NoGaps
    <3> QED
      BY <3>1 DEF NamesInv, Unsaved
  <2> QED
    BY <1>1, <2>1 DEF CreateSlot
<1>2. CASE files' = files
  BY <1>2
<1>3. CreateSlot \/ files' = files
  BY DEF Next, vars, Creating, BootLoad, BootEmpty, GetNext, GetPrev, GoTo, GetFault,
         Change, CreateBegin, CreateError, CreateEnd, PowerOff, Save, PCDelete, PCStore
<1> QED
  BY <1>1, <1>2, <1>3

\* Creating an image costs no other its saves, for any number of images and
\* slots and any accident while creating, as long as there is no gap in the
\* numbers and nobody but the device changes the files (memcard_manager_create).
THEOREM CreateKeeps ==
    ASSUME Numbered
    PROVE  Spec => CreateKeepsSaves
<1>1. Init => NamesInv
  BY NamesInvInit
<1>2. NamesInv /\ [Next]_vars => NamesInv'
  BY NamesInvNext
<1>3. NamesInv /\ [Next]_vars =>
        [Creating /\ ~edited =>
                     \A n \in DOMAIN files :
                       files[n].saves => n \in DOMAIN files' /\ files'[n].saves]_vars
  BY CreatingKeeps
<1> QED
  BY <1>1, <1>2, <1>3, PTL DEF Spec, CreateKeepsSaves

-----------------------------------------------------------------------------
(* The next image has the next number. *)

\* Every image has a number of one digit: up to 9.MCR.
OneDigit == MaxNumber < Base

\* Then the order of the names is the order of the numbers.
LEMMA OneDigitOrder ==
    ASSUME OneDigit, NEW m \in Numbers, NEW n \in Numbers
    PROVE  Before(m, n) <=> m < n
<1>1. m \in Nat /\ n \in Nat /\ m < Base /\ n < Base
  BY CardManagerAssumption DEF OneDigit, Numbers
<1>2. Digits[m] = <<m>> /\ Digits[n] = <<n>>
  BY <1>1, DigitsUnfold DEF Written
<1>3. SubSeq(<<m>>, 1, 0) = SubSeq(<<n>>, 1, 0)
  OBVIOUS
<1> QED
  BY <1>1, <1>2, <1>3 DEF Before

\* What the two requests promise of the numbers.
NextNumber ==
    /\ mc_file_name < new_name'
    /\ \A n \in ValidImages : n <= mc_file_name \/ new_name' <= n
PrevNumber ==
    /\ new_name' < mc_file_name
    /\ \A n \in ValidImages : n <= new_name' \/ mc_file_name <= n

LEMMA NextIsNext ==
    ASSUME OneDigit, TypeOK, GetNext
    PROVE  NextNumber
<1>1. PICK k \in NextImages : IsNext(k) /\ GoTo(k)
  BY DEF GetNext
<1>2. mc_file_name \in ValidImages /\ k \in ValidImages /\ Before(mc_file_name, k)
  BY <1>1 DEF GetNext, Found, NextImages
<1>3. new_name' = k
  BY <1>1 DEF GoTo
<1>4. \A n \in ValidImages : n \in Numbers /\ n \in Nat
  BY CardManagerAssumption DEF TypeOK, ValidImages, Numbers
<1>5. mc_file_name < k
  BY <1>2, <1>4, OneDigitOrder
<1>6. ASSUME NEW n \in ValidImages, mc_file_name < n PROVE k <= n
  <2>1. n \in NextImages
    BY <1>2, <1>4, <1>6, OneDigitOrder DEF NextImages
  <2>2. n = k \/ k < n
    BY <1>1, <1>2, <1>4, <2>1, OneDigitOrder DEF IsNext
  <2> QED
    BY <1>2, <1>4, <2>2
<1> QED
  BY <1>2, <1>3, <1>4, <1>5, <1>6 DEF NextNumber

LEMMA PrevIsPrevious ==
    ASSUME OneDigit, TypeOK, GetPrev
    PROVE  PrevNumber
<1>1. PICK k \in PrevImages : (\A m \in PrevImages : m = k \/ Before(m, k)) /\ GoTo(k)
  BY DEF GetPrev
<1>2. mc_file_name \in ValidImages /\ k \in ValidImages /\ Before(k, mc_file_name)
  BY <1>1 DEF GetPrev, Found, PrevImages
<1>3. new_name' = k
  BY <1>1 DEF GoTo
<1>4. \A n \in ValidImages : n \in Numbers /\ n \in Nat
  BY CardManagerAssumption DEF TypeOK, ValidImages, Numbers
<1>5. k < mc_file_name
  BY <1>2, <1>4, OneDigitOrder
<1>6. ASSUME NEW n \in ValidImages, n < mc_file_name PROVE n <= k
  <2>1. n \in PrevImages
    BY <1>2, <1>4, <1>6, OneDigitOrder DEF PrevImages
  <2>2. n = k \/ n < k
    BY <1>1, <1>2, <1>4, <2>1, OneDigitOrder
  <2> QED
    BY <1>2, <1>4, <2>2
<1> QED
  BY <1>2, <1>3, <1>4, <1>5, <1>6 DEF PrevNumber

\* The next image has the next higher number and the previous one the next
\* lower, up to 9.MCR: whatever images there are, with or without gaps, and
\* whoever stored them (memcard_manager_get_next, memcard_manager_get_prev).
THEOREM NextIsNextImage ==
    ASSUME OneDigit
    PROVE  Spec => NextIsNextNumber
<1>1. TypeInv /\ [Next]_vars =>
        [/\ GetNext => /\ mc_file_name < new_name'
                       /\ \A n \in ValidImages : n <= mc_file_name \/ new_name' <= n
         /\ GetPrev => /\ new_name' < mc_file_name
                       /\ \A n \in ValidImages : n <= new_name' \/ mc_file_name <= n]_vars
  BY NextIsNext, PrevIsPrevious DEF TypeInv, NextNumber, PrevNumber
<1> QED
  BY <1>1, TypeInvInit, TypeInvNext, PTL DEF Spec, NextIsNextNumber

-----------------------------------------------------------------------------
(* The image in use is loaded again. *)

\* The files but the one being created, which is above them all.
Others == DOMAIN files \ {new_name}

Complete ==
    IF Creating
    THEN /\ new_name = Cardinality(Others) + 1
         /\ \A n \in Others : n < new_name /\ files[n].slots = MC_SLOT_COUNT
         /\ new_name \in DOMAIN files => files[new_name].slots = slot
         /\ power = "creating" => mc_file_name # new_name
    ELSE \A n \in DOMAIN files : files[n].slots = MC_SLOT_COUNT

\* The image that is to be loaded again is one of these: the one in use, the
\* one it is being changed to, or either when the power was cut.
Recent ==
    IF power = "off" THEN last
    ELSE IF power = "switching" THEN {new_name} ELSE {mc_file_name} \ {NoCard}

\* The index file leads to n; without one the first image is loaded.
Remembered(n) ==
    /\ n \in ValidImages
    /\ \/ index_file = <<Position(n)>>
       \/ index_file = <<>> /\ Position(n) = 0

Recalled == IF Recent = {} THEN index_file = <<>> ELSE \E n \in Recent : Remembered(n)

\* A PC that changes the files, or an image left unfinished, ends all this.
Alone == ~edited /\ ~cut

PlaceInv == TypeInv /\ CardsInv /\ NamesInv /\ (Alone => Complete /\ Recalled)

\* When the promise holds: numbers of one digit without gaps, and an index file
\* that can be created and is read back clean.
Undisturbed ==
    /\ OneDigit /\ Numbered /\ LongNames
    /\ Garbage = {<<>>}
    /\ \A n \in DOMAIN FilesAtFirst : FilesAtFirst[n].slots = MC_SLOT_COUNT

\* A place of one digit is read back as it was written.
LEMMA OneDigitRead ==
    ASSUME NEW i \in 0 .. Base - 1
    PROVE  Digits[i] = <<i>> /\ Value(<<i>>) = i
<1>1. i \in Nat /\ i < Base /\ Base \in Nat
  BY CardManagerAssumption
<1>2. Digits[i] = <<i>>
  BY <1>1, DigitsUnfold DEF Written
<1> DEFINE d == <<i>>
           Up(f, k) == IF k = 0 THEN 0 ELSE f[k - 1] * Base + d[k]
           u == CHOOSE f : f = [k \in 0 .. Len(d) |-> Up(f, k)]
<1>3. Value(d) = u[Len(d)]
  BY DEF Value
<1>4. Len(d) = 1 /\ d[1] = i
  OBVIOUS
<1> HIDE DEF d
<1>5. \E f : f = [k \in 0 .. Len(d) |-> Up(f, k)]
  <2> DEFINE g == [k \in 0 .. 1 |-> IF k = 0 THEN 0 ELSE i]
  <2>1. g[0] = 0 /\ g[1] = i
    OBVIOUS
  <2>2. \A k \in 0 .. 1 : Up(g, k) = g[k]
    BY <1>1, <1>4, <2>1
  <2>3. g = [k \in 0 .. 1 |-> Up(g, k)]
    BY <2>2
  <2> QED
    BY <1>4, <2>3
<1>6. u = [k \in 0 .. Len(d) |-> Up(u, k)]
  BY <1>5
<1> HIDE DEF u
<1>7. u[0] = 0 /\ u[1] = u[0] * Base + i
  BY <1>4, <1>6
<1> QED
  BY <1>1, <1>2, <1>3, <1>4, <1>7 DEF d

\* A valid image has a place of its own, and the place is one digit.
LEMMA Places ==
    ASSUME OneDigit, DOMAIN files \subseteq Numbers, NEW n \in ValidImages
    PROVE  /\ Position(n) \in 0 .. Base - 1
           /\ Position(n) < Cardinality(ValidImages)
           /\ \A m \in ImageAt(Position(n)) : m = n
<1> DEFINE P(m) == {k \in ValidImages : Before(k, m)}
<1>1. \A m \in ValidImages : m \in Numbers
  BY DEF ValidImages
<1>2. \A m \in ValidImages : P(m) = {k \in ValidImages : k < m}
  BY <1>1, OneDigitOrder
<1>3. \A m : Position(m) = Cardinality(P(m))
  BY DEF Position
<1>4. \A m : IsFiniteSet(P(m)) /\ Cardinality(P(m)) \in Nat
  BY ValidFinite, FS_Subset, FS_CardinalityType
<1>5. Numbers = 0 .. MaxNumber /\ MaxNumber \in Nat /\ MaxNumber < Base
  BY CardManagerAssumption DEF OneDigit, Numbers
<1>6. \A i : ImageAt(i) = {m \in ValidImages : Cardinality(P(m)) = i}
  BY DEF ImageAt
<1> HIDE DEF P
<1>7. Cardinality(P(n)) \in 0 .. Base - 1
  <2>1. P(n) \subseteq 0 .. n - 1
    BY <1>1, <1>2, <1>5
  <2>2. n \in Nat /\ n < Base /\ Base \in Nat
    BY <1>1, <1>5, CardManagerAssumption
  <2> DEFINE below == 0 .. n - 1
             before == P(n)
  <2>3. IsFiniteSet(below) /\ Cardinality(below) = n
    BY <2>2, FS_Interval
  <2> HIDE DEF below, before
  <2>4. before \in SUBSET below
    BY <2>1 DEF below, before
  <2>5. Cardinality(before) <= n
    BY <2>3, <2>4, FS_Subset
  <2> QED
    BY <1>4, <2>2, <2>5 DEF before
<1>8. Cardinality(P(n)) < Cardinality(ValidImages)
  <2>1. P(n) \subseteq ValidImages /\ n \notin P(n)
    BY <1>1, <1>2, <1>5
  <2>2. Cardinality(P(n)) <= Cardinality(ValidImages)
        /\ Cardinality(P(n)) # Cardinality(ValidImages)
    BY <2>1, ValidFinite, FS_Subset
  <2> QED
    BY <1>4, <2>2, ValidFinite
<1>9. ASSUME NEW a \in ValidImages, NEW b \in ValidImages, a < b
      PROVE  Cardinality(P(a)) # Cardinality(P(b))
  <2>1. P(a) \subseteq P(b) /\ a \in P(b) /\ a \notin P(a)
    BY <1>1, <1>2, <1>5, <1>9
  <2> QED
    BY <1>4, <2>1, FS_Subset
<1>10. ASSUME NEW m \in ImageAt(Position(n)) PROVE m = n
  <2>1. m \in ValidImages /\ Cardinality(P(m)) = Cardinality(P(n))
    BY <1>3, <1>6
  <2>2. m \in Nat /\ n \in Nat
    BY <1>1, <1>5, <2>1
  <2>3. ~(m < n) /\ ~(n < m)
    BY <1>9, <2>1
  <2> QED
    BY <2>2, <2>3
<1> QED
  BY <1>3, <1>7, <1>8, <1>10

\* What boots is the image in use before, or the first one ever.
LEMMA Reloaded ==
    ASSUME Undisturbed, PlaceInv, Alone, BootLoad
    PROVE  /\ last # {} => mc_file_name' \in last /\ Remembered(mc_file_name')
           /\ last = {} => /\ mc_file_name' \in ValidImages
                           /\ Position(mc_file_name') = 0
<1>1. power = "off" /\ Recent = last /\ DOMAIN files \subseteq Numbers
  BY DEF BootLoad, Recent, PlaceInv, TypeInv, TypeOK
<1>2. CASE last = {}
  <2>1. index_file = <<>>
    BY <1>1, <1>2 DEF PlaceInv, Recalled
  <2>2. mc_file_name' \in ImageAt(0)
    BY <2>1 DEF BootLoad, PrevLoadedIndex
  <2> QED
    BY <1>2, <2>2 DEF ImageAt, Position
<1>3. CASE last # {}
  <2>1. PICK n \in last : Remembered(n)
    BY <1>1, <1>3 DEF PlaceInv, Recalled
  <2> DEFINE p == Position(n)
  <2>2. /\ p \in 0 .. Base - 1 /\ p < Cardinality(ValidImages)
        /\ \A m \in ImageAt(p) : m = n
    BY <1>1, <2>1, Places DEF Remembered, Undisturbed
  <2>3. InRange(p)
    <3>1. Cardinality(ValidImages) <= MAX_MC_IMAGES
      BY <1>1, ValidFinite, CardManagerAssumption DEF PlaceInv, NamesInv, NoGaps, Alone
    <3> QED
      BY <1>1, <2>2, <3>1, ValidFinite, CardManagerAssumption DEF InRange
  <2>4. PrevLoadedIndex = {p}
    <3>1. CASE index_file = <<>>
      BY <2>1, <3>1 DEF Remembered, PrevLoadedIndex
    <3>2. CASE index_file = <<p>>
      <4>1. <<p>> # <<>> /\ <<p>> \o <<>> = <<p>>
        OBVIOUS
      <4>2. PrevLoadedIndex = {Value(<<p>>)}
        BY <3>2, <4>1 DEF PrevLoadedIndex, Undisturbed
      <4> QED
        BY <2>2, <4>2, OneDigitRead
    <3> QED
      BY <2>1, <3>1, <3>2 DEF Remembered
  <2>5. mc_file_name' \in ImageAt(p)
    <3> HIDE DEF p
    <3> QED
      BY <2>3, <2>4 DEF BootLoad
  <2> QED
    BY <1>3, <2>1, <2>2, <2>5
<1> QED
  BY <1>2, <1>3

\* One digit written over at most one digit.
LEMMA Rewritten ==
    ASSUME Undisturbed, Recalled, NEW i \in 0 .. Base - 1, UpdateIndex(i)
    PROVE  index_file' = <<i>>
<1>1. index_file' = Overwrite(index_file, <<i>>)
  BY OneDigitRead DEF UpdateIndex, Undisturbed
<1>2. PICK p : index_file = <<>> \/ index_file = <<p>>
  BY DEF Recalled, Remembered
<1>3. ASSUME NEW s, s = <<>> \/ s = <<p>> PROVE Overwrite(s, <<i>>) = <<i>>
  <2> DEFINE rest == SubSeq(s, 2, Len(s))
  <2>1. s \in Seq({p}) /\ Len(s) <= 1
    <3>1. <<>> \in Seq({p}) /\ Len(<<>>) = 0
      OBVIOUS
    <3>2. <<p>> \in Seq({p}) /\ Len(<<p>>) = 1
      OBVIOUS
    <3>3. CASE s = <<>>
      BY <3>1, <3>3
    <3>4. CASE s = <<p>>
      BY <3>2, <3>4
    <3> QED
      BY <1>3, <3>3, <3>4
  <2>2. rest \in Seq({p}) /\ Len(rest) = 0
    BY <2>1
  <2>3. rest = <<>>
    BY <2>2, EmptySeq
  <2>4. <<i>> \o <<>> = <<i>> /\ Len(<<i>>) + 1 = 2
    OBVIOUS
  <2>5. Overwrite(s, <<i>>) = <<i>> \o SubSeq(s, Len(<<i>>) + 1, Len(s))
    BY DEF Overwrite
  <2> QED
    BY <2>3, <2>4, <2>5
<1> QED
  BY <1>1, <1>2, <1>3

LEMMA PlaceInvInit == ASSUME Undisturbed PROVE Init => PlaceInv
<1> SUFFICES ASSUME Init PROVE PlaceInv
  OBVIOUS
<1>1. TypeInv /\ CardsInv /\ NamesInv
  BY TypeInvInit, CardsInvInit, NamesInvInit DEF Undisturbed
<1> QED
  BY <1>1 DEF Init, PlaceInv, Complete, Recalled, Recent, Creating, Undisturbed

\* Places depend on the lengths of the files only.
LEMMA SameFiles ==
    ASSUME DOMAIN files' = DOMAIN files,
           \A n \in DOMAIN files : files'[n].slots = files[n].slots
    PROVE  ValidImages' = ValidImages /\ \A n : Position(n)' = Position(n)
BY DEF ValidImages, Position

-----------------------------------------------------------------------------
(* One lemma for each kind of step that changes what is remembered. *)

\* What a PC, or a creation cut short, leaves behind promises nothing.
LEMMA StaysAlone ==
    ASSUME [Next]_vars, Alone'
    PROVE  /\ Alone /\ ~CreateError
           /\ \A n, f : ~PCDelete(n) /\ ~PCStore(n, f)
           /\ PowerOff => ~Creating
<1>1. ~CreateError /\ (PowerOff => ~Creating) /\ \A n, f : ~PCDelete(n) /\ ~PCStore(n, f)
  BY DEF Alone, CreateError, PowerOff, PCDelete, PCStore
<1>2. CASE PowerOff
  BY <1>1, <1>2 DEF Alone, PowerOff
<1>3. CASE UNCHANGED ghosts
  BY <1>1, <1>3 DEF Alone, ghosts
<1>4. \/ PowerOff \/ CreateError \/ UNCHANGED ghosts
      \/ \E n \in PCNumbers : PCDelete(n) \/ \E f : PCStore(n, f)
  BY DEF Next, vars, BootLoad, BootEmpty, GetNext, GetPrev, GoTo, GetFault, Change,
         CreateBegin, CreateSlot, CreateEnd, Save
<1> QED
  BY <1>1, <1>2, <1>3, <1>4

LEMMA BootKeeps ==
    ASSUME Undisturbed, PlaceInv, Alone, BootLoad
    PROVE  Complete' /\ Recalled'
<1>1. files' = files /\ index_file' = index_file /\ power = "off" /\ power' = "on"
  BY DEF BootLoad
<1>2. ValidImages' = ValidImages /\ \A n : Position(n)' = Position(n)
  BY <1>1, SameFiles
<1>3. Complete'
  BY <1>1 DEF PlaceInv, Complete, Creating
<1>4. mc_file_name' \in ValidImages
  BY DEF BootLoad, ImageAt
<1>5. mc_file_name' # NoCard
  BY <1>4, CardManagerAssumption
     DEF PlaceInv, TypeInv, TypeOK, ValidImages, Numbers, NoCard
<1>6. Recent' = {mc_file_name'}
  BY <1>1, <1>5 DEF Recent
<1>7. Position(mc_file_name)' = Position(mc_file_name')
  BY <1>1 DEF Position, ValidImages
<1>8. Remembered(mc_file_name)'
  <2>1. CASE last = {}
    <3>1. index_file = <<>>
      BY <1>1, <2>1 DEF PlaceInv, Recalled, Recent
    <3> QED
      BY <1>1, <1>2, <1>4, <1>7, <2>1, <3>1, Reloaded DEF Remembered
  <2>2. CASE last # {}
    BY <1>1, <1>2, <1>7, <2>2, Reloaded DEF Remembered
  <2> QED
    BY <2>1, <2>2
<1>9. Remembered(mc_file_name)' => \E n \in Recent' : Remembered(n)'
  BY <1>1, <1>6, <1>7 DEF Remembered, ValidImages
<1> QED
  BY <1>3, <1>6, <1>8, <1>9 DEF Recalled

\* The place of the image that is changed to is written first.
LEMMA IndexWritten ==
    ASSUME Undisturbed, PlaceInv, Alone,
           NEW n \in ValidImages, n = new_name', power' = "switching",
           UNCHANGED files, UpdateIndex(Position(n))
    PROVE  Recalled'
<1>1. DOMAIN files \subseteq Numbers
  BY DEF PlaceInv, TypeInv, TypeOK
<1>2. index_file' = <<Position(n)>>
  BY <1>1, Places, Rewritten DEF Undisturbed, PlaceInv
<1>3. ValidImages' = ValidImages /\ Position(new_name)' = Position(n)
  BY DEF ValidImages, Position
<1>4. Remembered(new_name)' /\ Recent' = {new_name'}
  BY <1>2, <1>3 DEF Remembered, Recent
<1>5. Remembered(new_name)' => \E m \in Recent' : Remembered(m)'
  BY <1>3, <1>4 DEF Remembered, ValidImages, Position
<1> QED
  BY <1>4, <1>5 DEF Recalled

LEMMA BeginKeeps ==
    ASSUME Undisturbed, PlaceInv, Alone, CreateBegin
    PROVE  Complete' /\ Recalled'
<1> DEFINE c == Cardinality(DOMAIN files)
<1>1. /\ power = "on" /\ power' = "creating" /\ new_name' = ImageCount + 1
      /\ UNCHANGED <<files, index_file, mc_file_name>>
  BY DEF CreateBegin
<1>2. c \in Nat /\ c <= MAX_MC_IMAGES /\ DOMAIN files \subseteq 0 .. c
  BY FS_CardinalityType DEF PlaceInv, NamesInv, NoGaps, Alone
<1>3. ImageCount = c % CountWidth
  BY DEF ImageCount, NamedImages
<1> HIDE DEF c
<1>4. ImageCount = c
  BY <1>2, <1>3, CardManagerAssumption DEF Undisturbed, Numbered
<1>5. new_name' \notin DOMAIN files /\ \A n \in DOMAIN files : n < new_name'
  BY <1>1, <1>2, <1>4
<1>6. Others' = DOMAIN files
  BY <1>1, <1>5 DEF Others
<1>7. mc_file_name \in DOMAIN files
  BY <1>1 DEF PlaceInv, CardsInv, CurrentWhole, Whole
<1>8. Complete'
  BY <1>1, <1>4, <1>5, <1>6, <1>7 DEF PlaceInv, Complete, Creating, c
<1>9. ValidImages' = ValidImages /\ \A n : Position(n)' = Position(n)
  BY <1>1, SameFiles
<1>10. Recent' = Recent
  BY <1>1 DEF Recent
<1> QED
  BY <1>1, <1>8, <1>9, <1>10 DEF PlaceInv, Recalled, Remembered

\* The slots written do not change the place of the image in use, which has a
\* lower number.
LEMMA SlotKeeps ==
    ASSUME Undisturbed, PlaceInv, Alone, CreateSlot
    PROVE  Complete' /\ Recalled'
<1> DEFINE m == new_name
           new == [slots |-> Longer(m), saves |-> FALSE]
<1>0. slot \in Nat
  BY CardManagerAssumption DEF PlaceInv, TypeInv, TypeOK
<1>1. /\ Creating /\ UNCHANGED <<power, index_file, mc_file_name, new_name>>
      /\ files' = [n \in DOMAIN files \cup {m} |-> IF n = m THEN new ELSE files[n]]
      /\ slot' = slot + 1
  BY DEF CreateSlot
<1>2. new.slots = slot'
  <2>1. m \in DOMAIN files => files[m].slots = slot
    BY <1>1 DEF PlaceInv, Complete
  <2> QED
    BY <1>0, <1>1, <2>1 DEF Longer
<1> HIDE DEF new
<1>3. Others' = Others /\ \A n \in Others : files'[n] = files[n]
  BY <1>1 DEF Others
<1>4. Complete'
  BY <1>1, <1>2, <1>3 DEF PlaceInv, Complete, Creating
<1>5. CASE power = "first"
  BY <1>1, <1>4, <1>5 DEF PlaceInv, CardsInv, Nothing, Recalled, Recent
<1>6. CASE power = "creating"
  <2> DEFINE f == mc_file_name
  <2>1. MaxNumber \in Nat /\ Numbers = 0 .. MaxNumber
    BY CardManagerAssumption DEF Numbers
  <2>2. f \in DOMAIN files /\ f # NoCard /\ DOMAIN files \subseteq Numbers
    BY <1>6, <2>1 DEF PlaceInv, CardsInv, CurrentWhole, Whole, TypeInv, TypeOK, NoCard
  <2>3. f \in Others /\ f < m /\ f \in Numbers /\ m \in Numbers
    BY <1>1, <1>6, <2>2 DEF PlaceInv, Complete, Others, TypeInv, TypeOK
  <2>4. Recent = {f} /\ Recent' = {f}
    BY <1>1, <1>6, <2>2 DEF Recent
  <2>5. Remembered(f)
    BY <2>4 DEF PlaceInv, Recalled
  <2>6. \A n : n # m => (n \in ValidImages' <=> n \in ValidImages)
    BY <1>1, <1>3 DEF ValidImages, Others
  <2>7. ~Before(m, f)
    BY <2>1, <2>3, OneDigitOrder DEF Undisturbed
  <2>8. {n \in ValidImages' : Before(n, mc_file_name')}
           = {n \in ValidImages : Before(n, f)}
    BY <1>1, <2>6, <2>7
  <2>9. Position(mc_file_name)' = Position(f)
    BY <2>8 DEF Position
  <2>10. f \in ValidImages'
    BY <2>1, <2>3, <2>5, <2>6 DEF Remembered
  <2>11. Remembered(mc_file_name)'
    BY <1>1, <2>5, <2>9, <2>10 DEF Remembered
  <2>12. Remembered(mc_file_name)' => \E n \in Recent' : Remembered(n)'
    BY <1>1, <2>4, <2>9 DEF Remembered, Position
  <2> QED
    BY <1>4, <2>4, <2>11, <2>12 DEF Recalled
<1> QED
  BY <1>1, <1>5, <1>6 DEF Creating

\* The last slot makes the new image an image, in the place after all others.
LEMMA EndKeeps ==
    ASSUME Undisturbed, PlaceInv, Alone, CreateEnd
    PROVE  Complete' /\ Recalled'
<1> DEFINE m == new_name
<1>1. /\ Creating /\ slot = MC_SLOT_COUNT /\ UpdateIndex(m - 1)
      /\ new_name' = m /\ power' = "switching" /\ files' = files
  BY DEF CreateEnd
<1>2. m \in DOMAIN files /\ files[m].slots = MC_SLOT_COUNT
  BY <1>1, CardManagerAssumption DEF PlaceInv, CardsInv, Begun, Complete
<1>3. \A n \in DOMAIN files : files[n].slots = MC_SLOT_COUNT
  BY <1>1, <1>2 DEF PlaceInv, Complete, Others
<1>4. MaxNumber \in Nat /\ Numbers = 0 .. MaxNumber /\ DOMAIN files \subseteq Numbers
  BY CardManagerAssumption DEF Numbers, PlaceInv, TypeInv, TypeOK
<1>5. m \in Numbers /\ \A n \in Others : n \in Numbers /\ n < m
  BY <1>1, <1>2, <1>4 DEF PlaceInv, Complete, Others
<1>6. {n \in ValidImages : Before(n, m)} = Others
  <2>1. ValidImages = Others \cup {m}
    BY <1>2, <1>3 DEF ValidImages, Others
  <2>2. ~Before(m, m) /\ \A n \in Others : Before(n, m)
    BY <1>4, <1>5, OneDigitOrder DEF Undisturbed
  <2> QED
    BY <2>1, <2>2 DEF Others
<1>7. Position(m) = m - 1
  <2>1. Cardinality(Others) \in Nat
    BY <1>4, ValidFinite, FS_Subset, FS_CardinalityType DEF Others
  <2>2. m = Cardinality(Others) + 1
    BY <1>1 DEF PlaceInv, Complete
  <2>3. Position(m) = Cardinality(Others)
    BY <1>6 DEF Position
  <2> QED
    BY <2>1, <2>2, <2>3
<1>8. m \in ValidImages
  BY <1>2 DEF ValidImages
<1>9. Recalled'
  BY <1>1, <1>7, <1>8, IndexWritten
<1>10. Complete'
  BY <1>1, <1>3 DEF Complete, Creating
<1> QED
  BY <1>9, <1>10

LEMMA PlaceInvNext == ASSUME Undisturbed PROVE PlaceInv /\ [Next]_vars => PlaceInv'
<1> SUFFICES ASSUME PlaceInv, [Next]_vars PROVE PlaceInv'
  OBVIOUS
<1>0. TypeInv' /\ CardsInv' /\ NamesInv'
  BY TypeInvNext, CardsInvNext, NamesInvNext DEF PlaceInv, Undisturbed
<1> SUFFICES ASSUME Alone' PROVE Complete' /\ Recalled'
  BY <1>0 DEF PlaceInv
<1>01. Alone /\ Complete /\ Recalled
  BY StaysAlone DEF PlaceInv
<1>1. CASE BootLoad
  BY <1>01, <1>1, BootKeeps
<1>2. CASE BootEmpty
  <2>1. ValidImages = {}
    <3>1. ~(0 < Cardinality(ValidImages))
      BY <1>2, CardManagerAssumption DEF BootEmpty, InRange
    <3>2. DOMAIN files \subseteq Numbers
      BY DEF PlaceInv, TypeInv, TypeOK
    <3> QED
      BY <3>1, <3>2, ValidFinite, FS_EmptySet
  <2>2. DOMAIN files = {}
    BY <1>01, <1>2, <2>1 DEF BootEmpty, Complete, Creating, ValidImages
  <2>3. index_file = <<>> /\ mc_file_name = NoCard
    BY <1>01, <1>2, <2>1
       DEF BootEmpty, PlaceInv, CardsInv, Nothing, Recalled, Remembered, Recent
  <2>4. power' = "first" /\ new_name' = 1 /\ UNCHANGED <<files, index_file, mc_file_name>>
    BY <1>2, <2>2 DEF BootEmpty, NamedImages
  <2>5. Others' = {}
    BY <2>2, <2>4 DEF Others
  <2> QED
    BY <2>2, <2>3, <2>4, <2>5, FS_EmptySet DEF Complete, Recalled, Recent, Creating
<1>3. CASE GetNext \/ GetPrev
  <2>1. PICK n \in ValidImages : GoTo(n) /\ power = "on"
    BY <1>3 DEF GetNext, GetPrev, NextImages, PrevImages
  <2>2. /\ UpdateIndex(Position(n)) /\ new_name' = n /\ files' = files
        /\ power' = "switching"
    BY <2>1 DEF GoTo
  <2>3. Complete'
    BY <1>01, <2>1, <2>2 DEF Complete, Creating
  <2> QED
    BY <1>01, <2>2, <2>3, IndexWritten
<1>4. CASE GetFault \/ Change \/ Save
  <2>1. /\ UNCHANGED index_file /\ DOMAIN files' = DOMAIN files
        /\ \A n \in DOMAIN files : files'[n].slots = files[n].slots
        /\ power \in {"on", "switching"} /\ power' \in {"on", "failed"}
    <3>1. CASE Save
      <4>1. mc_file_name \in DOMAIN files /\ files[mc_file_name] \in File
        BY <3>1 DEF Save, PlaceInv, CardsInv, CurrentWhole, Whole, Lengths
      <4> QED
        BY <3>1, <4>1 DEF Save, File
    <3> QED
      BY <1>4, <3>1 DEF GetFault, Change
  <2>2. ValidImages' = ValidImages /\ \A n : Position(n)' = Position(n)
    BY <2>1, SameFiles
  <2>3. Complete'
    BY <1>01, <2>1 DEF Complete, Creating
  <2>4. Recent' = Recent
    <3>1. new_name # NoCard
      BY CardManagerAssumption DEF PlaceInv, TypeInv, TypeOK, Numbers, NoCard
    <3>2. CASE GetFault
      BY <3>2 DEF Recent, GetFault
    <3>3. CASE Change
      BY <3>1, <3>3 DEF Recent, Change
    <3>4. CASE Save
      BY <3>4 DEF Recent, Save
    <3> QED
      BY <1>4, <3>2, <3>3, <3>4
  <2> QED
    BY <1>01, <2>1, <2>2, <2>3, <2>4 DEF Recalled, Remembered
<1>5. CASE CreateBegin
  BY <1>01, <1>5, BeginKeeps
<1>6. CASE CreateSlot
  BY <1>01, <1>6, SlotKeeps
<1>7. CASE CreateEnd
  BY <1>01, <1>7, EndKeeps
<1>8. CASE PowerOff
  <2>1. power # "off" /\ ~Creating /\ power' = "off" /\ UNCHANGED <<files, index_file>>
    BY <1>8, StaysAlone DEF PowerOff
  <2>2. Recent \subseteq last' /\ (Recent = {} => last' = {})
    BY <1>8, <2>1 DEF PowerOff, Recent
  <2>3. ValidImages' = ValidImages /\ \A n : Position(n)' = Position(n)
    BY <2>1, SameFiles
  <2>4. Recent' = last'
    BY <2>1 DEF Recent
  <2>5. Complete'
    BY <1>01, <2>1 DEF Complete, Creating
  <2> QED
    BY <1>01, <2>1, <2>2, <2>3, <2>4, <2>5 DEF Recalled, Remembered
<1>9. CASE UNCHANGED vars
  <2>1. /\ UNCHANGED <<power, files, index_file, mc_file_name, new_name, slot>>
        /\ ValidImages' = ValidImages /\ \A n : Position(n)' = Position(n)
    BY <1>9, SameFiles DEF vars
  <2>2. Recent' = Recent /\ Others' = Others
    BY <1>9 DEF vars, ghosts, Recent, Others
  <2> QED
    BY <1>01, <2>1, <2>2 DEF Complete, Recalled, Remembered, Creating
<1> QED
  BY <1>1, <1>2, <1>3, <1>4, <1>5, <1>6, <1>7, <1>8, <1>9, StaysAlone DEF Next

LEMMA ReloadedOnly ==
    ASSUME Undisturbed, PlaceInv, [Next]_vars, power = "off", power' = "on", last # {},
           ~edited, ~cut
    PROVE  mc_file_name' \in last
<1>1. BootLoad
  BY DEF Next, vars, BootEmpty, GetNext, GetPrev, GetFault, Change, CreateBegin,
         CreateSlot, Creating, CreateError, CreateEnd, PowerOff, Save, PCDelete, PCStore
<1> QED
  BY <1>1, Reloaded DEF Alone

\* The image in use at power off, or the one it was being changed to, is in use
\* after the next power on, for any number of images of one digit, switched and
\* created in any order, wherever the power is cut except within a creation, as
\* long as nobody else changes the files (update_prev_loaded_memcard_index,
\* memcard_manager_get_initial).
THEOREM ReloadsLast ==
    ASSUME Undisturbed
    PROVE  Spec => BootReloadsLast
<1>1. Init => PlaceInv
  BY PlaceInvInit
<1>2. PlaceInv /\ [Next]_vars => PlaceInv'
  BY PlaceInvNext
<1>3. PlaceInv /\ [Next]_vars =>
        [power = "off" /\ power' = "on" /\ last # {} /\ ~edited /\ ~cut =>
           mc_file_name' \in last]_vars
  BY ReloadedOnly
<1> QED
  BY <1>1, <1>2, <1>3, PTL DEF Spec, BootReloadsLast
=============================================================================
