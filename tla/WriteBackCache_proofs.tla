------------------------ MODULE WriteBackCache_proofs ------------------------
(* What the abstract cache guarantees, for every set of sectors and images:  *)
(* MemcardSimulator inherits it through the refinement.                      *)
EXTENDS WriteBackCache, TLAPS

Shape == /\ image \in Images
         /\ card \in [Sectors -> Content]
         /\ files \in [Images -> [Sectors -> Content]]

LEMMA ShapeInvariant ==
    ASSUME Blank \in [Sectors -> Content]
    PROVE  Spec => []Shape
<1>1. Init => Shape
  BY DEF Init, Shape
<1>2. ASSUME Shape, [Next]_vars PROVE Shape'
  <2> USE <1>2 DEF Shape
  <2>1. CASE Owe \/ Retry \/ GiveUp
    BY <2>1 DEF Owe, Retry, GiveUp
  <2>2. ASSUME NEW s \in Sectors, Write(s) PROVE Shape'
    BY <2>2 DEF Write
  <2>3. ASSUME NEW s \in Sectors, StoreTorn(s) PROVE Shape'
    BY <2>3 DEF StoreTorn
  <2>4. ASSUME NEW S \in SUBSET Sectors, Store(S) PROVE Shape'
    BY <2>4 DEF Store
  <2>5. ASSUME NEW i \in Images, Change(i) PROVE Shape'
    BY <2>5 DEF Change
  <2>6. ASSUME NEW i \in Images, NEW S \in SUBSET Sectors, CreateFail(i, S)
        PROVE  Shape'
    BY <2>6 DEF CreateFail
  <2>7. CASE UNCHANGED vars
    BY <2>7 DEF vars
  <2> QED
    BY <2>1, <2>2, <2>3, <2>4, <2>5, <2>6, <2>7 DEF Next
<1> QED
  BY <1>1, <1>2, PTL DEF Spec

\* Whatever its steps do to the card, the file and the debt, no sector that
\* differs from its file drops out of the account: WriteBackCache.
THEOREM NothingForgottenInvariant ==
    ASSUME Blank \in [Sectors -> Content]
    PROVE  Spec => []NothingForgotten
<1>1. Init => NothingForgotten
  BY DEF Init, NothingForgotten
<1>2. ASSUME Shape, NothingForgotten, [Next]_vars PROVE NothingForgotten'
  <2> USE <1>2 DEF Shape, NothingForgotten
  <2>1. CASE Owe \/ Retry \/ GiveUp
    BY <2>1 DEF Owe, Retry, GiveUp
  <2>2. ASSUME NEW s \in Sectors, Write(s) PROVE NothingForgotten'
    BY <2>2 DEF Write
  <2>3. ASSUME NEW s \in Sectors, StoreTorn(s) PROVE NothingForgotten'
    BY <2>3 DEF StoreTorn
  <2>4. ASSUME NEW S \in SUBSET Sectors, Store(S) PROVE NothingForgotten'
    BY <2>4 DEF Store
  <2>5. ASSUME NEW i \in Images, Change(i) PROVE NothingForgotten'
    BY <2>5 DEF Change
  <2>6. ASSUME NEW i \in Images, NEW S \in SUBSET Sectors, CreateFail(i, S)
        PROVE  NothingForgotten'
    BY <2>6 DEF CreateFail
  <2>7. CASE UNCHANGED vars
    BY <2>7 DEF vars
  <2> QED
    BY <2>1, <2>2, <2>3, <2>4, <2>5, <2>6, <2>7 DEF Next
<1> QED
  BY <1>1, <1>2, ShapeInvariant, PTL DEF Spec

\* Without errors and resets nothing is ever given up: with
\* NothingForgottenInvariant, every difference is still owed to the file.
THEOREM NothingLostInvariant == Spec => []NothingLost
<1>1. Init => NothingLost
  BY DEF Init, NothingLost
<1>2. ASSUME NothingLost, [Next]_vars PROVE NothingLost'
  BY <1>2 DEF NothingLost, Next, vars, Owe, Retry, GiveUp, Write, StoreTorn,
              Store, Change, CreateFail
<1> QED
  BY <1>1, <1>2, PTL DEF Spec
=============================================================================
