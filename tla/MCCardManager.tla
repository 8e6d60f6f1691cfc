--------------------------- MODULE MCCardManager ---------------------------
(* Instances of CardManager for TLC. *)
EXTENDS CardManager

Stored(ns) == [n \in ns |-> [slots |-> MC_SLOT_COUNT, saves |-> TRUE]]
MCTwoFiles == Stored({0, 1})
MCGap == Stored({1, 3})
MCClean == {<<>>}
=============================================================================
