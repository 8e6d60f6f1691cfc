------------------------- MODULE MCMemcardSimulator -------------------------
(* Instances of MemcardSimulator for TLC. *)
EXTENDS MemcardSimulator

\* Byte 0 fills the card called 1 and new cards, byte 1 fills the card called 2.
MCFill(b) == [s \in Sectors |-> [k \in 0 .. MC_SEC_SIZE - 1 |-> b]]
MCBlankCard == MCFill(0)
MCStoreAtBoot == [i \in Images |-> MCFill(IF i = 2 THEN 1 ELSE 0)]
=============================================================================
