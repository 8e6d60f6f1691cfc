--------------------------- MODULE MCUsbTransfer ---------------------------
(* Instances of UsbTransfer for TLC. *)
EXTENDS UsbTransfer, TLC

\* Two images, one of them longer than a card.
MCStoredAtFirst ==
    1 :> [size |-> "exact", data |-> "blank"] @@ 2 :> [size |-> "long", data |-> "blank"]

\* On the PC: an image of either size, one with a number that is too large and
\* one that is too short.
MCPCFiles ==
    {[name |-> n, size |-> "exact", data |-> "save"] : n \in {1, 3}}
    \cup {[name |-> 1, size |-> "short", data |-> "save"],
          [name |-> 2, size |-> "long", data |-> "save"]}
=============================================================================
