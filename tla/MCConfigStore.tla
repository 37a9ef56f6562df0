---------------------------- MODULE MCConfigStore ----------------------------
(* ConfigStore on three relay boxes with two devices, for TLC. *)
EXTENDS ConfigStore

CONSTANTS b1, b2, b3

Dev(x) == [id |-> x, rev |-> 0, full |-> TRUE]

(* One box with one device, three boxes with two and one and none. *)
PackedTrees ==
  {<<[id |-> b1, dev |-> <<Dev(1)>>]>>,
   <<[id |-> b1, dev |-> <<Dev(2), Dev(1)>>], [id |-> b2, dev |-> <<Dev(1)>>],
     [id |-> b3, dev |-> <<>>]>>}
=============================================================================
