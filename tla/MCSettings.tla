----------------------------- MODULE MCSettings -----------------------------
(* Settings with two collectors, for TLC. *)
EXTENDS Settings

CONSTANTS c1, c2

(* As in the example of Create_Pkgs: with all thresholds, those of light   *)
(* among them, and without "oilhumins" and "oilhuminx".                    *)
Provisioned(c) ==
  [a2 |-> c, info |-> 0, limits |-> 0, light |-> 1, stray |-> Unset]

PackedTrees ==
  {[Default EXCEPT !.collector = <<Provisioned(c1), Provisioned(c2)>>]}

(* Above and below the 8 the high byte is compared with. *)
LightWords == {<<0, 5>>, <<9, 5>>}

(* 1.14, and a second byte that runs into the hundreds. *)
VersionPairs == {<<1, 14>>, <<1, 104>>}
=============================================================================
