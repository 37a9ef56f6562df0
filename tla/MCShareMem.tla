----------------------------- MODULE MCShareMem -----------------------------
(* ShareMem on one collector and two relay boxes, for TLC. *)
EXTENDS ShareMemMailbox, TLC

(* Bound: a race is followed further only among two commands of the web,   *)
(* and up to the next power cycle.                                         *)
FewRaces == raced => issued + configs <= 2 /\ restarts = 0

(* For the larger instance with every race: the boxes are treated alike. *)
Alike == Permutations(Controllers)
=============================================================================
