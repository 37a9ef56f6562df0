----------------------------- MODULE MCReadings -----------------------------
(* Readings with up to five collectors and two transformers, for TLC. *)
EXTENDS Readings

CONSTANTS c1, c2, c3, c4, c5, t1, t2

Fresh(c, types) == [id |-> c, types |-> types, data |-> None]

(* None, and two with a list of their own. *)
TwoCollectors == {<<>>, <<Fresh(c1, <<1>>), Fresh(c2, <<1, 3>>)>>}

(* Or five collectors of one type each, the fewest of which a read does    *)
(* not end.                                                                *)
TwoOrFive ==
  TwoCollectors \union
  {<<Fresh(c1, <<1>>), Fresh(c2, <<1>>), Fresh(c3, <<1>>), Fresh(c4, <<1>>),
     Fresh(c5, <<1>>)>>}

Types == {<<1>>, <<1, 3>>}
=============================================================================
