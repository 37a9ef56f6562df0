--------------------------- MODULE MCControlStart ---------------------------
EXTENDS ControlStart

At(s) == <<0, 0, s>>
Windows == <<<<At(1), At(3)>>, <<<<7>>, <<8>>>>>>
Dev(box, id, acon, hgq, re1, re2, w) ==
  [box |-> box, devid |-> id, acon |-> acon, hgq |-> hgq, re1 |-> re1,
   re2 |-> re2, windows |-> w]
Set(linked, max, min, devs) ==
  [linked |-> linked, max |-> max, min |-> min, dev |-> devs]

(* Frames of these devices with a zero byte in their CRC, as CRC16_Change  *)
(* computes it: a5 5a 01 05 02 07 11 bc 00 bf is the first.                *)
MCZeroCrc == {[box |-> 1, devid |-> 7, cmd |-> "close"],
              [box |-> 2, devid |-> 7, cmd |-> "close"]}

(* A valve and a motor by thresholds, a motor that can only be opened (its *)
(* closing frame is cut), a relay and a motor by the clock, two devices by *)
(* the clock that are not driven, one of them without "hgq", and a         *)
(* collector that is missing.                                              *)
MCSettings ==
  {Set(TRUE, 3, 2, <<d>>) :
     d \in {Dev(1, 1, 1, 1, "close", "open", <<>>),
            Dev(1, 1, 1, 2, "open", "close", <<>>),
            Dev(1, 7, 1, 2, "close", "open", <<>>),
            Dev(2, 1, 2, 1, "none", "none", Windows),
            Dev(2, 1, 2, 4, "none", "none", Windows),
            Dev(1, 1, 2, 2, "none", "none", Windows),
            Dev(1, 1, 2, NoHgq, "none", "none", Windows)}}
  \union {Set(FALSE, 0, 0, <<Dev(1, 1, 1, 1, "open", "close", <<>>)>>)}

(* A device of one rule behind one with two. *)
PairSettings ==
  {Set(TRUE, 3, 2, <<Dev(1, 1, 1, 2, "open", "close", <<>>),
                     Dev(1, 2, 1, 1, "none", "close", <<>>)>>)}
MCLevels == {1, 4}
MCTimes == {1, 2}

(* For what the texts say of whole frames and of times: 10:00 to 11:00. *)
ClaimSettings ==
  {Set(TRUE, 3, 2, <<Dev(1, 7, 1, 2, "close", "open", <<>>)>>),
   Set(TRUE, 3, 2, <<Dev(1, 1, 2, 1, "none", "none", <<<<<<10, 0>>, <<11, 0>>>>>>)>>)}
=============================================================================
