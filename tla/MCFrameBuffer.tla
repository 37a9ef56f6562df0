--------------------------- MODULE MCFrameBuffer ---------------------------
(* FrameBuffer with lengths that count in fours, for TLC. *)
EXTENDS FrameBuffer

(* One byte of data; two, the first of them 0xbf; five, without a zero     *)
(* byte, so that the high byte of the length is used; and one zero byte.   *)
Plain1 == <<165, 90, 1, 2, 0, 1, 11, 21, 31, 191>>
WithEnd == <<165, 90, 1, 3, 0, 2, 191, 12, 22, 32, 191>>
Long == <<165, 90, 1, 4, 1, 1, 13, 13, 13, 13, 13, 23, 33, 191>>
WithZero == <<165, 90, 1, 5, 0, 1, 0, 24, 34, 191>>

Mixed == {Plain1, WithEnd, Long}
Short == {Plain1, WithZero}
Both == {Plain1, Long}
=============================================================================
