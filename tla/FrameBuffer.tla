---------------------------- MODULE FrameBuffer ----------------------------
(***************************************************************************)
(* How the DTU thread makes frames of the bytes of ttyS2                   *)
(* (thread_Task_TTYS2_Dtu_Web, the head of Recv_Function), byte by byte.   *)
(* A read whose length is that of one short frame is parsed where it is;   *)
(* anything else is collected in a buffer until it ends with 0xbf.         *)
(*                                                                         *)
(*    a5 5a id cmd high low data ... crc crc bf                            *)
(*                                                                         *)
(* SerialPorts has the same loop by halves of frames, together with the    *)
(* other thread; here it is alone, with lengths, zero bytes, 0xbf bytes    *)
(* inside a frame and the capacity of the buffer.                          *)
(***************************************************************************)
EXTENDS Naturals, Sequences, SequencesExt

CONSTANTS
  Frames,        \* the frames the web may send, sequences of bytes
  Base,          \* 256: what the high byte of the length counts
  End,           \* 0xbf
  Guard,         \* 500: strlen at which the collecting buffer is emptied
  Size,          \* 512 of malloc
  MaxSends       \* bound: frames sent

Low == 6         \* place of the low byte of the length
Around == 9      \* bytes of a frame besides its data

ASSUME FramesAssumption ==
  /\ Base \in Nat /\ Guard \in Nat /\ Size \in Nat /\ MaxSends \in Nat
  /\ \A f \in Frames :
       /\ f \in Seq(Nat) /\ Len(f) >= Around /\ Last(f) = End
       /\ Len(f) = f[Low - 1] * Base + f[Low] + Around

VARIABLES
  line,          \* bytes that have arrived
  buf,           \* buf_strcat_for_more_Data, its first len bytes
  (* ghosts *)
  sent,          \* frames sent, also those damaged on the way
  handled,       \* frames the CRC let pass, in the order they were handled
  missed,        \* frames that came alone in one read and were lost, in a row
  cut            \* part of a frame was parsed as a whole one

bufferVars == <<line, buf, sent, handled, missed, cut>>

(* A byte of a buffer that was cleared before the read. *)
Byte(s, i) == IF i <= Len(s) THEN s[i] ELSE 0

(* Noise costs a frame its end, its beginning or one byte. *)
Damaged(f) ==
  LET n == Len(f) IN
  UNION {{SubSeq(f, 1, i), SubSeq(f, i + 1, n), RemoveAt(f, i)} : i \in 1..n - 1}

(* CRC16_Change over the stated length agrees with the two bytes behind;   *)
(* the end byte is not looked at.                                          *)
CrcOk(s) == \E f \in Frames : IsPrefix(Front(f), s)
FrameOf(s) == CHOOSE f \in Frames : IsPrefix(Front(f), s)

strlen(s) == SelectInSeq(Append(s, 0), LAMBDA b : b = 0) - 1

BufferInit ==
  /\ line = <<>> /\ buf = <<>>
  /\ sent = <<>> /\ handled = <<>> /\ missed = 0
  /\ cut = FALSE

WebSends(f) ==
  /\ Len(sent) < MaxSends
  /\ sent' = Append(sent, f)
  /\ \E s \in Damaged(f) \union {f} : line' = line \o s
  /\ UNCHANGED <<buf, handled, missed, cut>>

(* Recv_Function as far as the CRC. *)
RecvFunction(s) ==
  handled' = IF CrcOk(s) THEN Append(handled, FrameOf(s)) ELSE handled

(* What a piece is judged by: the low byte of the length only. *)
LooksWhole(piece) == Len(piece) = Byte(piece, Low) + Around

Whole(piece) ==
  /\ LooksWhole(piece)
  /\ RecvFunction(piece)
  /\ buf' = <<>>
  /\ cut' = (cut \/ Byte(piece, Low - 1) > 0)

(* The guard at the end of a read. *)
Guarded(s) == IF strlen(s) > Guard THEN <<>> ELSE s

(* Mutant of Collect: cleared only when the CRC was right. *)
CollectUntilPerfect(piece) ==
  LET s == buf \o piece IN
  /\ ~LooksWhole(piece)
  /\ IF Last(s) = End
     THEN RecvFunction(s) /\ buf' = IF CrcOk(s) THEN <<>> ELSE Guarded(s)
     ELSE UNCHANGED handled /\ buf' = Guarded(s)
  /\ UNCHANGED cut

(* Mutant of Collect: strncat, as it was before. *)
CollectStrncat(piece) ==
  LET s == buf \o SubSeq(piece, 1, strlen(piece)) IN
  /\ ~LooksWhole(piece)
  /\ IF Last(piece) = End
     THEN RecvFunction(s) /\ buf' = <<>>
     ELSE UNCHANGED handled /\ buf' = Guarded(s)
  /\ UNCHANGED cut

(* Mutant of Collect: not cleared after Recv_Function. *)
CollectKeeping(piece) ==
  LET s == buf \o piece IN
  /\ ~LooksWhole(piece)
  /\ IF Last(s) = End THEN RecvFunction(s) ELSE UNCHANGED handled
  /\ buf' = Guarded(s)
  /\ UNCHANGED cut

Collect(piece) ==
  LET s == buf \o piece IN
  /\ ~LooksWhole(piece)
  /\ IF Last(s) = End
     THEN RecvFunction(s) /\ buf' = <<>>
     ELSE UNCHANGED handled /\ buf' = Guarded(s)
  /\ UNCHANGED cut

(* A frame that came alone in one read, and its command is not carried out. *)
LostWhole(piece) ==
  /\ piece = line /\ piece \in Frames
  /\ handled' = handled \/ Last(handled') # piece

(* read() returns some of the bytes that are there. *)
Read ==
  \E n \in 1..Len(line) :
    LET piece == SubSeq(line, 1, n) IN
    /\ n <= Size
    /\ Whole(piece) \/ Collect(piece)
    /\ line' = SubSeq(line, n + 1, Len(line))
    /\ missed' = IF LostWhole(piece) THEN missed + 1 ELSE 0
    /\ UNCHANGED sent

BufferNext == Read \/ \E f \in Frames : WebSends(f)

(* The thread reads as long as it runs. *)
BufferSpec == BufferInit /\ [][BufferNext]_bufferVars /\ WF_bufferVars(Read)

-----------------------------------------------------------------------------
(* Types. *)
BufferTypeOK ==
  /\ line \in Seq(Nat) /\ buf \in Seq(Nat)
  /\ sent \in Seq(Frames) /\ handled \in Seq(Frames)
  /\ Len(sent) <= MaxSends
  /\ missed \in Nat /\ cut \in BOOLEAN

(* However the bytes are cut and damaged, no command is carried out twice  *)
(* and none before one that was sent earlier: the frames handled are some  *)
(* of the frames sent, in their order.                                     *)
HandledInOrder ==
  \E at \in [DOMAIN handled -> DOMAIN sent] :
    /\ \A i \in DOMAIN handled : handled[i] = sent[at[i]]
    /\ \A i, j \in DOMAIN handled : i < j => at[i] < at[j]

(* After any damage the thread finds the frames again: of frames that come *)
(* in one read each, at most one in a row is lost, and losing it empties   *)
(* the buffer for the next.                                                *)
FindsFramesAgain == missed <= 1 /\ (missed = 1 => buf = <<>>)

(* What is collected never looks like more than Guard bytes of text, and   *)
(* never ends like a frame, so that the end of a frame is always acted     *)
(* upon at once.                                                           *)
NothingWaits == buf # <<>> => Last(buf) # End /\ strlen(buf) <= Guard

(* Every end is acted upon at once, and after damage the thread is back in *)
(* step with the next frame.                                               *)
InStep == BufferTypeOK /\ NothingWaits /\ FindsFramesAgain

(* The collected bytes fit into what was allocated for them. *)
FitsBuffer == Len(buf) <= Size

(* What is parsed as one read frame has all the bytes its header states. *)
ParsedWhole == ~cut

(* A frame with no 0xbf inside and no part that looks like a whole frame. *)
Plain(f) ==
  /\ \A i \in 1..Len(f) - 1 : f[i] # End
  /\ \A i, j \in 1..Len(f) :
       i <= j /\ LooksWhole(SubSeq(f, i, j)) => i = 1 /\ j = Len(f)

(* Into however many pieces it is cut, an undamaged plain frame that finds *)
(* the buffer empty is handled, unless more arrives behind it before.      *)
PiecesMakeWhole ==
  \A n \in 1..MaxSends :
    (Len(sent) = n /\ buf = <<>> /\ line = Last(sent) /\ Plain(line))
      ~> (Len(sent) > n \/ (handled # <<>> /\ Last(handled) = Last(sent)))
=============================================================================
