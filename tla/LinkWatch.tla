----------------------------- MODULE LinkWatch -----------------------------
(***************************************************************************)
(* The clock of the two threads: the DTU thread takes the web for lost     *)
(* after 30 s without a byte (thread_Task_TTYS2_Dtu_Web), the Zigbee       *)
(* thread polls and uploads every 6 s and, while the web is lost, also     *)
(* stores what it uploads (thread_Task_TTYS1_Zigbee_Dev).  Both measure    *)
(* with gettimeofday and get_time_val_diff, whose milliseconds are 32      *)
(* bits wide, and the web may set the clock (CMD_ADJUSTTIME).              *)
(*                                                                         *)
(* One unit of time is 3 s.  Only differences of clock values are read, so *)
(* these are what the state keeps, modulo Wide like the milliseconds.      *)
(***************************************************************************)
EXTENDS Integers

CONSTANTS
  Limit,         \* 10 (30000 ms): the web is lost beyond
  Period,        \* 2: flag_3s_count at which the thread uploads
  Wide,          \* units in 2^32 ms
  Shifts,        \* by how much a command may set the clock, also backwards
  MaxSets,       \* bound: commands that set the clock
  MaxSlow        \* bound: units that pass while a round polls or controls

ASSUME WatchAssumption ==
  /\ Limit \in Nat /\ Period \in Nat /\ MaxSets \in Nat /\ MaxSlow \in Nat
  /\ Wide \in Nat /\ Wide % 2 = 0 /\ Limit + 1 < Wide \div 2
  /\ 2 <= Period /\ Period + 2 * MaxSlow < Wide \div 2
  /\ Shifts \subseteq Int

VARIABLES
  sinceByte,     \* DTU thread: clock minus its time_begin
  flag,          \* flag_lost_connect_to_web
  sinceRound,    \* Zigbee thread: clock minus its time_begin
  last, count,   \* time_elapsed_last, flag_3s_count
  pc,            \* place of the Zigbee thread
  slow,          \* units that passed in this round
  watched, looked,  \* the threads have run in this unit
  up,            \* bytes get through to and from the web
  sets,
  (* ghosts *)
  silence,       \* true units since the last byte, Limit + 1 for more
  quiet,         \* true units since the last upload
  arrived,       \* the last upload got through
  gap            \* uploads neither got through nor stored since the last byte

dtu == <<sinceByte, flag, watched>>
zigbee == <<sinceRound, last, count, pc, slow, looked>>
ghosts == <<silence, quiet, arrived, gap>>
vars == <<dtu, zigbee, up, sets, ghosts>>

Half == Wide \div 2

(* get_time_val_diff: the product with 1000 wraps at 32 bits. *)
Diff(d) == ((d + Half) % Wide) - Half

(* What the Zigbee thread needs from one upload to the next. *)
Longest == Period + 2 * MaxSlow

(* Uploads of an outage before the DTU thread takes the web for lost. *)
MostLost == Limit \div Period + 2

Capped(n, m) == IF n > m THEN m ELSE n

Init ==
  /\ sinceByte = 0 /\ flag = FALSE /\ watched = FALSE
  /\ sinceRound = 0 /\ count = 0 /\ pc = "control" /\ slow = 0
  /\ looked = FALSE
  /\ last \in -Half..(Half - 1)
  /\ up = TRUE /\ sets = 0
  /\ silence = 0 /\ quiet = 0 /\ arrived = TRUE /\ gap = 0

-----------------------------------------------------------------------------
(* Time and the web. *)

(* The threads run many times in a unit, unless one of them is busy. *)
Tick ==
  /\ watched
  /\ \/ pc \in {"control", "poll"} /\ slow < MaxSlow /\ slow' = slow + 1
     \/ pc = "control" /\ looked /\ UNCHANGED slow
  /\ watched' = FALSE /\ looked' = FALSE
  /\ sinceByte' = Diff(sinceByte + 1)
  /\ sinceRound' = Diff(sinceRound + 1)
  /\ silence' = Capped(silence + 1, Limit + 1)
  /\ quiet' = Capped(quiet + 1, Longest + 1)
  /\ UNCHANGED <<flag, last, count, pc, up, sets, arrived, gap>>

LinkChanges ==
  /\ up' = ~up
  /\ UNCHANGED <<dtu, zigbee, sets, ghosts>>

(* Bytes are read, of a frame that does not set the clock. *)
Heard ==
  /\ up
  /\ flag' = FALSE
  /\ silence' = 0 /\ gap' = 0

(* Mutant of WebByte: the time of the read is not taken. *)
WebByteUntimed ==
  /\ Heard
  /\ UNCHANGED <<sinceByte, watched, zigbee, up, sets, quiet, arrived>>

WebByte ==
  /\ Heard
  /\ sinceByte' = 0
  /\ UNCHANGED <<watched, zigbee, up, sets, quiet, arrived>>

(* CMD_ADJUSTTIME: the time of the read is taken first, then date sets the *)
(* clock under both threads.                                               *)
AdjustTime(d) ==
  /\ Heard
  /\ sets < MaxSets /\ sets' = sets + 1
  /\ sinceByte' = Diff(d)
  /\ sinceRound' = Diff(sinceRound + d)
  /\ UNCHANGED <<watched, last, count, pc, slow, looked, up, quiet, arrived>>

(* Mutant of Watch: as if 30 s were two minutes, the former value. *)
WatchLong ==
  /\ flag' = (flag \/ sinceByte > 4 * Limit)
  /\ watched' = TRUE
  /\ UNCHANGED <<sinceByte, zigbee, up, sets, ghosts>>

(* An empty read. *)
Watch ==
  /\ flag' = (flag \/ sinceByte > Limit)
  /\ watched' = TRUE
  /\ UNCHANGED <<sinceByte, zigbee, up, sets, ghosts>>

-----------------------------------------------------------------------------
(* A round of the Zigbee thread. *)

(* The relay commands and the timed control are done. *)
ControlDone ==
  /\ pc = "control"
  /\ pc' = "look"
  /\ UNCHANGED <<dtu, sinceRound, last, count, slow, looked, up, sets, ghosts>>

(* The devices are polled when the clock shows another second. *)
Look ==
  /\ pc = "look"
  /\ looked' = TRUE
  /\ last' = sinceRound
  /\ IF last = sinceRound
     THEN pc' = "judge" /\ UNCHANGED count
     ELSE pc' = "poll" /\ count' = sinceRound
  /\ UNCHANGED <<dtu, sinceRound, slow, up, sets, ghosts>>

PollDone ==
  /\ pc = "poll"
  /\ pc' = "judge"
  /\ UNCHANGED <<dtu, sinceRound, last, count, slow, looked, up, sets, ghosts>>

(* Mutant of Judge: every round starts the time anew. *)
JudgeRestarting ==
  /\ pc = "judge"
  /\ slow' = 0 /\ sinceRound' = 0 /\ count' = 0
  /\ IF count >= Period
     THEN quiet' = 0 /\ arrived' = up /\ pc' = "save"
     ELSE pc' = "control" /\ UNCHANGED <<quiet, arrived>>
  /\ UNCHANGED <<dtu, last, looked, up, sets, silence, gap>>

(* flag_3s_count >= 2: send_data_to_web_on_time. *)
Judge ==
  /\ pc = "judge"
  /\ slow' = 0
  /\ IF count >= Period
     THEN /\ sinceRound' = 0 /\ count' = 0
          /\ quiet' = 0 /\ arrived' = up
          /\ pc' = "save"
     ELSE /\ pc' = "control"
          /\ UNCHANGED <<sinceRound, count, quiet, arrived>>
  /\ UNCHANGED <<dtu, last, looked, up, sets, silence, gap>>

(* save_data_to_sqlite while the web is lost. *)
Save ==
  /\ pc = "save"
  /\ gap' = IF arrived \/ flag THEN gap ELSE Capped(gap + 1, MostLost + 1)
  /\ pc' = "control"
  /\ UNCHANGED <<dtu, sinceRound, last, count, slow, looked, up, sets, silence,
                 quiet, arrived>>

Round == ControlDone \/ Look \/ PollDone \/ Judge \/ Save

Next ==
  \/ Tick \/ LinkChanges \/ WebByte \/ Watch \/ Round
  \/ \E d \in Shifts : AdjustTime(d)

(* Time goes on and both threads run. *)
Fairness == SF_vars(Tick) /\ WF_vars(Watch) /\ WF_vars(Round)

Spec == Init /\ [][Next]_vars /\ Fairness
-----------------------------------------------------------------------------
(* Types, and differences of the width of an int. *)
TypeOK ==
  /\ sinceByte \in -Half..(Half - 1) /\ sinceRound \in -Half..(Half - 1)
  /\ last \in -Half..(Half - 1) /\ count \in -Half..(Half - 1)
  /\ pc \in {"control", "look", "poll", "judge", "save"}
  /\ flag \in BOOLEAN /\ watched \in BOOLEAN /\ looked \in BOOLEAN
  /\ up \in BOOLEAN /\ arrived \in BOOLEAN
  /\ slow \in 0..MaxSlow /\ sets \in 0..MaxSets
  /\ silence \in 0..Limit + 1 /\ quiet \in 0..Longest + 1
  /\ gap \in 0..MostLost + 1

(* Until somebody sets the clock, the web is taken for lost only after     *)
(* Limit units without a byte (thread_Task_TTYS2_Dtu_Web).                 *)
AlarmIsSilence == (flag /\ sets = 0) => silence > Limit

(* Between two bytes of the web only so many uploads are neither received  *)
(* nor stored, and the uploads follow each other in time, however the      *)
(* rounds and the outages fall, until somebody sets the clock.             *)
LossBounded == sets = 0 => gap <= MostLost
UploadsOnTime == sets = 0 => quiet <= Longest
LossAndTimeBounded == TypeOK /\ LossBounded /\ UploadsOnTime

(* An outage that lasts is noticed, and uploads never stop for good,       *)
(* whatever the clock was set to.                                          *)
OutageNoticed == <>[]~up => <>[]flag
UploadsGoOn == []<>(pc = "save")
NoticesAndGoesOn == OutageNoticed /\ UploadsGoOn

(* The flag stands for time without the web, also after the clock was set. *)
AlarmTruthful == flag => silence > Limit

(* Nothing is lost: what does not get through is in the database. *)
ReadingsKept == gap = 0

(* The uploads follow each other in time, also after the clock was set. *)
UploadsSteady == quiet <= Longest
=============================================================================
