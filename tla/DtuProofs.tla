----------------------------- MODULE DtuProofs -----------------------------
(***************************************************************************)
(* Proofs about the DTU thread: LinkWatch and FrameBuffer.  For every      *)
(* limit, period and width of the milliseconds the differences keep their  *)
(* type, and the alarm means silence until somebody sets the clock.  And   *)
(* whatever frames there are and however their bytes are cut and damaged,  *)
(* the thread keeps in step with them.                                     *)
(***************************************************************************)
EXTENDS LinkWatch, FrameBuffer, SequenceTheorems, WellFoundedInduction, TLAPS

-----------------------------------------------------------------------------
(* LinkWatch *)

(* Wide is twice Half, and the limits are below Half. *)
LEMMA HalfFacts ==
  /\ Half \in Nat \ {0} /\ Wide = 2 * Half
  /\ Limit \in Nat /\ Limit + 1 < Half /\ Period \in Nat /\ 2 <= Period
  /\ MaxSlow \in Nat /\ Period + 2 * MaxSlow < Half
  BY WatchAssumption DEF Half

(* A difference is an int of the right width. *)
LEMMA DiffType ==
  ASSUME NEW d \in Int PROVE Diff(d) \in -Half..(Half - 1)
<1>1. (d + Half) % Wide \in 0..(Wide - 1) BY HalfFacts
<1> QED BY <1>1, HalfFacts DEF Diff

(* Below half the width a difference is what it measures. *)
LEMMA DiffExact ==
  ASSUME NEW d \in 0..(Half - 1) PROVE Diff(d) = d
<1>1. d + Half \in 0..(Wide - 1) BY HalfFacts
<1>2. (d + Half) % Wide = d + Half BY <1>1, HalfFacts
<1> QED BY <1>2, HalfFacts DEF Diff

(* The bounds of the ghosts are numbers, and counting up to one stays      *)
(* within it.                                                              *)
LEMMA BoundFacts == Longest \in Nat /\ MostLost \in Nat
<1>1. Limit \div Period \in Nat BY HalfFacts
<1> QED BY <1>1, HalfFacts DEF Longest, MostLost

LEMMA CappedType ==
  ASSUME NEW m \in Nat, NEW n \in 0..m PROVE Capped(n + 1, m) \in 0..m
  BY DEF Capped

-----------------------------------------------------------------------------
(* Type correctness. *)

(* Where the counts and the differences start. *)
LEMMA Zeros ==
  /\ 0 \in -Half..(Half - 1) /\ 0 \in 0..Limit + 1
  /\ 0 \in 0..MostLost + 1 /\ 0 \in 0..Longest + 1
  /\ 0 \in 0..MaxSlow /\ 0 \in 0..MaxSets
  BY HalfFacts, BoundFacts, WatchAssumption

LEMMA TypeInit == Init => TypeOK
  BY Zeros DEF Init, TypeOK

LEMMA TypeStep == TypeOK /\ [Next]_vars => TypeOK'
<1> SUFFICES ASSUME TypeOK, [Next]_vars PROVE TypeOK' OBVIOUS
<1> USE DEF TypeOK, dtu, zigbee, ghosts
<1> USE Zeros
<1>1. CASE Tick
  <2>1. /\ Diff(sinceByte + 1) \in -Half..(Half - 1)
        /\ Diff(sinceRound + 1) \in -Half..(Half - 1)
    BY DiffType, HalfFacts
  <2>2. Capped(silence + 1, Limit + 1) \in 0..Limit + 1
    BY CappedType, HalfFacts
  <2>3. Capped(quiet + 1, Longest + 1) \in 0..Longest + 1
    BY CappedType, BoundFacts
  <2>4. slow' \in 0..MaxSlow BY <1>1, HalfFacts DEF Tick
  <2> QED BY <1>1, <2>1, <2>2, <2>3, <2>4 DEF Tick
<1>2. CASE LinkChanges BY <1>2 DEF LinkChanges
<1>3. CASE WebByte
  BY <1>3 DEF WebByte, Heard
<1>4. CASE Watch BY <1>4 DEF Watch
<1>5. CASE Round
  <2>1. CASE ControlDone BY <2>1 DEF ControlDone
  <2>2. CASE Look BY <2>2 DEF Look
  <2>3. CASE PollDone BY <2>3 DEF PollDone
  <2>4. CASE Judge
    BY <2>4 DEF Judge
  <2>5. CASE Save
    <3>1. Capped(gap + 1, MostLost + 1) \in 0..MostLost + 1
      BY CappedType, BoundFacts
    <3> QED BY <2>5, <3>1 DEF Save
  <2> QED BY <1>5, <2>1, <2>2, <2>3, <2>4, <2>5 DEF Round
<1>6. ASSUME NEW d \in Shifts, AdjustTime(d) PROVE TypeOK'
  <2>1. d \in Int BY WatchAssumption
  <2>2. /\ Diff(d) \in -Half..(Half - 1)
        /\ Diff(sinceRound + d) \in -Half..(Half - 1)
    BY <2>1, DiffType, HalfFacts
  <2>3. sets' \in 0..MaxSets BY <1>6, WatchAssumption DEF AdjustTime
  <2> QED BY <1>6, <2>2, <2>3 DEF AdjustTime, Heard
<1>7. CASE UNCHANGED vars BY <1>7 DEF vars
<1> QED BY <1>1, <1>2, <1>3, <1>4, <1>5, <1>6, <1>7 DEF Next

(* For every limit, period, width and set of commands the differences have *)
(* the width of an int and the thread is at one of its places              *)
(* (get_time_val_diff, thread_Task_TTYS1_Zigbee_Dev).                      *)
THEOREM TypeCorrect == Spec => []TypeOK
<1>1. Init => TypeOK BY TypeInit
<1>2. TypeOK /\ [Next]_vars => TypeOK' BY TypeStep
<1> QED BY <1>1, <1>2, PTL DEF Spec

-----------------------------------------------------------------------------
(* The alarm.  As long as the clock was not set, the difference the DTU    *)
(* thread computes is the true silence until the limit is passed; beyond   *)
(* it may wrap, but by then the silence is long enough.                    *)
AlarmInv ==
  /\ TypeOK
  /\ sets = 0 => /\ silence <= Limit => sinceByte = silence
                 /\ AlarmIsSilence

LEMMA AlarmStep == AlarmInv /\ [Next]_vars => AlarmInv'
<1> SUFFICES ASSUME AlarmInv, [Next]_vars, sets' = 0
             PROVE  /\ silence' <= Limit => sinceByte' = silence'
                    /\ AlarmIsSilence'
  BY TypeStep DEF AlarmInv
<1>a. /\ silence \in 0..Limit + 1 /\ sinceByte \in -Half..(Half - 1)
      /\ sets \in Nat /\ MaxSets \in Nat
  BY WatchAssumption DEF AlarmInv, TypeOK
<1> USE DEF AlarmIsSilence, dtu, zigbee, ghosts
<1>1. CASE Tick
  <2>1. sets = 0 /\ flag' = flag /\ sinceByte' = Diff(sinceByte + 1)
        /\ silence' = Capped(silence + 1, Limit + 1)
    BY <1>1 DEF Tick
  <2>2. silence' \in Nat /\ silence' >= silence
        /\ (silence' <= Limit => silence' = silence + 1 /\ silence < Limit)
    BY <2>1, <1>a, HalfFacts DEF Capped
  <2>3. ASSUME silence' <= Limit PROVE sinceByte' = silence'
    <3>1. sinceByte = silence /\ silence < Limit
      BY <2>1, <2>2, <2>3, <1>a, HalfFacts DEF AlarmInv
    <3>2. silence + 1 \in 0..(Half - 1) BY <3>1, <1>a, HalfFacts
    <3> QED BY <3>1, <3>2, <2>1, <2>2, <2>3, DiffExact
  <2> QED BY <2>1, <2>2, <2>3, <1>a, HalfFacts DEF AlarmInv
<1>2. CASE WebByte
  BY <1>2, HalfFacts DEF WebByte, Heard
<1>3. CASE Watch
  <2>1. sets = 0 /\ silence' = silence /\ sinceByte' = sinceByte
        /\ flag' = (flag \/ sinceByte > Limit)
    BY <1>3 DEF Watch
  <2>2. sinceByte > Limit => silence > Limit
    BY <2>1, <1>a, HalfFacts DEF AlarmInv
  <2> QED BY <2>1, <2>2 DEF AlarmInv
<1>4. CASE LinkChanges \/ Round
  <2>1. UNCHANGED <<dtu, sets, silence>>
    BY <1>4 DEF LinkChanges, Round, ControlDone, Look, PollDone, Judge, Save
  <2> QED BY <2>1 DEF AlarmInv
<1>5. ASSUME NEW d \in Shifts, AdjustTime(d) PROVE FALSE
  BY <1>5, <1>a DEF AdjustTime
<1>6. CASE UNCHANGED vars BY <1>6 DEF vars, AlarmInv
<1> QED BY <1>1, <1>2, <1>3, <1>4, <1>5, <1>6 DEF Next

(* For every limit and width: until somebody sets the clock, the flag that *)
(* makes the readings go to the database is set only after the limit has   *)
(* passed without a byte of the web (thread_Task_TTYS2_Dtu_Web).           *)
THEOREM AlarmAfterSilence == Spec => []AlarmIsSilence
<1>1. Init => AlarmInv
  BY TypeInit DEF Init, AlarmInv, AlarmIsSilence
<1>2. AlarmInv /\ [Next]_vars => AlarmInv' BY AlarmStep
<1>3. AlarmInv => AlarmIsSilence BY DEF AlarmInv, AlarmIsSilence
<1> QED BY <1>1, <1>2, <1>3, PTL DEF Spec

-----------------------------------------------------------------------------
(* The uploads.  The times are exact: until the clock is set, the Zigbee   *)
(* thread measures the true time since its last upload.                    *)

(* No look since the upload: only an idle unit and slow ones have passed.  *)
Anew == count = 0 /\ sinceRound <= 1 + slow /\ (looked => sinceRound = 0)

(* The look of this round, or of the last one, was taken for a new second: *)
(* it is what the thread counts.                                           *)
Counted == count = last /\ last <= sinceRound /\ sinceRound <= last + slow

(* The clock showed what it had shown before the last upload, so that the  *)
(* look was not taken for a new second and the thread still counts 0.      *)
Skipped == count = 0 /\ last = sinceRound /\ sinceRound <= 1 + MaxSlow

(* Too early to upload at the last look, in either way. *)
TooEarly ==
  /\ last <= sinceRound
  /\ \/ count = last /\ last < Period
     \/ count = 0 /\ last <= 1 + MaxSlow
  /\ looked => sinceRound < Period + MaxSlow

Paced ==
  /\ sinceRound = quiet /\ 0 <= quiet
  /\ sinceRound <= Period + MaxSlow + slow
  /\ looked /\ pc = "control" => slow = 0
  /\ pc \in {"control", "look"} => Anew \/ TooEarly
  /\ pc = "poll" => Counted
  /\ pc = "judge" => Counted \/ Skipped
  /\ pc = "save" => count = 0 /\ sinceRound = 0 /\ slow = 0

(* Without the alarm the silence is exact, and each upload that was lost   *)
(* since the last byte took a Period.                                      *)
LossInv ==
  /\ ~flag => /\ sinceByte = silence
              /\ watched => silence <= Limit
              /\ gap > 0 => (gap - 1) * Period + quiet <= silence
              /\ gap > 0 /\ pc = "save" => gap * Period <= silence
  /\ gap <= MostLost

PaceInv == TypeOK /\ (sets = 0 => Paced /\ LossInv)

(* So many uploads fit into an outage that is not yet taken for one. *)
LEMMA UploadsOfAnOutage ==
  ASSUME NEW n \in Nat, n * Period <= Limit + 1
  PROVE  n + 1 <= MostLost
<1> DEFINE q == Limit \div Period
<1>1. q \in Nat /\ Limit < q * Period + Period
  BY HalfFacts
<1>2. (q + 2) * Period = q * Period + 2 * Period
  BY <1>1, HalfFacts
<1>3. n < q + 2
  <2>1. SUFFICES ASSUME q + 2 <= n PROVE FALSE BY <1>1
  <2>2. (q + 2) * Period <= n * Period BY <1>1, <2>1, HalfFacts
  <2> QED BY <1>1, <1>2, <2>2, HalfFacts
<1> QED BY <1>1, <1>3 DEF MostLost

(* Each step of the Zigbee thread, and of time, keeps the pace. *)
LEMMA PacedStep ==
  ASSUME TypeOK, Paced, sets = 0, [Next]_vars, sets' = 0
  PROVE  Paced'
<1>a. /\ sinceRound \in Int /\ last \in Int /\ count \in Int
      /\ slow \in Nat /\ slow <= MaxSlow /\ sets \in Nat /\ quiet \in Nat
  BY HalfFacts, BoundFacts, WatchAssumption DEF TypeOK
<1>b. sinceRound = quiet /\ sinceRound <= Longest
  BY <1>a, HalfFacts DEF Paced, Longest
<1> USE DEF dtu, zigbee, ghosts
<1>1. CASE Tick
  <2>1. sinceRound' = sinceRound + 1 /\ quiet' = quiet + 1
    <3>1. sinceRound + 1 \in 0..(Half - 1) \/ sinceRound = Longest
      BY <1>a, <1>b, HalfFacts DEF Longest
    <3>2. sinceRound < Longest
      <4>1. CASE slow < MaxSlow
        BY <4>1, <1>a, HalfFacts DEF Paced, Longest
      <4>2. CASE pc = "control" /\ looked
        <5>1. sinceRound = 0 \/ sinceRound < Period + MaxSlow
          BY <4>2 DEF Paced, Anew, TooEarly
        <5> QED BY <5>1, <1>a, HalfFacts DEF Longest
      <4> QED BY <1>1, <4>1, <4>2 DEF Tick
    <3>3. Diff(sinceRound + 1) = sinceRound + 1 BY <3>1, <3>2, <1>a, DiffExact
    <3>4. Capped(quiet + 1, Longest + 1) = quiet + 1
      BY <1>a, <1>b, <3>2, BoundFacts DEF Capped
    <3> QED BY <1>1, <3>3, <3>4 DEF Tick
  <2>2. /\ ~looked' /\ UNCHANGED <<pc, last, count>>
        /\ \/ pc \in {"control", "poll"} /\ slow < MaxSlow /\ slow' = slow + 1
           \/ pc = "control" /\ looked /\ slow' = slow
    BY <1>1 DEF Tick
  <2>3. CASE pc = "control"
    <3>1. Anew => Anew' BY <1>a, <2>1, <2>2, <2>3 DEF Anew
    <3>2. TooEarly => TooEarly' BY <1>a, <2>1, <2>2, <2>3 DEF TooEarly
    <3>3. sinceRound' <= Period + MaxSlow + slow'
      BY <1>a, <2>1, <2>2, <2>3, HalfFacts DEF Paced, Anew, TooEarly
    <3> QED BY <1>a, <1>b, <2>1, <2>2, <2>3, <3>1, <3>2, <3>3 DEF Paced
  <2>4. CASE pc = "poll"
    <3>1. Counted' BY <1>a, <2>1, <2>2, <2>4 DEF Paced, Counted
    <3> QED BY <1>a, <1>b, <2>1, <2>2, <2>4, <3>1, HalfFacts DEF Paced
  <2> QED BY <2>2, <2>3, <2>4
<1>2. CASE Look
  <2>1. /\ pc = "look" /\ looked' /\ last' = sinceRound
        /\ UNCHANGED <<sinceRound, quiet, slow>>
    BY <1>2 DEF Look
  <2>2. CASE last = sinceRound
    <3>1. pc' = "judge" /\ count' = count BY <1>2, <2>2 DEF Look
    <3>2. Counted' \/ Skipped'
      BY <1>a, <2>1, <2>2, <3>1, HalfFacts
      DEF Paced, Anew, TooEarly, Counted, Skipped
    <3> QED BY <2>1, <3>1, <3>2 DEF Paced
  <2>3. CASE last # sinceRound
    <3>1. pc' = "poll" /\ count' = sinceRound BY <1>2, <2>3 DEF Look
    <3>2. Counted' BY <1>a, <2>1, <3>1 DEF Counted
    <3> QED BY <2>1, <3>1, <3>2 DEF Paced
  <2> QED BY <2>2, <2>3
<1>3. CASE Judge
  <2>1. pc = "judge" /\ slow' = 0 /\ UNCHANGED <<last, looked>> BY <1>3 DEF Judge
  <2>2. CASE count >= Period
    BY <1>3, <2>1, <2>2, HalfFacts DEF Judge, Paced
  <2>3. CASE ~(count >= Period)
    <3>1. pc' = "control" /\ UNCHANGED <<sinceRound, count, quiet>>
      BY <1>3, <2>3 DEF Judge
    <3>2. TooEarly' /\ sinceRound <= Period + MaxSlow
      BY <1>a, <2>1, <2>3, <3>1, HalfFacts DEF Paced, Counted, Skipped, TooEarly
    <3> QED BY <2>1, <3>1, <3>2, <1>a, HalfFacts DEF Paced
  <2> QED BY <2>2, <2>3
<1>4. CASE ControlDone \/ PollDone
  BY <1>4 DEF ControlDone, PollDone, Paced, Anew, TooEarly, Counted
<1>5. CASE Save
  <2>1. pc = "save" /\ pc' = "control"
        /\ UNCHANGED <<sinceRound, last, count, slow, looked, quiet>>
    BY <1>5 DEF Save
  <2> QED BY <2>1, <1>a DEF Paced, Anew
<1>6. CASE LinkChanges \/ WebByte \/ Watch
  <2>1. UNCHANGED <<zigbee, quiet>>
    BY <1>6 DEF LinkChanges, WebByte, Watch, Heard
  <2> QED BY <2>1 DEF Paced, Anew, TooEarly, Counted, Skipped
<1>7. ASSUME NEW d \in Shifts, AdjustTime(d) PROVE FALSE
  BY <1>7, <1>a DEF AdjustTime
<1>8. CASE UNCHANGED vars
  BY <1>8 DEF vars, Paced, Anew, TooEarly, Counted, Skipped
<1> QED BY <1>1, <1>2, <1>3, <1>4, <1>5, <1>6, <1>7, <1>8 DEF Next, Round

LEMMA OneMore ==
  ASSUME NEW p \in Int, NEW m \in Nat, NEW n \in Nat, NEW r \in Nat,
         p + m <= r, n <= m + 1
  PROVE  p + n <= r + 1
  OBVIOUS

LEMMA LossStep ==
  ASSUME TypeOK, Paced, LossInv, sets = 0, [Next]_vars, sets' = 0
  PROVE  LossInv'
<1>a. /\ sinceByte \in Int /\ silence \in Nat /\ gap \in Nat /\ quiet \in Nat
      /\ sinceRound \in Int /\ last \in Int /\ count \in Int /\ sets \in Nat
      /\ silence <= Limit + 1 /\ flag \in BOOLEAN /\ slow \in Nat
  BY HalfFacts, BoundFacts, WatchAssumption DEF TypeOK
<1> USE DEF dtu, zigbee, ghosts
<1>1. CASE Tick
  <2>1. /\ watched /\ ~watched' /\ pc \in {"control", "poll"} /\ pc' = pc
        /\ sinceByte' = Diff(sinceByte + 1)
        /\ silence' = Capped(silence + 1, Limit + 1)
        /\ quiet' = Capped(quiet + 1, Longest + 1)
        /\ UNCHANGED <<flag, gap>>
    BY <1>1 DEF Tick
  <2>2. ASSUME ~flag
        PROVE  sinceByte' = silence + 1 /\ silence' = silence + 1
    <3>1. silence + 1 \in 0..(Half - 1) /\ silence + 1 <= Limit + 1 /\ sinceByte = silence
      BY <1>a, <2>1, <2>2, HalfFacts DEF LossInv
    <3> QED BY <1>a, <2>1, <3>1, DiffExact, HalfFacts DEF Capped
  <2>3. quiet' \in Nat /\ quiet' <= quiet + 1 BY <1>a, <2>1, BoundFacts DEF Capped
  <2>4. gap \in Nat /\ (gap - 1) * Period \in Int BY <1>a, HalfFacts
  <2>5. ASSUME gap > 0, ~flag
        PROVE  (gap - 1) * Period + quiet' <= silence'
    <3>1. (gap - 1) * Period + quiet <= silence BY <2>5 DEF LossInv
    <3>2. silence' = silence + 1 BY <2>2, <2>5
    <3> QED BY <1>a, <2>3, <2>4, <3>1, <3>2, OneMore
  <2>6. ~flag => sinceByte' = silence' BY <2>2
  <2>7. UNCHANGED <<flag, gap>> /\ gap <= MostLost /\ pc' # "save" /\ ~watched'
    BY <2>1 DEF LossInv
  <2> QED BY <2>5, <2>6, <2>7 DEF LossInv
<1>2. CASE WebByte
  BY <1>2, HalfFacts, BoundFacts DEF WebByte, Heard, LossInv
<1>3. CASE Watch
  <2>1. /\ flag' = (flag \/ sinceByte > Limit)
        /\ UNCHANGED <<sinceByte, silence, quiet, gap, pc>>
    BY <1>3 DEF Watch
  <2>2. ASSUME ~flag' PROVE ~flag /\ sinceByte = silence /\ silence <= Limit
    <3>1. ~flag /\ ~(sinceByte > Limit) BY <2>1, <2>2
    <3>2. sinceByte = silence BY <3>1 DEF LossInv
    <3> QED BY <1>a, <3>1, <3>2, HalfFacts
  <2> QED BY <2>1, <2>2 DEF LossInv
<1>4. CASE Judge
  <2>1. pc = "judge" /\ UNCHANGED <<sinceByte, flag, watched, silence, gap>>
    BY <1>4 DEF Judge
  <2>2. CASE count >= Period
    <3>1. quiet' = 0 /\ pc' = "save" BY <1>4, <2>2 DEF Judge
    <3>2. Period <= quiet
      BY <1>a, <2>1, <2>2, HalfFacts DEF Paced, Counted, Skipped
    <3>3. ASSUME gap > 0, ~flag
          PROVE  gap * Period <= silence /\ (gap - 1) * Period + 0 <= silence
      <4>1. (gap - 1) * Period + quiet <= silence BY <3>3 DEF LossInv
      <4>2. (gap - 1) * Period + Period = gap * Period /\ (gap - 1) * Period \in Int
        BY <1>a, HalfFacts
      <4> QED BY <1>a, <3>2, <4>1, <4>2, HalfFacts
    <3> QED BY <2>1, <3>1, <3>3 DEF LossInv
  <2>3. CASE ~(count >= Period)
    <3>1. quiet' = quiet /\ pc' = "control" BY <1>4, <2>3 DEF Judge
    <3> QED BY <2>1, <3>1 DEF LossInv
  <2> QED BY <2>2, <2>3
<1>5. CASE Save
  <2>1. /\ pc = "save" /\ pc' = "control" /\ quiet = 0
        /\ UNCHANGED <<sinceByte, flag, watched, silence, quiet>>
    BY <1>5, <1>a DEF Save, Paced
  <2>2. CASE arrived \/ flag
    <3>1. gap' = gap BY <1>5, <2>2 DEF Save
    <3> QED BY <2>1, <3>1 DEF LossInv
  <2>3. CASE ~(arrived \/ flag)
    <3>1. gap' = gap + 1
      BY <1>5, <1>a, <2>3, BoundFacts DEF Save, Capped, LossInv
    <3>2. gap * Period <= silence
      <4>1. CASE gap = 0 BY <4>1, <1>a, HalfFacts
      <4>2. CASE gap > 0 BY <4>2, <2>1, <2>3 DEF LossInv
      <4> QED BY <4>1, <4>2, <1>a
    <3>3. gap' <= MostLost /\ gap * Period \in Int
      <4>1. gap * Period \in Int BY <1>a, HalfFacts
      <4>2. gap * Period <= Limit + 1 BY <1>a, <3>2, <4>1, HalfFacts
      <4> QED BY <1>a, <3>1, <4>1, <4>2, UploadsOfAnOutage
    <3>4. gap' - 1 = gap BY <3>1, <1>a
    <3>5. (gap' - 1) * Period + quiet' <= silence' BY <2>1, <3>2, <3>3, <3>4
    <3> QED BY <2>1, <3>3, <3>5 DEF LossInv
  <2> QED BY <2>2, <2>3
<1>6. CASE ControlDone \/ PollDone \/ Look \/ LinkChanges
  <2>1. /\ pc' # "save" \/ pc' = pc
        /\ UNCHANGED <<dtu, silence, quiet, gap>>
    BY <1>6 DEF ControlDone, PollDone, Look, LinkChanges
  <2> QED BY <2>1 DEF LossInv
<1>7. ASSUME NEW d \in Shifts, AdjustTime(d) PROVE FALSE
  BY <1>7, <1>a DEF AdjustTime
<1>8. CASE UNCHANGED vars BY <1>8 DEF vars, LossInv
<1> QED BY <1>1, <1>2, <1>3, <1>4, <1>5, <1>6, <1>7, <1>8 DEF Next, Round

LEMMA PaceInit == Init => PaceInv
<1> SUFFICES ASSUME Init PROVE PaceInv OBVIOUS
<1>1. Paced BY HalfFacts DEF Init, Paced, Anew
<1>2. LossInv BY BoundFacts, HalfFacts DEF Init, LossInv
<1> QED BY <1>1, <1>2, TypeInit DEF PaceInv

LEMMA PaceStep == PaceInv /\ [Next]_vars => PaceInv'
<1> SUFFICES ASSUME PaceInv, [Next]_vars, sets' = 0 PROVE Paced' /\ LossInv'
  BY TypeStep DEF PaceInv
<1>1. sets = 0
  <2>1. sets \in Nat BY WatchAssumption DEF PaceInv, TypeOK
  <2>2. sets' = sets \/ sets' = sets + 1
    BY DEF Next, Round, Tick, LinkChanges, WebByte, Heard, Watch, ControlDone, Look,
           PollDone, Judge, Save, AdjustTime, vars
  <2> QED BY <2>1, <2>2
<1> QED BY <1>1, PacedStep, LossStep DEF PaceInv

(* For every limit, period and length of the rounds: until somebody sets   *)
(* the clock, no more than Limit \div Period + 2 uploads in a row are      *)
(* neither received nor stored, and there are never more than Longest      *)
(* units from one upload to the next, whatever the last look had shown     *)
(* (thread_Task_TTYS1_Zigbee_Dev, thread_Task_TTYS2_Dtu_Web).              *)
THEOREM LossIsBounded == Spec => []LossAndTimeBounded
<1>1. Init => PaceInv BY PaceInit
<1>2. PaceInv /\ [Next]_vars => PaceInv' BY PaceStep
<1>3. PaceInv => LossAndTimeBounded
  <2> SUFFICES ASSUME PaceInv, sets = 0 PROVE gap <= MostLost /\ quiet <= Longest
    BY DEF PaceInv, LossAndTimeBounded, LossBounded, UploadsOnTime
  <2>1. slow \in Nat /\ slow <= MaxSlow /\ quiet \in Nat
    BY HalfFacts, BoundFacts DEF PaceInv, TypeOK
  <2> QED BY <2>1, HalfFacts DEF PaceInv, Paced, LossInv, Longest
<1> QED BY <1>1, <1>2, <1>3, PTL DEF Spec

-----------------------------------------------------------------------------
(* FrameBuffer *)

(* Every set of numbers has a least one. *)
LEMMA LeastNumber ==
  ASSUME NEW T \in SUBSET Nat, T # {}
  PROVE  \E m \in T : \A n \in T : m <= n
<1> DEFINE R == OpToRel(<, Nat)
<1>1. IsWellFoundedOn(R, Nat) BY NatLessThanWellFounded
<1>2. T \subseteq Nat OBVIOUS
<1> HIDE DEF R
<1>3. PICK m \in T : \A n \in T : ~ (<<n, m>> \in R) BY <1>1, <1>2, WFMin
<1>4. \A a \in Nat, b \in Nat : a < b => <<a, b>> \in R BY DEF R, OpToRel
<1>5. ASSUME NEW n \in T PROVE m <= n
  <2>1. m \in Nat /\ n \in Nat BY <1>2
  <2>2. ~(n < m) BY <1>3, <1>4, <2>1
  <2> QED BY <2>1, <2>2
<1> QED BY <1>5

(* strlen is a number: the byte behind the string is 0. *)
LEMMA StrlenType ==
  ASSUME NEW s \in Seq(Nat) PROVE strlen(s) \in 0..Len(s)
<1> DEFINE t == Append(s, 0)
           I == {i \in 1..Len(t) : t[i] = 0}
<1>1. Len(t) = Len(s) + 1 /\ t[Len(s) + 1] = 0 /\ Len(s) \in Nat OBVIOUS
<1>2. I \in SUBSET Nat /\ Len(s) + 1 \in I BY <1>1
<1>3. PICK m \in I : \A n \in I : m <= n BY <1>2, LeastNumber
<1>4. Min(I) \in I BY <1>3 DEF Min
<1>5. strlen(s) = Min(I) - 1 BY <1>2 DEF strlen, SelectInSeq
<1> HIDE DEF t
<1> QED BY <1>1, <1>4, <1>5

(* What is known of a frame the web may send. *)
LEMMA FrameFacts ==
  ASSUME NEW f \in Frames
  PROVE  /\ f \in Seq(Nat) /\ Len(f) \in Nat /\ Len(f) >= Around
         /\ f # <<>> /\ Last(f) = End
         /\ Len(f) = f[Low - 1] * Base + f[Low] + Around
<1>1. f \in Seq(Nat) /\ Len(f) >= Around /\ Last(f) = End
      /\ Len(f) = f[Low - 1] * Base + f[Low] + Around
  BY FramesAssumption
<1>2. Len(f) \in Nat /\ f # <<>> BY <1>1 DEF Around
<1> QED BY <1>1, <1>2

(* The length is in the frame, so no frame begins like another one: the    *)
(* frame found in a frame is that frame.                                   *)
LEMMA FrameOfFrame ==
  ASSUME NEW f \in Frames PROVE CrcOk(f) /\ FrameOf(f) = f
<1>1. ASSUME NEW g \in Frames, IsPrefix(Front(g), f) PROVE g = f
  <2>1. /\ f \in Seq(Nat) /\ g \in Seq(Nat) /\ Len(g) \in Nat /\ Len(f) \in Nat
        /\ Len(g) >= 9 /\ Len(f) >= 9
    BY FrameFacts DEF Around
  <2>2. /\ Front(g) \in Seq(Nat) /\ Len(Front(g)) = Len(g) - 1
        /\ \A i \in 1..Len(g) - 1 : Front(g)[i] = g[i]
    BY <2>1 DEF Front
  <2>3. /\ Len(g) - 1 <= Len(f)
        /\ SubSeq(Front(g), 1, Len(g) - 1) = SubSeq(f, 1, Len(g) - 1)
    BY <1>1, <2>2 DEF IsPrefix
  <2>4. \A i \in 1..Len(g) - 1 : g[i] = f[i]
    <3> SUFFICES ASSUME NEW i \in 1..Len(g) - 1 PROVE g[i] = f[i] OBVIOUS
    <3>1. SubSeq(Front(g), 1, Len(g) - 1)[i] = g[i] BY <2>1, <2>2
    <3>2. SubSeq(f, 1, Len(g) - 1)[i] = f[i] BY <2>1, <2>3
    <3> QED BY <2>3, <3>1, <3>2
  <2>5. g[5] = f[5] /\ g[6] = f[6] BY <2>1, <2>4
  <2>6. Len(g) = Len(f) BY <2>5, FrameFacts DEF Low
  <2>7. g[Len(g)] = f[Len(f)] BY FrameFacts DEF Last
  <2>8. \A i \in 1..Len(g) : g[i] = f[i] BY <2>1, <2>4, <2>6, <2>7
  <2> QED BY <2>1, <2>6, <2>8, SeqEqual
<1>2. IsPrefix(Front(f), f)
  <2>1. f \in Seq(Nat) /\ Len(f) \in Nat /\ Len(f) >= 9 BY FrameFacts DEF Around
  <2>2. Front(f) \in Seq(Nat) /\ Len(Front(f)) = Len(f) - 1 BY <2>1 DEF Front
  <2>3. SubSeq(Front(f), 1, Len(f) - 1) = SubSeq(f, 1, Len(f) - 1)
    BY <2>1, <2>2 DEF Front
  <2> QED BY <2>1, <2>2, <2>3 DEF IsPrefix
<1>3. CrcOk(f) BY <1>2 DEF CrcOk
<1>4. FrameOf(f) \in Frames /\ IsPrefix(Front(FrameOf(f)), f)
  BY <1>2 DEF FrameOf
<1> QED BY <1>1, <1>3, <1>4

LEMMA BufferTypeInit == BufferInit => InStep
<1> SUFFICES ASSUME BufferInit PROVE InStep OBVIOUS
<1>0. <<>> \in Seq(Nat) /\ <<>> \in Seq(Frames) /\ Len(<<>>) = 0 OBVIOUS
<1>1. BufferTypeOK
  <2>1. sent \in Seq(Frames) /\ Len(sent) <= MaxSends
    BY <1>0, FramesAssumption DEF BufferInit
  <2> QED BY <1>0, <2>1 DEF BufferInit, BufferTypeOK
<1>2. NothingWaits /\ FindsFramesAgain
  BY DEF BufferInit, NothingWaits, FindsFramesAgain
<1> QED BY <1>1, <1>2 DEF InStep

(* Damage makes bytes of bytes. *)
LEMMA DamagedType ==
  ASSUME NEW f \in Frames, NEW s \in Damaged(f) \union {f}
  PROVE  s \in Seq(Nat)
<1>1. f \in Seq(Nat) /\ Len(f) \in Nat BY FrameFacts
<1>2. CASE s = f BY <1>1, <1>2
<1>3. CASE s \in Damaged(f)
  <2>1. PICK i \in 1..Len(f) - 1 :
          s \in {SubSeq(f, 1, i), SubSeq(f, i + 1, Len(f)), RemoveAt(f, i)}
    BY <1>3 DEF Damaged
  <2>2. /\ SubSeq(f, 1, i) \in Seq(Nat) /\ SubSeq(f, i + 1, Len(f)) \in Seq(Nat)
        /\ SubSeq(f, 1, i - 1) \in Seq(Nat)
    BY <1>1
  <2>3. RemoveAt(f, i) \in Seq(Nat) BY <2>2 DEF RemoveAt
  <2> QED BY <2>1, <2>2, <2>3
<1> QED BY <1>2, <1>3

(* What Recv_Function makes of a buffer. *)
LEMMA RecvType ==
  ASSUME handled \in Seq(Frames), NEW s, RecvFunction(s)
  PROVE  handled' \in Seq(Frames)
<1>1. CrcOk(s) => FrameOf(s) \in Frames BY DEF CrcOk, FrameOf
<1> QED BY <1>1 DEF RecvFunction

(* A frame in one read that finds the buffer empty is handled. *)
LEMMA FrameHandled ==
  ASSUME handled \in Seq(Frames), NEW f \in Frames, RecvFunction(f)
  PROVE  handled' # handled /\ Last(handled') = f
<1>1. handled' = Append(handled, f) BY FrameOfFrame DEF RecvFunction
<1>2. Len(handled') = Len(handled) + 1 /\ Len(handled) \in Nat
      /\ handled'[Len(handled) + 1] = f
  BY <1>1
<1>3. Len(handled') # Len(handled) BY <1>2
<1> QED BY <1>2, <1>3 DEF Last

(* A read of one piece: it is parsed where it is, it ends what was         *)
(* collected, or it is added to it.                                        *)
LEMMA PieceStep ==
  ASSUME InStep, NEW piece \in Seq(Nat), Whole(piece) \/ Collect(piece)
  PROVE  /\ buf' \in Seq(Nat) /\ handled' \in Seq(Frames) /\ cut' \in BOOLEAN
         /\ NothingWaits'
         /\ LostWhole(piece) => buf # <<>> /\ buf' = <<>>
<1> USE DEF InStep, BufferTypeOK
<1>1. CASE Whole(piece)
  <2>1. buf' = <<>> /\ handled' \in Seq(Frames) /\ cut' \in BOOLEAN
    BY <1>1, RecvType DEF Whole
  <2>2. ~LostWhole(piece) BY <1>1, FrameHandled DEF Whole, LostWhole
  <2> QED BY <2>1, <2>2 DEF NothingWaits
<1>2. CASE Collect(piece)
  <2> DEFINE s == buf \o piece
  <2>1. s \in Seq(Nat) /\ cut' = cut /\ strlen(s) \in Nat /\ Guard \in Nat
    <3>1. s \in Seq(Nat) OBVIOUS
    <3>2. strlen(s) \in Nat
      <4> HIDE DEF s
      <4>1. strlen(s) \in 0..Len(s) BY <3>1, StrlenType
      <4> QED BY <3>1, <4>1
    <3> QED BY <1>2, <3>1, <3>2, FramesAssumption DEF Collect
  <2>2. CASE Last(s) = End
    <3>1. RecvFunction(s) /\ buf' = <<>> BY <1>2, <2>2 DEF Collect
    <3>2. handled' \in Seq(Frames) BY <3>1, RecvType
    <3>3. LostWhole(piece) => buf # <<>>
      <4> SUFFICES ASSUME buf = <<>>, piece \in Frames PROVE ~LostWhole(piece)
        BY DEF LostWhole
      <4>1. s = piece OBVIOUS
      <4> QED BY <3>1, <4>1, FrameHandled DEF LostWhole
    <3> QED BY <2>1, <3>1, <3>2, <3>3 DEF NothingWaits
  <2>3. CASE Last(s) # End
    <3>1. handled' = handled /\ buf' = Guarded(s) BY <1>2, <2>3 DEF Collect
    <3>2. buf' = <<>> \/ (buf' = s /\ strlen(s) <= Guard)
      BY <2>1, <3>1 DEF Guarded
    <3>3. piece \notin Frames
      <4> SUFFICES ASSUME piece \in Frames PROVE Last(s) = End BY <2>3
      <4>1. piece # <<>> /\ Last(piece) = End /\ Len(piece) \in Nat
            /\ Len(piece) > 0
        BY FrameFacts DEF Around
      <4>2. Len(s) = Len(buf) + Len(piece) /\ Len(buf) \in Nat OBVIOUS
      <4>3. s[Len(s)] = piece[Len(piece)] BY <4>1, <4>2
      <4> QED BY <4>1, <4>3 DEF Last
    <3>4. NothingWaits' BY <2>1, <2>3, <3>2 DEF NothingWaits
    <3>5. buf' \in Seq(Nat) BY <2>1, <3>2, EmptySeq
    <3> QED BY <2>1, <3>1, <3>3, <3>4, <3>5 DEF LostWhole
  <2> QED BY <2>2, <2>3
<1> QED BY <1>1, <1>2

LEMMA BufferStep == InStep /\ [BufferNext]_bufferVars => InStep'
<1> SUFFICES ASSUME InStep, [BufferNext]_bufferVars PROVE InStep' OBVIOUS
<1>1. BufferTypeOK /\ NothingWaits /\ FindsFramesAgain BY DEF InStep
<1>2. CASE Read
  <2>1. PICK n \in 1..Len(line) :
          LET piece == SubSeq(line, 1, n) IN
            /\ Whole(piece) \/ Collect(piece)
            /\ line' = SubSeq(line, n + 1, Len(line))
            /\ missed' = IF LostWhole(piece) THEN missed + 1 ELSE 0
            /\ sent' = sent
    BY <1>2 DEF Read
  <2> DEFINE piece == SubSeq(line, 1, n)
  <2>2. line \in Seq(Nat) /\ Len(line) \in Nat /\ missed \in Nat
    BY <1>1 DEF BufferTypeOK
  <2>3. piece \in Seq(Nat) /\ line' \in Seq(Nat) BY <2>1, <2>2
  <2>4. Whole(piece) \/ Collect(piece) BY <2>1
  <2>5. missed' = IF LostWhole(piece) THEN missed + 1 ELSE 0 BY <2>1
  <2> HIDE DEF piece
  <2>6. /\ buf' \in Seq(Nat) /\ handled' \in Seq(Frames) /\ cut' \in BOOLEAN
        /\ NothingWaits'
        /\ LostWhole(piece) => buf # <<>> /\ buf' = <<>>
    BY <2>3, <2>4, PieceStep
  <2>7. FindsFramesAgain'
    <3>1. CASE LostWhole(piece)
      <4>1. missed # 1 /\ missed <= 1 BY <1>1, <2>6, <3>1 DEF FindsFramesAgain
      <4>2. missed' = 1 BY <2>2, <2>5, <3>1, <4>1
      <4> QED BY <2>6, <3>1, <4>2 DEF FindsFramesAgain
    <3>2. CASE ~LostWhole(piece)
      <4>1. missed' = 0 BY <2>5, <3>2
      <4> QED BY <4>1 DEF FindsFramesAgain
    <3> QED BY <3>1, <3>2
  <2>8. missed' \in Nat BY <2>2, <2>5
  <2>9. BufferTypeOK'
    BY <1>1, <2>1, <2>3, <2>6, <2>8 DEF BufferTypeOK
  <2> QED BY <2>6, <2>7, <2>9 DEF InStep
<1>3. ASSUME NEW f \in Frames, WebSends(f) PROVE InStep'
  <2>1. PICK s \in Damaged(f) \union {f} : line' = line \o s BY <1>3 DEF WebSends
  <2>2. line' \in Seq(Nat) BY <1>1, <2>1, DamagedType DEF BufferTypeOK
  <2>3. sent' \in Seq(Frames) /\ Len(sent') <= MaxSends
    BY <1>1, <1>3, FramesAssumption DEF BufferTypeOK, WebSends
  <2>4. BufferTypeOK' BY <1>1, <1>3, <2>2, <2>3 DEF BufferTypeOK, WebSends
  <2>5. NothingWaits' /\ FindsFramesAgain'
    BY <1>1, <1>3 DEF WebSends, NothingWaits, FindsFramesAgain
  <2> QED BY <2>4, <2>5 DEF InStep
<1>4. CASE UNCHANGED bufferVars
  BY <1>1, <1>4 DEF bufferVars, InStep, BufferTypeOK, NothingWaits,
                    FindsFramesAgain
<1> QED BY <1>2, <1>3, <1>4 DEF BufferNext

(* For any frames, any limit of the guard and any number of sends, however *)
(* the bytes are cut and damaged: the end of a frame is acted upon at      *)
(* once, what is collected stays below the guard as a string, and of the   *)
(* frames that come in one read at most one in a row is lost               *)
(* (thread_Task_TTYS2_Dtu_Web).                                            *)
THEOREM BufferInStep == BufferSpec => []InStep
<1>1. BufferInit => InStep BY BufferTypeInit
<1>2. InStep /\ [BufferNext]_bufferVars => InStep' BY BufferStep
<1> QED BY <1>1, <1>2, PTL DEF BufferSpec
=============================================================================
