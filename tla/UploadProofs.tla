---------------------------- MODULE UploadProofs ----------------------------
(***************************************************************************)
(* Proofs about what the web gets to see: StoreForward and Readings.       *)
(* Without a clash of serials no row leaves its table before it was        *)
(* written to the web, and up to the second outage the rows leave in the   *)
(* order of their storage.  And what is answered and uploaded under a name *)
(* was measured by the device of that name.                                *)
(***************************************************************************)
EXTENDS StoreForward, Readings, SequenceTheorems, FiniteSetTheorems,
        WellFoundedInduction, TLAPS

-----------------------------------------------------------------------------
(* StoreForward *)

(* Every set of numbers has a least one, and every bounded set a largest.  *)
LEMMA NatLeast ==
  ASSUME NEW T \in SUBSET Nat, T # {}
  PROVE  \E m \in T : \A n \in T : m <= n
<1> DEFINE R == OpToRel(<, Nat)
<1>1. IsWellFoundedOn(R, Nat) BY NatLessThanWellFounded
<1>2. T \subseteq Nat OBVIOUS
<1> HIDE DEF R
<1>3. PICK m \in T : \A n \in T : ~ (<<n, m>> \in R) BY <1>1, <1>2, WFMin
<1>4. \A a \in Nat, b \in Nat : a < b => <<a, b>> \in R BY DEF R, OpToRel
<1>5. ASSUME NEW n \in T PROVE m <= n
  <2>1. m \in Nat /\ n \in Nat BY <1>2
  <2>2. ~(n < m) BY <1>3, <1>4, <2>1
  <2> QED BY <2>1, <2>2
<1> QED BY <1>5

LEMMA MaxMember ==
  ASSUME NEW S \in SUBSET Nat, S # {}, NEW b \in Nat, \A n \in S : n <= b
  PROVE  Max(S) \in S /\ \A n \in S : n <= Max(S)
<1> DEFINE B == {c \in Nat : \A n \in S : n <= c}
<1>1. PICK m \in B : \A c \in B : m <= c
  <2>1. B \in SUBSET Nat /\ B # {} OBVIOUS
  <2> HIDE DEF B
  <2> QED BY <2>1, NatLeast
<1>2. m \in S
  <2>1. SUFFICES ASSUME m \notin S PROVE FALSE OBVIOUS
  <2>2. m \in Nat /\ \E n \in S : n \in Nat /\ n <= m /\ n # m BY <1>1, <2>1
  <2>3. m - 1 \in B BY <1>1, <2>1, <2>2
  <2> QED BY <1>1, <2>2, <2>3
<1> QED BY <1>1, <1>2 DEF Max

LEMMA MinMember ==
  ASSUME NEW S \in SUBSET Nat, S # {}
  PROVE  Min(S) \in S
  BY NatLeast DEF Min

(* The table is finite, its serials are bounded (so that the largest and   *)
(* the smallest exist) and its rows are not the one that stands for none.  *)
TableInv ==
  /\ IsFiniteSet(table)
  /\ \E b \in Nat : \A r \in table : r.serial <= b
  /\ \A r \in table : 0 < r.sample /\ r.sample <= MaxSamples
  /\ spc # "idle" => samples > 0
  /\ data \in posted \union {NoRow}

(* What the next delete removes was sent. *)
SentBeforeDrop ==
  /\ \A r, q \in table : r.kind = q.kind /\ r.serial = q.serial => r = q
  /\ rpc = "drop" => AtPost("transformer") \subseteq posted
  /\ rpc = "advance" => AtPost("collector") \subseteq posted
  /\ NoRowLost

KeptInv == TypeOK /\ TableInv /\ (~clash => SentBeforeDrop)

LEMMA RowFields ==
  ASSUME NEW r \in Row
  PROVE  r.serial \in Nat /\ r.kind \in Kinds /\ r.sample \in Nat
  BY DEF Row

LEMMA SerialsMembers ==
  ASSUME TypeOK, TableInv, NEW k \in Kinds, Serials(k) # {}
  PROVE  Max(Serials(k)) \in Serials(k) /\ Min(Serials(k)) \in Serials(k)
         /\ Serials(k) \subseteq Nat
<1>1. Serials(k) \in SUBSET Nat BY RowFields DEF TypeOK, Serials, Stored
<1>2. \E b \in Nat : \A n \in Serials(k) : n <= b
  BY DEF TableInv, Serials, Stored
<1> QED BY <1>1, <1>2, MaxMember, MinMember

(* The row that is sent is one of those selected. *)
LEMMA LastOfMember ==
  ASSUME TypeOK, TableInv, NEW S \in SUBSET table, S # {}
  PROVE  LastOf(S) \in S
<1> DEFINE T == {r.sample : r \in S}
<1>1. T \in SUBSET Nat /\ T # {} BY RowFields DEF TypeOK
<1>2. MaxSamples \in Nat /\ \A n \in T : n <= MaxSamples
  BY LimitsAssumption DEF TableInv
<1>3. Max(T) \in T /\ \A n \in T : n <= Max(T) BY <1>1, <1>2, MaxMember
<1>4. \E r \in S : \A q \in S : q.sample <= r.sample BY <1>3
<1> QED BY <1>4 DEF LastOf

LEMMA StoredCount ==
  ASSUME TableInv, NEW k PROVE Cardinality(Stored(k)) \in Nat
<1>1. Stored(k) \in SUBSET table BY DEF Stored
<1> QED BY <1>1, FS_Subset, FS_CardinalityType DEF TableInv

LEMMA KeptInit == Init => KeptInv
<1> SUFFICES ASSUME Init PROVE KeptInv OBVIOUS
<1> USE LimitsAssumption DEF Init
<1>1. NoRow \in Row BY DEF NoRow, Row, Kinds
<1>2. TypeOK
  <2>1. /\ table \in SUBSET Row /\ inserted \in SUBSET Row /\ posted \in SUBSET Row
        /\ data \in Row
    BY <1>1
  <2>3. clash \in BOOLEAN /\ first \in BOOLEAN OBVIOUS
  <2>4. /\ flag \in 0..2 /\ txt \in Nat /\ serialnumber \in Nat
        /\ serialmax \in Nat /\ serialmin \in Nat /\ post \in Nat
    OBVIOUS
  <2>2. samples \in 0..MaxSamples /\ outages \in 0..MaxOutages /\ restarts \in 0..MaxRestarts
    OBVIOUS
  <2> QED BY <2>1, <2>2, <2>3, <2>4 DEF TypeOK
<1>3. TableInv BY FS_EmptySet DEF TableInv
<1>4. SentBeforeDrop BY DEF SentBeforeDrop, NoRowLost, Waiting
<1> QED BY <1>2, <1>3, <1>4 DEF KeptInv

(* A step that leaves the tables and the rows in memory alone. *)
LEMMA KeptUnchanged ==
  ASSUME KeptInv, TypeOK', UNCHANGED <<table, inserted, posted>>,
         data' \in {data, NoRow}, spc' # "idle" => samples' > 0,
         clash' \in BOOLEAN /\ (clash => clash'),
         rpc' = "drop" => rpc = "drop" /\ post' = post,
         rpc' = "advance" => rpc = "advance" /\ post' = post
  PROVE  KeptInv'
<1>1. TableInv' BY DEF KeptInv, TableInv
<1>2. ASSUME ~clash' PROVE SentBeforeDrop'
  <2>1. SentBeforeDrop BY <1>2 DEF KeptInv
  <2>2. NoRowLost' BY <2>1 DEF SentBeforeDrop, NoRowLost, Waiting
  <2>3. rpc' = "drop" => (AtPost("transformer") \subseteq posted)'
    BY <2>1 DEF SentBeforeDrop, AtPost, Stored
  <2>4. rpc' = "advance" => (AtPost("collector") \subseteq posted)'
    BY <2>1 DEF SentBeforeDrop, AtPost, Stored
  <2>5. (\A r, q \in table : r.kind = q.kind /\ r.serial = q.serial => r = q)'
    BY <2>1 DEF SentBeforeDrop
  <2> QED BY <2>2, <2>3, <2>4, <2>5 DEF SentBeforeDrop
<1> QED BY <1>1, <1>2 DEF KeptInv

LEMMA LinkKept ==
  ASSUME KeptInv, WebByte \/ Silence \/ SaveStart \/ CountUp
  PROVE  KeptInv'
<1>1. TypeOK'
  BY LimitsAssumption
  DEF KeptInv, TypeOK, WebByte, Silence, SaveStart, CountUp, replay, port, saver, ghosts
<1>2. spc' # "idle" => samples' > 0
  BY LimitsAssumption
  DEF KeptInv, TypeOK, TableInv, WebByte, Silence, SaveStart, CountUp, saver
<1>3. /\ UNCHANGED <<table, inserted, posted, data, clash, rpc, post>>
      /\ clash \in BOOLEAN
  BY DEF KeptInv, TypeOK, WebByte, Silence, SaveStart, CountUp, replay, ghosts
<1> QED BY <1>1, <1>2, <1>3, KeptUnchanged

(* A new row: its serial is not in its table and no pass is under way, or  *)
(* there is a clash.                                                       *)
LEMMA InsertKept ==
  ASSUME KeptInv, InsertTransformer \/ InsertCollector
  PROVE  KeptInv'
<1>1. PICK k \in Kinds :
        /\ Insert(k)
        /\ spc # "idle" /\ spc' \in {"collector", "count"}
        /\ UNCHANGED <<txt, serialnumber, replay, port, samples, restarts, posted>>
  BY DEF InsertTransformer, InsertCollector, Kinds
<1>2. /\ table' = table \union {NewRow(k)} /\ inserted' = inserted \union {NewRow(k)}
      /\ clash' = (clash \/ rpc # "idle" \/ serialnumber \in Serials(k))
  BY <1>1 DEF Insert
<1>3. /\ NewRow(k) \in Row /\ NewRow(k).serial = serialnumber /\ NewRow(k).kind = k
      /\ NewRow(k).sample = samples /\ samples \in Nat /\ samples <= MaxSamples
  BY LimitsAssumption DEF KeptInv, TypeOK, NewRow, Row
<1>4. TypeOK' BY <1>1, <1>2, <1>3 DEF KeptInv, TypeOK, replay, port
<1>5. TableInv'
  <2>1. IsFiniteSet(table') BY <1>2, FS_AddElement DEF KeptInv, TableInv
  <2>2. \E b \in Nat : \A r \in table' : r.serial <= b
    <3>1. PICK b \in Nat : \A r \in table : r.serial <= b BY DEF KeptInv, TableInv
    <3>2. serialnumber \in Nat /\ b + serialnumber \in Nat BY DEF KeptInv, TypeOK
    <3>3. \A r \in table : r.serial \in Nat BY RowFields DEF KeptInv, TypeOK
    <3>4. \A r \in table' : r.serial <= b + serialnumber
      BY <1>2, <1>3, <3>1, <3>2, <3>3
    <3> QED BY <3>2, <3>4
  <2>3. \A r \in table' : 0 < r.sample /\ r.sample <= MaxSamples
    BY <1>1, <1>2, <1>3 DEF KeptInv, TableInv
  <2>4. spc' # "idle" => samples' > 0 BY <1>1 DEF KeptInv, TableInv
  <2>5. data' \in posted' \union {NoRow} BY <1>1 DEF KeptInv, TableInv, replay
  <2> QED BY <2>1, <2>2, <2>3, <2>4, <2>5 DEF TableInv
<1>6. ASSUME ~clash' PROVE SentBeforeDrop'
  <2>1. SentBeforeDrop /\ rpc = "idle" /\ rpc' = "idle" /\ serialnumber \notin Serials(k)
    BY <1>1, <1>2, <1>6 DEF KeptInv, replay
  <2>2. \A r \in table : r.kind = k => r.serial # serialnumber
    BY <2>1 DEF Serials, Stored
  <2>3. \A r, q \in table' : r.kind = q.kind /\ r.serial = q.serial => r = q
    BY <1>2, <1>3, <2>1, <2>2 DEF SentBeforeDrop
  <2>4. NoRowLost' BY <1>1, <1>2, <2>1 DEF SentBeforeDrop, NoRowLost, Waiting
  <2> QED BY <2>1, <2>3, <2>4 DEF SentBeforeDrop
<1> QED BY <1>4, <1>5, <1>6 DEF KeptInv

LEMMA LookKept ==
  ASSUME KeptInv, ReplayMax \/ ReplayMin \/ ReplayCount
  PROVE  KeptInv'
<1>1. Kinds = {"transformer", "collector"} BY DEF Kinds
<1>2. TypeOK'
  <2>1. CASE ReplayMax
    <3>1. serialmax' \in Nat
      BY <1>1, <2>1, SerialsMembers DEF ReplayMax, KeptInv, TypeOK
    <3> QED BY <2>1, <3>1 DEF ReplayMax, KeptInv, TypeOK, port, saver
  <2>2. CASE ReplayMin
    <3>1. serialmin' \in Nat
      BY <1>1, <2>2, SerialsMembers DEF ReplayMin, KeptInv, TypeOK
    <3> QED BY <2>2, <3>1 DEF ReplayMin, KeptInv, TypeOK, port, saver, ghosts
  <2>3. CASE ReplayCount
    <3>1. serialnumber' \in Nat BY <2>3, StoredCount DEF ReplayCount, KeptInv
    <3> QED BY <2>3, <3>1 DEF ReplayCount, KeptInv, TypeOK, port, saver, ghosts
  <2> QED BY <2>1, <2>2, <2>3
<1>3. /\ UNCHANGED <<table, inserted, posted, data, spc, samples>>
      /\ rpc' \notin {"drop", "advance"}
      /\ clash' \in BOOLEAN /\ (clash => clash')
  BY DEF ReplayMax, ReplayMin, ReplayCount, saver, ghosts, KeptInv, TypeOK
<1>4. spc' # "idle" => samples' > 0 BY <1>3 DEF KeptInv, TableInv
<1> QED BY <1>2, <1>3, <1>4, KeptUnchanged

(* The row at post is the only one of its table, and it is sent. *)
LEMMA SendKept ==
  ASSUME KeptInv, SendTransformer \/ SendCollector
  PROVE  KeptInv'
<1>1. PICK k \in Kinds :
        /\ Send(k)
        /\ \/ k = "transformer" /\ rpc' = "drop"
           \/ k = "collector" /\ rpc' = "advance"
  BY DEF SendTransformer, SendCollector, Kinds
<1>2. /\ posted' = posted \union ({data'} \ {NoRow})
      /\ data' = IF AtPost(k) = {} THEN data ELSE LastOf(AtPost(k))
      /\ UNCHANGED <<table, txt, serialnumber, serialmax, serialmin, post, first,
                     port, saver, restarts, inserted, clash>>
  BY <1>1 DEF Send
<1>3. AtPost(k) \in SUBSET table BY DEF AtPost, Stored
<1>4. AtPost(k) # {} => data' \in AtPost(k) BY <1>2, <1>3, LastOfMember DEF KeptInv
<1>5. data' \in Row BY <1>2, <1>3, <1>4 DEF KeptInv, TypeOK
<1>6. TypeOK' BY <1>1, <1>2, <1>5 DEF KeptInv, TypeOK, port, saver
<1>7. TableInv' BY <1>2 DEF KeptInv, TableInv, saver
<1>8. ASSUME ~clash' PROVE SentBeforeDrop'
  <2>1. SentBeforeDrop BY <1>2, <1>8 DEF KeptInv
  <2>2. \A r \in AtPost(k) : r = data'
    BY <1>3, <1>4, <2>1 DEF SentBeforeDrop, AtPost, Stored
  <2>3. NoRow \notin AtPost(k)
    BY <1>3 DEF KeptInv, TableInv, NoRow
  <2>4. AtPost(k) \subseteq posted' BY <1>2, <2>2, <2>3
  <2>5. AtPost(k)' = AtPost(k) BY <1>2 DEF AtPost, Stored
  <2>6. NoRowLost' BY <1>2, <2>1 DEF SentBeforeDrop, NoRowLost, Waiting
  <2>7. (\A r, q \in table : r.kind = q.kind /\ r.serial = q.serial => r = q)'
    BY <1>2, <2>1 DEF SentBeforeDrop
  <2>8. k = "transformer" => (AtPost("transformer") \subseteq posted)' BY <2>4, <2>5
  <2>9. k = "collector" => (AtPost("collector") \subseteq posted)' BY <2>4, <2>5
  <2> QED BY <1>1, <2>6, <2>7, <2>8, <2>9 DEF SentBeforeDrop
<1> QED BY <1>6, <1>7, <1>8 DEF KeptInv

(* What is deleted was sent. *)
LEMMA DropKept ==
  ASSUME KeptInv, DropTransformer \/ DropCollectorAndAdvance
  PROVE  KeptInv'
<1>1. PICK k \in Kinds :
        /\ table' = table \ AtPost(k)
        /\ \/ k = "transformer" /\ rpc = "drop" /\ rpc' = "collector"
           \/ k = "collector" /\ rpc = "advance" /\ rpc' = "idle"
        /\ data' \in {data, NoRow} /\ post' \in Nat /\ first' \in BOOLEAN
        /\ UNCHANGED <<txt, serialnumber, serialmax, serialmin, port, saver,
                       restarts, ghosts>>
  <2>1. CASE DropTransformer
    BY <2>1 DEF DropTransformer, BesidePost, Kinds, KeptInv, TypeOK
  <2>2. CASE DropCollectorAndAdvance
    <3>1. post' \in Nat BY <2>2 DEF DropCollectorAndAdvance, KeptInv, TypeOK
    <3>2. data' \in {data, NoRow} /\ first' \in BOOLEAN
      BY <2>2 DEF DropCollectorAndAdvance, KeptInv, TypeOK
    <3> QED BY <2>2, <3>1, <3>2 DEF DropCollectorAndAdvance, BesidePost, Kinds
  <2> QED BY <2>1, <2>2
<1>2. NoRow \in Row BY DEF NoRow, Row, Kinds
<1>3. TypeOK' BY <1>1, <1>2 DEF KeptInv, TypeOK, port, saver, ghosts
<1>4. table' \in SUBSET table BY <1>1
<1>5. TableInv'
  <2>1. IsFiniteSet(table') BY <1>4, FS_Subset DEF KeptInv, TableInv
  <2> QED BY <1>1, <1>4, <2>1 DEF KeptInv, TableInv, saver, ghosts
<1>6. ASSUME ~clash' PROVE SentBeforeDrop'
  <2>1. SentBeforeDrop BY <1>1, <1>6 DEF KeptInv, ghosts
  <2>2. AtPost(k) \subseteq posted BY <1>1, <2>1 DEF SentBeforeDrop
  <2>3. NoRowLost' BY <1>1, <2>1, <2>2 DEF SentBeforeDrop, NoRowLost, Waiting, ghosts
  <2>4. (\A r, q \in table : r.kind = q.kind /\ r.serial = q.serial => r = q)'
    BY <1>4, <2>1 DEF SentBeforeDrop
  <2> QED BY <1>1, <2>3, <2>4 DEF SentBeforeDrop
<1> QED BY <1>3, <1>5, <1>6 DEF KeptInv

LEMMA RestartKept ==
  ASSUME KeptInv, Restart
  PROVE  KeptInv'
<1>1. FirstSerial \in Nat BY StoredCount DEF FirstSerial, KeptInv, TypeOK
<1>2. NoRow \in Row BY DEF NoRow, Row, Kinds
<1>3. TypeOK' BY <1>1, <1>2, LimitsAssumption DEF Restart, KeptInv, TypeOK, ghosts
<1>4. /\ UNCHANGED <<table, inserted, posted, clash>> /\ data' = NoRow
      /\ spc' = "idle" /\ rpc' = "idle" /\ clash \in BOOLEAN
  BY DEF Restart, ghosts, KeptInv, TypeOK
<1> QED BY <1>3, <1>4, KeptUnchanged

LEMMA KeptStep == KeptInv /\ [Next]_vars => KeptInv'
<1> SUFFICES ASSUME KeptInv, [Next]_vars PROVE KeptInv' OBVIOUS
<1>1. CASE UNCHANGED vars
  <2>1. TypeOK'
    BY <1>1 DEF vars, replay, port, saver, ghosts, KeptInv, TypeOK
  <2>2. UNCHANGED <<table, inserted, posted, data, spc, samples, clash, rpc, post>>
    BY <1>1 DEF vars, replay, port, saver, ghosts
  <2>3. clash \in BOOLEAN /\ (spc # "idle" => samples > 0)
    BY DEF KeptInv, TypeOK, TableInv
  <2> QED BY <2>1, <2>2, <2>3, KeptUnchanged
<1>2. CASE Next
  BY <1>2, LinkKept, InsertKept, LookKept, SendKept, DropKept, RestartKept
  DEF Next, Save, Replay
<1> QED BY <1>1, <1>2

(* For all limits and any number of samples, outages and restarts: as long *)
(* as no serial is given twice and nothing is stored during a pass, every  *)
(* stored row is in its table until it was written to the web              *)
(* (save_data_to_sqlite, get_data_from_sqlite_to_web).                     *)
THEOREM StoredRowsKept == Spec => []RowsKept
<1>1. Init => KeptInv BY KeptInit
<1>2. KeptInv /\ [Next]_vars => KeptInv' BY KeptStep
<1>3. KeptInv => RowsKept
  BY DEF KeptInv, SentBeforeDrop, RowsKept, NoRowLostWithoutClash
<1> QED BY <1>1, <1>2, <1>3, PTL DEF Spec

-----------------------------------------------------------------------------
(* Up to the second outage. *)
Early == ~clash /\ restarts = 0 /\ outages <= 1

(* Serials count the snapshots, and the replay has passed none of the rows *)
(* or is past them all; between its two deletes one table is done.         *)
SerialsInOrder ==
  /\ \A r \in table : r.sample = r.serial + 1 /\ r.serial <= txt
  /\ \/ \A r \in table : post <= r.serial
     \/ \A r \in table : r.serial < post
  /\ rpc \in {"collector", "advance"} => AtPost("transformer") = {}

(* Before and while the rows of the outage are stored the replay finds     *)
(* nothing: it stays at 0.                                                 *)
NothingReplayed ==
  /\ post = 0 /\ rpc \in {"idle", "min", "count"}
  /\ rpc # "idle" => table = {} /\ serialmax = 0 /\ serialmin = 0

(* The number of the next row goes with the snapshots, until it starts     *)
(* again at the serial of the first row.                                   *)
FirstThere == \E r \in Stored("transformer") : r.serial = 0

Numbered ==
  /\ txt > 0 \/ spc \in {"collector", "count"} => FirstThere
  /\ \/ /\ serialnumber = txt
        /\ samples = serialnumber + (IF spc = "idle" THEN 0 ELSE 1)
     \/ serialnumber = 0 /\ FirstThere /\ spc \in {"idle", "transformer"}

BeforeOutage ==
  /\ table = {} /\ serialmax = 0 /\ serialmin = 0 /\ txt = 0
  /\ flag # 1 /\ spc = "idle"

(* The web is silent for the first time, the rows of that are being        *)
(* stored, or nothing has happened yet.                                    *)
Storing == flag = 1 \/ spc # "idle" \/ outages = 0

EarlyInv ==
  /\ SerialsInOrder
  /\ Storing => NothingReplayed /\ Numbered
  /\ outages = 0 => BeforeOutage

OrderInv == KeptInv /\ (Early => EarlyInv)

(* The condition was true before. *)
LEMMA EarlyBefore ==
  ASSUME KeptInv, [Next]_vars, Early'
  PROVE  Early
<1>1. /\ restarts \in Nat /\ outages \in Nat /\ clash \in BOOLEAN
  BY LimitsAssumption DEF KeptInv, TypeOK
<1>2. clash => clash'
  BY DEF Next, Save, Replay, WebByte, Silence, SaveStart, InsertTransformer,
         InsertCollector, Insert, CountUp, ReplayMax, ReplayMin, ReplayCount,
         SendTransformer, SendCollector, Send, DropTransformer,
         DropCollectorAndAdvance, Restart, vars, ghosts
<1>3. restarts' \in {restarts, restarts + 1} /\ outages' \in {outages, outages + 1}
  BY DEF Next, Save, Replay, WebByte, Silence, SaveStart, InsertTransformer,
         InsertCollector, Insert, CountUp, ReplayMax, ReplayMin, ReplayCount,
         SendTransformer, SendCollector, Send, DropTransformer,
         DropCollectorAndAdvance, Restart, vars, port
<1> QED BY <1>1, <1>2, <1>3 DEF Early

LEMMA LinkEarly ==
  ASSUME KeptInv, EarlyInv, Early', WebByte \/ Silence
  PROVE  EarlyInv'
<1>1. UNCHANGED <<table, txt, serialnumber, replay, saver>>
  BY DEF WebByte, Silence
<1>2. UNCHANGED <<SerialsInOrder, NothingReplayed, Numbered>>
  BY <1>1 DEF SerialsInOrder, NothingReplayed, Numbered, FirstThere, AtPost, Stored,
              replay, saver
<1>3. outages \in Nat BY DEF KeptInv, TypeOK
<1>4. Storing' => Storing
  BY <1>1, <1>3 DEF WebByte, Silence, Storing, saver, Early
<1>5. outages' = 0 => BeforeOutage'
  BY <1>1, <1>3 DEF WebByte, Silence, BeforeOutage, EarlyInv, replay, saver
<1> QED BY <1>2, <1>4, <1>5 DEF EarlyInv

LEMMA SaveStartEarly ==
  ASSUME KeptInv, EarlyInv, SaveStart
  PROVE  EarlyInv'
<1>1. /\ spc = "idle" /\ spc' = "transformer" /\ flag = 1 /\ samples' = samples + 1
      /\ UNCHANGED <<table, txt, serialnumber, serialmax, serialmin, post, rpc,
                     flag, outages>>
  BY DEF SaveStart, replay, port
<1>2. NothingReplayed /\ Numbered /\ outages # 0
  BY <1>1 DEF EarlyInv, Storing, BeforeOutage
<1>3. SerialsInOrder' BY <1>1 DEF EarlyInv, SerialsInOrder, AtPost, Stored
<1>4. NothingReplayed' BY <1>1, <1>2 DEF NothingReplayed
<1>5. serialnumber \in Nat BY DEF KeptInv, TypeOK
<1>6. Numbered' BY <1>1, <1>2, <1>5 DEF Numbered, FirstThere, Stored
<1> QED BY <1>1, <1>2, <1>3, <1>4, <1>6 DEF EarlyInv

(* The row that is stored is the next in the order of the serials. *)
LEMMA InsertEarly ==
  ASSUME KeptInv, EarlyInv, Early', InsertTransformer \/ InsertCollector
  PROVE  EarlyInv'
<1>1. PICK k \in Kinds :
        /\ Insert(k)
        /\ \/ spc = "transformer" /\ spc' = "collector" /\ k = "transformer"
           \/ spc = "collector" /\ spc' = "count" /\ k = "collector"
        /\ UNCHANGED <<txt, serialnumber, replay, port, samples, restarts, posted>>
  BY DEF InsertTransformer, InsertCollector, Kinds
<1>2. table' = table \union {NewRow(k)} /\ rpc = "idle" /\ serialnumber \notin Serials(k)
  BY <1>1 DEF Insert, Early
<1>3. /\ NewRow(k).serial = serialnumber /\ NewRow(k).kind = k
      /\ NewRow(k).sample = samples
      /\ serialnumber \in Nat /\ txt \in Nat
      /\ \A r \in table : r.serial \in Nat
  BY RowFields DEF KeptInv, TypeOK, NewRow
<1>4. NothingReplayed /\ Numbered /\ outages # 0 /\ SerialsInOrder
  BY <1>1 DEF EarlyInv, Storing, BeforeOutage
<1>5. serialnumber = txt /\ samples = serialnumber + 1
  <2>1. ~(k = "transformer" /\ serialnumber = 0 /\ FirstThere)
    BY <1>2 DEF FirstThere, Serials
  <2> QED BY <1>1, <1>4, <2>1 DEF Numbered
<1>6. SerialsInOrder'
  <2>1. \A r \in table' : r.sample = r.serial + 1 /\ r.serial <= txt
    BY <1>2, <1>3, <1>4, <1>5 DEF SerialsInOrder
  <2>2. \A r \in table' : 0 <= r.serial BY <1>2, <1>3
  <2> QED BY <1>1, <1>2, <1>4, <2>1, <2>2 DEF SerialsInOrder, NothingReplayed, replay
<1>7. NothingReplayed' BY <1>1, <1>2, <1>4 DEF NothingReplayed, replay
<1>8. FirstThere'
  <2>1. Stored("transformer") \subseteq Stored("transformer")' BY <1>2 DEF Stored
  <2>2. CASE FirstThere BY <2>1, <2>2 DEF FirstThere
  <2>3. CASE ~FirstThere
    <3>1. txt = 0 /\ k = "transformer" BY <1>1, <1>3, <1>4, <2>3 DEF Numbered
    <3>2. NewRow(k) \in Stored("transformer")' BY <1>2, <1>3, <3>1 DEF Stored
    <3> QED BY <1>3, <1>5, <3>1, <3>2 DEF FirstThere
  <2> QED BY <2>2, <2>3
<1>9. Numbered' BY <1>1, <1>5, <1>8 DEF Numbered
<1> QED BY <1>1, <1>4, <1>6, <1>7, <1>9 DEF EarlyInv, port

LEMMA CountUpEarly ==
  ASSUME KeptInv, EarlyInv, CountUp
  PROVE  EarlyInv'
<1>1. /\ spc = "count" /\ spc' = "idle"
      /\ UNCHANGED <<table, serialmax, serialmin, post, rpc, flag, outages, samples>>
  BY DEF CountUp, replay, port
<1>2. NothingReplayed /\ Numbered /\ outages # 0 /\ SerialsInOrder
  BY <1>1 DEF EarlyInv, Storing, BeforeOutage
<1>3. serialnumber = txt /\ samples = serialnumber + 1 /\ FirstThere
  BY <1>1, <1>2 DEF Numbered
<1>4. serialnumber \in Nat /\ \A r \in table : r.serial \in Nat
  BY RowFields DEF KeptInv, TypeOK
<1>5. \/ serialnumber' = serialnumber + 1 /\ txt' = serialnumber + 1
      \/ serialnumber' = 0 /\ txt' = txt
  BY DEF CountUp
<1>6. SerialsInOrder'
  <2>1. \A r \in table : r.serial <= txt' BY <1>2, <1>3, <1>4, <1>5 DEF SerialsInOrder
  <2> QED BY <1>1, <1>2, <2>1 DEF SerialsInOrder, AtPost, Stored
<1>7. NothingReplayed' BY <1>1, <1>2 DEF NothingReplayed
<1>8. FirstThere' BY <1>1, <1>3 DEF FirstThere, Stored
<1>9. Numbered' BY <1>1, <1>3, <1>4, <1>5, <1>8 DEF Numbered
<1> QED BY <1>1, <1>2, <1>6, <1>7, <1>9 DEF EarlyInv

(* The queries at the beginning of a pass. *)
LEMMA LookEarly ==
  ASSUME KeptInv, EarlyInv, Early', ReplayMax \/ ReplayMin \/ ReplayCount
  PROVE  EarlyInv'
<1>1. /\ UNCHANGED <<table, txt, flag, outages, spc, samples>>
      /\ rpc' \in {"idle", "min", "count", "transformer"}
  BY DEF ReplayMax, ReplayMin, ReplayCount, port, saver
<1>2. post' \in {post, 0} /\ \A r \in table : r.serial \in Nat
  BY RowFields DEF ReplayMax, ReplayMin, ReplayCount, KeptInv, TypeOK
<1>3. SerialsInOrder'
  <2>1. \/ \A r \in table : post' <= r.serial
        \/ \A r \in table : r.serial < post'
    BY <1>2 DEF EarlyInv, SerialsInOrder
  <2> QED BY <1>1, <2>1 DEF EarlyInv, SerialsInOrder
<1>4. table = {} => Serials("transformer") = {} /\ Stored("collector") = {} /\ ~FirstThere
  BY DEF Serials, Stored, FirstThere
<1>5. ASSUME Storing
      PROVE  /\ NothingReplayed' /\ table = {}
             /\ serialmax' = 0 /\ serialmin' = 0 /\ serialnumber' = serialnumber
  <2>1. NothingReplayed /\ Numbered BY <1>5 DEF EarlyInv
  <2>2. CASE ReplayMax
    <3>1. outages = 0
      <4>1. flag = 0 /\ clash' = (clash \/ spc # "idle") BY <2>2 DEF ReplayMax
      <4>2. ~clash' BY DEF Early
      <4>3. spc = "idle" BY <4>1, <4>2
      <4> QED BY <1>5, <4>1, <4>3 DEF Storing
    <3>2. BeforeOutage BY <3>1 DEF EarlyInv
    <3> QED BY <1>4, <2>1, <2>2, <3>2 DEF ReplayMax, BeforeOutage, NothingReplayed
  <2>3. CASE ReplayMin
    BY <1>4, <2>1, <2>3 DEF ReplayMin, NothingReplayed
  <2>4. CASE ReplayCount
    <3>1. table = {} /\ serialmax = 0 /\ serialmin = 0
      BY <2>1, <2>4 DEF ReplayCount, NothingReplayed
    <3>2. txt \in Nat BY DEF KeptInv, TypeOK
    <3>3. serialnumber = 0 BY <1>4, <2>1, <3>1, <3>2 DEF Numbered
    <3>4. serialnumber' = 0 BY <1>4, <2>4, <3>1, FS_EmptySet DEF ReplayCount
    <3> QED BY <2>4, <3>1, <3>3, <3>4 DEF ReplayCount, NothingReplayed
  <2> QED BY <2>2, <2>3, <2>4
<1>6. Storing' => Storing BY <1>1 DEF Storing
<1>7. Storing => Numbered'
  BY <1>1, <1>5 DEF EarlyInv, Numbered, FirstThere, Stored
<1>8. outages' = 0 => BeforeOutage'
  <2>1. outages = 0 => Storing BY DEF Storing
  <2> QED BY <1>1, <1>5, <2>1 DEF EarlyInv, BeforeOutage
<1> QED BY <1>3, <1>5, <1>6, <1>7, <1>8 DEF EarlyInv

(* Only a replay sends and deletes, and moves on by one row of each table. *)
LEMMA PassEarly ==
  ASSUME KeptInv, EarlyInv,
         \/ SendTransformer \/ SendCollector
         \/ DropTransformer \/ DropCollectorAndAdvance
  PROVE  EarlyInv'
<1>1. /\ UNCHANGED <<txt, flag, outages, spc>>
      /\ rpc \in {"transformer", "collector", "drop", "advance"}
  BY DEF SendTransformer, SendCollector, Send, DropTransformer,
         DropCollectorAndAdvance, port, saver
<1>2. ~Storing /\ ~Storing' /\ outages' # 0
  BY <1>1 DEF EarlyInv, Storing, NothingReplayed
<1>3. /\ \A r \in table : r.serial \in Nat
      /\ post \in Nat /\ txt \in Nat
      /\ \A r \in table : r.kind \in {"transformer", "collector"}
  BY RowFields DEF KeptInv, TypeOK, Kinds
<1>4. SerialsInOrder BY DEF EarlyInv
<1>5. SerialsInOrder'
  <2>1. CASE SendTransformer \/ SendCollector
    <3>1. /\ UNCHANGED <<table, post>>
          /\ rpc' \in {"collector", "advance"} => rpc \in {"collector", "advance"}
      BY <2>1 DEF SendTransformer, SendCollector, Send
    <3> QED BY <1>1, <1>4, <3>1 DEF SerialsInOrder, AtPost, Stored
  <2>2. CASE DropTransformer
    <3>1. table' = table \ AtPost("transformer") /\ post' = post
      BY <2>2 DEF DropTransformer, BesidePost
    <3>2. AtPost("transformer")' = {} BY <3>1 DEF AtPost, Stored
    <3> QED BY <1>1, <1>4, <3>1, <3>2 DEF SerialsInOrder
  <2>3. CASE DropCollectorAndAdvance
    <3>1. table' = table \ AtPost("collector") /\ rpc = "advance" /\ rpc' = "idle"
      BY <2>3 DEF DropCollectorAndAdvance, BesidePost
    <3>2. \A r \in table' : r \in table /\ r.serial # post
      BY <1>3, <1>4, <3>1 DEF SerialsInOrder, AtPost, Stored
    <3>3. post' \in {post, post + 1, txt + 1, 0}
      BY <2>3 DEF DropCollectorAndAdvance
    <3>4. \/ \A r \in table' : post' <= r.serial
          \/ \A r \in table' : r.serial < post'
      BY <1>3, <1>4, <3>2, <3>3 DEF SerialsInOrder
    <3> QED BY <1>1, <1>4, <3>1, <3>2, <3>4 DEF SerialsInOrder
  <2> QED BY <2>1, <2>2, <2>3
<1> QED BY <1>2, <1>5 DEF EarlyInv

LEMMA OrderStep == OrderInv /\ [Next]_vars => OrderInv'
<1> SUFFICES ASSUME OrderInv, [Next]_vars, Early' PROVE EarlyInv'
  BY KeptStep DEF OrderInv
<1>1. KeptInv /\ EarlyInv BY EarlyBefore DEF OrderInv
<1>2. CASE UNCHANGED vars
  BY <1>1, <1>2
  DEF vars, replay, port, saver, ghosts, EarlyInv, SerialsInOrder, Storing,
      NothingReplayed, Numbered, FirstThere, BeforeOutage, AtPost, Stored
<1>3. CASE Restart
  <2>1. restarts \in Nat /\ restarts' = restarts + 1
    BY <1>1, <1>3, LimitsAssumption DEF Restart, KeptInv, TypeOK
  <2> QED BY <2>1 DEF Early
<1>4. CASE Next /\ ~Restart
  BY <1>1, <1>4, LinkEarly, SaveStartEarly, InsertEarly, CountUpEarly, LookEarly,
     PassEarly
  DEF Next, Save, Replay
<1> QED BY <1>2, <1>3, <1>4

LEMMA OrderInit == Init => OrderInv
<1> SUFFICES ASSUME Init PROVE OrderInv OBVIOUS
<1>1. SerialsInOrder /\ NothingReplayed /\ BeforeOutage
  BY DEF Init, SerialsInOrder, NothingReplayed, BeforeOutage
<1>2. Numbered BY DEF Init, Numbered
<1> QED BY <1>1, <1>2, KeptInit DEF OrderInv, EarlyInv

(* What is written to the web for the first time was at post. *)
LEMMA NewlyPosted ==
  ASSUME KeptInv, [Next]_vars, NEW r \in posted' \ posted
  PROVE  r.serial = post /\ r \in table
<1>1. PICK k \in Kinds : Send(k)
  BY DEF Next, Save, Replay, WebByte, Silence, SaveStart, InsertTransformer,
         InsertCollector, CountUp, ReplayMax, ReplayMin, ReplayCount,
         SendTransformer, SendCollector, DropTransformer,
         DropCollectorAndAdvance, Restart, vars, ghosts, Kinds
<1>2. r = (IF AtPost(k) = {} THEN data ELSE LastOf(AtPost(k))) /\ r # NoRow
  BY <1>1 DEF Send
<1>3. AtPost(k) # {} BY <1>2 DEF KeptInv, TableInv
<1>4. AtPost(k) \in SUBSET table BY DEF AtPost, Stored
<1>5. r \in AtPost(k) BY <1>2, <1>3, <1>4, LastOfMember DEF KeptInv
<1> QED BY <1>4, <1>5 DEF AtPost

(* For all limits: up to the second outage, and while the gateway stays up *)
(* and nothing clashes, each row that is written to the web for the first  *)
(* time is the oldest of its table that was not, also when the replay has  *)
(* reached its limit and jumps (get_data_from_sqlite_to_web).              *)
THEOREM OldestRowFirst == Spec => OldestFirst
<1> DEFINE P == (~clash' /\ restarts' = 0 /\ outages' <= 1) =>
                  \A r \in posted' \ posted : \A q \in Waiting :
                    q.kind = r.kind => r.sample <= q.sample
<1>1. Init => OrderInv BY OrderInit
<1>2. OrderInv /\ [Next]_vars => OrderInv' BY OrderStep
<1>3. ASSUME OrderInv, [Next]_vars PROVE [P]_vars
  <2> SUFFICES ASSUME Early', NEW r \in posted' \ posted, NEW q \in Waiting
               PROVE  r.sample <= q.sample
    BY DEF Early
  <2>1. KeptInv /\ Early /\ EarlyInv BY <1>3, EarlyBefore DEF OrderInv
  <2>2. r.serial = post /\ r \in table BY <1>3, <2>1, NewlyPosted
  <2>3. q \in table
    BY <2>1 DEF KeptInv, SentBeforeDrop, NoRowLost, Early
  <2>4. r.serial \in Nat /\ q.serial \in Nat /\ post \in Nat
    BY <2>1, <2>2, <2>3, RowFields DEF KeptInv, TypeOK
  <2>5. post <= q.serial BY <2>1, <2>2, <2>3, <2>4 DEF EarlyInv, SerialsInOrder
  <2>6. r.sample = r.serial + 1 /\ q.sample = q.serial + 1
    BY <2>1, <2>2, <2>3 DEF EarlyInv, SerialsInOrder
  <2> QED BY <2>2, <2>4, <2>5, <2>6
<1>4. Spec => [][P]_vars BY <1>1, <1>2, <1>3, PTL DEF Spec
<1> QED BY <1>4 DEF OldestFirst

-----------------------------------------------------------------------------
(* Readings *)

(* Induction over a range, for a set.                                      *)
LEMMA UpToLast ==
  ASSUME NEW n \in Nat, NEW A, 0 \in A, \A k \in 1..n : k - 1 \in A => k \in A
  PROVE  0..n \subseteq A
<1> DEFINE T == (0..n) \ A
<1>1. SUFFICES ASSUME T # {} PROVE FALSE OBVIOUS
<1>2. T \in SUBSET Nat OBVIOUS
<1>3. PICK m \in T : \A k \in T : m <= k BY <1>1, <1>2, NatLeast
<1>4. m \in 1..n /\ m - 1 \in 0..n BY <1>3
<1>5. m - 1 \notin T BY <1>3, <1>4
<1> QED BY <1>3, <1>4, <1>5

-----------------------------------------------------------------------------
(* Lists of devices *)

(* A place that is looked for in a list is found. *)
LEMMA AtFound ==
  ASSUME NEW q, NEW x \in Ids(q)
  PROVE  At(q, x) \in DOMAIN q /\ q[At(q, x)].id = x
  BY DEF Ids, At

LEMMA AtOwn ==
  ASSUME NEW q, Distinct(q), NEW i \in DOMAIN q
  PROVE  At(q, q[i].id) = i
<1>1. q[i].id \in Ids(q) BY DEF Ids
<1> QED BY <1>1, AtFound DEF Distinct

(* Filing an entry under the id of another leaves a list of the same       *)
(* devices.                                                                *)
LEMMA Replaced ==
  ASSUME NEW S, NEW q \in Seq(S), NEW i \in DOMAIN q, NEW e \in S
  PROVE  LET r == [q EXCEPT ![i] = e] IN
           /\ r \in Seq(S) /\ DOMAIN r = DOMAIN q /\ r[i] = e
           /\ \A j \in DOMAIN q \ {i} : r[j] = q[j]
<1> DEFINE r == [q EXCEPT ![i] = e]
<1>1. i \in 1..Len(q) /\ DOMAIN q = 1..Len(q) OBVIOUS
<1>2. [q EXCEPT ![i] = e] \in Seq(S) /\ Len([q EXCEPT ![i] = e]) = Len(q)
  BY <1>1, ExceptSeq, Zenon
<1>3. r \in Seq(S) /\ Len(r) = Len(q) BY <1>2
<1> QED BY <1>1, <1>3

LEMMA FiledIds ==
  ASSUME NEW S, NEW q \in Seq(S), NEW i \in DOMAIN q,
         NEW e \in S, e.id = q[i].id, NEW r, r = [q EXCEPT ![i] = e]
  PROVE  /\ DOMAIN r = DOMAIN q /\ \A j \in DOMAIN q : r[j].id = q[j].id
         /\ \A x : x \in Ids(r) <=> x \in Ids(q)
<1>1. /\ DOMAIN r = DOMAIN q /\ r[i] = e
      /\ \A j \in DOMAIN q \ {i} : r[j] = q[j]
  BY Replaced
<1>2. \A j \in DOMAIN q : r[j].id = q[j].id BY <1>1
<1> QED BY <1>1, <1>2 DEF Ids

LEMMA FiledInPlace ==
  ASSUME NEW S, NEW q \in Seq(S), NEW i \in DOMAIN q,
         NEW e \in S, e.id = q[i].id, NEW r, r = [q EXCEPT ![i] = e]
  PROVE  /\ r \in Seq(S)
         /\ Distinct(q) => Distinct(r)
         /\ Own(q) /\ (e.data = None \/ e.data.by = e.id) => Own(r)
<1>1. /\ r \in Seq(S) /\ DOMAIN r = DOMAIN q /\ r[i] = e
      /\ \A j \in DOMAIN q \ {i} : r[j] = q[j]
  BY Replaced
<1>2. \A j \in DOMAIN q : r[j].id = q[j].id BY <1>1
<1>3. Distinct(q) => Distinct(r) BY <1>1, <1>2 DEF Distinct
<1>4. Own(q) /\ (e.data = None \/ e.data.by = e.id) => Own(r)
  BY <1>1 DEF Own
<1> QED BY <1>1, <1>3, <1>4

(* A new device at the end. *)
LEMMA AddedAtEnd ==
  ASSUME NEW S, NEW q \in Seq(S), NEW e \in S, e.id \notin Ids(q), Distinct(q),
         Own(q), e.data = None
  PROVE  /\ Append(q, e) \in Seq(S) /\ Distinct(Append(q, e))
         /\ Own(Append(q, e))
<1> DEFINE r == Append(q, e)
<1>1. /\ r \in Seq(S) /\ Len(q) \in Nat /\ DOMAIN q = 1..Len(q)
      /\ DOMAIN r = 1..Len(q) + 1 /\ r[Len(q) + 1] = e
      /\ \A j \in 1..Len(q) : r[j] = q[j]
  OBVIOUS
<1> HIDE DEF r
<1>2. \A j \in 1..Len(q) : r[j].id # e.id BY <1>1 DEF Ids
<1>3. Distinct(r)
  <2> SUFFICES ASSUME NEW a \in DOMAIN r, NEW b \in DOMAIN r, r[a].id = r[b].id
               PROVE  a = b
    BY DEF Distinct
  <2>1. (a \in 1..Len(q) \/ a = Len(q) + 1) /\ (b \in 1..Len(q) \/ b = Len(q) + 1)
    BY <1>1
  <2>2. CASE a \in 1..Len(q) /\ b \in 1..Len(q) BY <1>1, <2>2 DEF Distinct
  <2>3. CASE a = Len(q) + 1 \/ b = Len(q) + 1 BY <1>1, <1>2, <2>1, <2>3
  <2> QED BY <2>1, <2>2, <2>3
<1>4. Own(r)
  <2> SUFFICES ASSUME NEW a \in DOMAIN r PROVE r[a].data = None \/ r[a].data.by = r[a].id
    BY DEF Own
  <2>1. a \in 1..Len(q) \/ a = Len(q) + 1 BY <1>1
  <2> QED BY <1>1, <2>1 DEF Own
<1> QED BY <1>1, <1>3, <1>4 DEF r

(* A device less. *)
LEMMA TakenOut ==
  ASSUME NEW S, NEW q \in Seq(S), NEW i \in DOMAIN q, Distinct(q), Own(q)
  PROVE  /\ RemoveAt(q, i) \in Seq(S) /\ Distinct(RemoveAt(q, i))
         /\ Own(RemoveAt(q, i))
<1> DEFINE r == RemoveAt(q, i)
           from(k) == IF k < i THEN k ELSE k + 1
<1>1. Len(q) \in Nat /\ i \in 1..Len(q) /\ DOMAIN q = 1..Len(q) OBVIOUS
<1>2. /\ SubSeq(q, 1, i - 1) \in Seq(S) /\ Len(SubSeq(q, 1, i - 1)) = i - 1
      /\ \A k \in 1..i - 1 : SubSeq(q, 1, i - 1)[k] = q[k]
  BY <1>1
<1>3. /\ SubSeq(q, i + 1, Len(q)) \in Seq(S)
      /\ Len(SubSeq(q, i + 1, Len(q))) = Len(q) - i
      /\ \A k \in 1..Len(q) - i : SubSeq(q, i + 1, Len(q))[k] = q[k + i]
  BY <1>1
<1>4. /\ r \in Seq(S) /\ Len(r) = Len(q) - 1
      /\ \A k \in 1..Len(q) - 1 : r[k] = q[from(k)]
  <2> DEFINE a == SubSeq(q, 1, i - 1)  b == SubSeq(q, i + 1, Len(q))
  <2>1. r = a \o b BY DEF RemoveAt
  <2>2. /\ a \in Seq(S) /\ Len(a) = i - 1 /\ \A k \in 1..i - 1 : a[k] = q[k]
        /\ b \in Seq(S) /\ Len(b) = Len(q) - i
        /\ \A k \in 1..Len(q) - i : b[k] = q[k + i]
    BY <1>2, <1>3
  <2> HIDE DEF a, b, r
  <2>a. a \o b \in Seq(S) /\ Len(a \o b) = Len(a) + Len(b)
    BY <2>2, ConcatProperties, Zenon
  <2>b. Len(r) = (i - 1) + (Len(q) - i) BY <2>1, <2>2, <2>a
  <2>3. r \in Seq(S) /\ Len(r) = Len(q) - 1
    <3>1. (i - 1) + (Len(q) - i) = Len(q) - 1 BY <1>1
    <3> QED BY <2>1, <2>a, <2>b, <3>1
  <2>4. ASSUME NEW k \in 1..Len(q) - 1 PROVE r[k] = q[from(k)]
    <3>1. CASE k < i
      <4>1. k \in 1..i - 1 BY <1>1, <3>1
      <4>2. r[k] = a[k] BY <1>1, <2>1, <2>2, <4>1
      <4> QED BY <2>2, <3>1, <4>1, <4>2
    <3>2. CASE ~(k < i)
      <4>1. k - i + 1 \in 1..Len(q) - i BY <1>1, <3>2
      <4>2. r[k] = b[k - i + 1] BY <1>1, <2>1, <2>2, <3>2
      <4>a. (k - i + 1) + i = k + 1 BY <1>1
      <4>3. b[k - i + 1] = q[k + 1] BY <2>2, <4>1, <4>a
      <4> QED BY <3>2, <4>2, <4>3
    <3> QED BY <3>1, <3>2
  <2> QED BY <2>3, <2>4
<1> HIDE DEF r
<1>5. \A k \in DOMAIN r : from(k) \in DOMAIN q /\ r[k] = q[from(k)] /\ k \in Nat
  BY <1>1, <1>4
<1>6. \A a, b \in DOMAIN r : from(a) = from(b) => a = b BY <1>1, <1>5
<1> HIDE DEF from
<1>7. Distinct(r) BY <1>5, <1>6 DEF Distinct
<1>8. Own(r) BY <1>5 DEF Own
<1> QED BY <1>4, <1>7, <1>8 DEF r

-----------------------------------------------------------------------------
(* The loops over a list *)

Longer(q, s, k) == IF q[k].data = None THEN s ELSE Append(s, q[k])

(* The loop that leaves out who has no data is a function. *)
LEMMA WithDataLoop ==
  ASSUME NEW S, NEW q \in Seq(S)
  PROVE  \E g : /\ WithData(q) = g[Len(q)]
                /\ g[0] = <<>>
                /\ \A k \in 1..Len(q) : g[k] = Longer(q, g[k - 1], k)
<1> DEFINE n == Len(q)
           Body(f) == [k \in 0..n |-> IF k = 0 THEN <<>>
                                      ELSE IF q[k].data = None THEN f[k - 1]
                                      ELSE Append(f[k - 1], q[k])]
           Loop(f, m) == /\ f[0] = <<>>
                         /\ \A k \in 1..m : f[k] = Longer(q, f[k - 1], k)
           A == {m \in 0..n : \E f : Loop(f, m)}
           upTo == CHOOSE f : f = Body(f)
<1>0. n \in Nat OBVIOUS
<1>1. 0 \in A
  <2>1. Loop([k \in {0} |-> <<>>], 0) OBVIOUS
  <2>2. \E f : Loop(f, 0) BY <2>1
  <2> HIDE DEF Loop
  <2> QED BY <1>0, <2>2
<1>2. ASSUME NEW m \in 1..n, m - 1 \in A PROVE m \in A
  <2>1. PICK f : Loop(f, m - 1) BY <1>2
  <2> DEFINE h == [k \in 0..m |-> IF k < m THEN f[k] ELSE Longer(q, f[m - 1], m)]
  <2>2. h[0] = <<>> BY <2>1
  <2>3. h[m] = Longer(q, h[m - 1], m) OBVIOUS
  <2>4. ASSUME NEW k \in 1..m - 1 PROVE h[k] = Longer(q, h[k - 1], k)
    <3>1. h[k] = f[k] /\ h[k - 1] = f[k - 1] BY <1>0
    <3> QED BY <2>1, <3>1
  <2> HIDE DEF h
  <2>5. \A k \in 1..m : k = m \/ k \in 1..m - 1 BY <1>0
  <2>6. Loop(h, m) BY <2>2, <2>3, <2>4, <2>5
  <2> HIDE DEF Loop
  <2> QED BY <1>0, <2>6
<1>3. n \in A
  <2> HIDE DEF A
  <2>1. 0..n \subseteq A BY <1>0, <1>1, <1>2, UpToLast
  <2> QED BY <1>0, <2>1
<1>4. PICK f : Loop(f, n) BY <1>3
<1> DEFINE g == [k \in 0..n |-> f[k]]
<1>5. g = Body(g)
  <2>1. ASSUME NEW k \in 0..n PROVE g[k] = Body(g)[k]
    <3>1. CASE k = 0 BY <1>4, <3>1
    <3>2. CASE k # 0
      <4>1. k \in 1..n /\ k - 1 \in 0..n BY <1>0, <3>2
      <4> QED BY <1>4, <3>2, <4>1 DEF Longer
    <3> QED BY <3>1, <3>2
  <2> QED BY <2>1
<1> HIDE DEF g, Body
<1>6. upTo = Body(upTo) BY <1>5
<1>7. WithData(q) = upTo[n] BY DEF WithData, Body
<1> HIDE DEF upTo
<1>8. upTo[0] = <<>> BY <1>0, <1>6 DEF Body
<1>9. ASSUME NEW k \in 1..n PROVE upTo[k] = Longer(q, upTo[k - 1], k)
  <2>1. k \in 0..n /\ k # 0 BY <1>0
  <2>2. upTo[k] = Body(upTo)[k] BY <1>6
  <2>3. Body(upTo)[k] = Longer(q, upTo[k - 1], k) BY <2>1 DEF Body, Longer
  <2> QED BY <2>2, <2>3
<1> QED BY <1>7, <1>8, <1>9

(* What it collects: everybody with data, once, in the order of the list.  *)
Through(q, s, k) ==
  /\ \A a \in DOMAIN s : \E i \in 1..k : s[a] = q[i] /\ q[i].data # None
  /\ \A i \in 1..k : q[i].data # None => \E a \in DOMAIN s : s[a] = q[i]
  /\ \A a, b \in DOMAIN s : a < b => At(q, s[a].id) < At(q, s[b].id)

LEMMA WithDataStep ==
  ASSUME NEW S, NEW q \in Seq(S), Distinct(q), NEW k \in 1..Len(q),
         NEW s \in Seq(S), Through(q, s, k - 1)
  PROVE  Longer(q, s, k) \in Seq(S) /\ Through(q, Longer(q, s, k), k)
<1>0. Len(q) \in Nat /\ Len(s) \in Nat /\ q[k] \in S /\ DOMAIN q = 1..Len(q)
      /\ k \in Nat /\ DOMAIN s = 1..Len(s)
  OBVIOUS
<1>1. \A i \in 1..k : i \in 1..k - 1 \/ i = k BY <1>0
<1>2. \A i \in 1..k - 1 : i \in 1..k /\ i \in DOMAIN q BY <1>0
<1>3. CASE q[k].data = None
  <2>1. Longer(q, s, k) = s BY <1>3 DEF Longer
  <2>2. Through(q, s, k)
    <3>1. \A a \in DOMAIN s : \E i \in 1..k : s[a] = q[i] /\ q[i].data # None
      BY <1>2 DEF Through
    <3>2. \A i \in 1..k : q[i].data # None => \E a \in DOMAIN s : s[a] = q[i]
      BY <1>1, <1>3 DEF Through
    <3> QED BY <3>1, <3>2 DEF Through
  <2> QED BY <2>1, <2>2
<1>4. CASE q[k].data # None
  <2> DEFINE t == Append(s, q[k])
  <2>1. Longer(q, s, k) = t BY <1>4 DEF Longer
  <2>2. /\ t \in Seq(S) /\ DOMAIN t = 1..Len(s) + 1 /\ t[Len(s) + 1] = q[k]
        /\ \A a \in DOMAIN s : t[a] = s[a] /\ a \in DOMAIN t
    BY <1>0
  <2> HIDE DEF t
  <2>3. \A a \in DOMAIN t : a \in DOMAIN s \/ a = Len(s) + 1 BY <1>0, <2>2
  <2>4. \A a \in DOMAIN t : \E i \in 1..k : t[a] = q[i] /\ q[i].data # None
    <3> SUFFICES ASSUME NEW a \in DOMAIN t
                 PROVE  \E i \in 1..k : t[a] = q[i] /\ q[i].data # None
      OBVIOUS
    <3>1. CASE a \in DOMAIN s BY <1>2, <2>2, <3>1 DEF Through
    <3>2. CASE a = Len(s) + 1 BY <1>0, <1>4, <2>2, <3>2
    <3> QED BY <2>3, <3>1, <3>2
  <2>5. \A i \in 1..k : q[i].data # None => \E a \in DOMAIN t : t[a] = q[i]
    <3> SUFFICES ASSUME NEW i \in 1..k, q[i].data # None
                 PROVE  \E a \in DOMAIN t : t[a] = q[i]
      OBVIOUS
    <3>1. CASE i \in 1..k - 1 BY <2>2, <3>1 DEF Through
    <3>2. CASE i = k BY <1>0, <2>2, <3>2
    <3> QED BY <1>1, <3>1, <3>2
  <2>6. \A a \in DOMAIN s : At(q, s[a].id) \in 1..k - 1
    <3> SUFFICES ASSUME NEW a \in DOMAIN s PROVE At(q, s[a].id) \in 1..k - 1
      OBVIOUS
    <3>1. PICK i \in 1..k - 1 : s[a] = q[i] BY DEF Through
    <3>2. At(q, q[i].id) = i BY <1>2, AtOwn
    <3> QED BY <3>1, <3>2
  <2>7. At(q, q[k].id) = k BY <1>0, AtOwn
  <2>8. \A a, b \in DOMAIN t : a < b => At(q, t[a].id) < At(q, t[b].id)
    <3> SUFFICES ASSUME NEW a \in DOMAIN t, NEW b \in DOMAIN t, a < b
                 PROVE  At(q, t[a].id) < At(q, t[b].id)
      OBVIOUS
    <3>1. a \in DOMAIN s BY <1>0, <2>2
    <3>2. CASE b \in DOMAIN s BY <2>2, <3>1, <3>2 DEF Through
    <3>3. CASE b = Len(s) + 1
      <4>1. t[a] = s[a] /\ t[b] = q[k] BY <2>2, <3>1, <3>3
      <4>2. At(q, t[a].id) \in 1..k - 1 /\ At(q, t[b].id) = k
        BY <2>6, <2>7, <3>1, <4>1
      <4> QED BY <1>0, <4>2
    <3> QED BY <2>3, <3>2, <3>3
  <2> QED BY <2>1, <2>2, <2>4, <2>5, <2>8 DEF Through
<1> QED BY <1>3, <1>4

(* What is uploaded of a list. *)
LEMMA WithDataFacts ==
  ASSUME NEW S, NEW q \in Seq(S), Distinct(q), Own(q)
  PROVE  /\ WithData(q) \in Seq(S) /\ Own(WithData(q))
         /\ Ids(WithData(q))
              = {q[i].id : i \in {j \in DOMAIN q : q[j].data # None}}
         /\ \A a, b \in DOMAIN WithData(q) :
              a < b => At(q, WithData(q)[a].id) < At(q, WithData(q)[b].id)
<1>1. PICK g : /\ WithData(q) = g[Len(q)] /\ g[0] = <<>>
               /\ \A k \in 1..Len(q) : g[k] = Longer(q, g[k - 1], k)
  BY WithDataLoop
<1> DEFINE A == {k \in 0..Len(q) : g[k] \in Seq(S) /\ Through(q, g[k], k)}
<1>2. Len(q) \in Nat /\ DOMAIN q = 1..Len(q) OBVIOUS
<1>3. 0 \in A
  <2>1. <<>> \in Seq(S) /\ DOMAIN <<>> = {} /\ 1..0 = {} OBVIOUS
  <2>2. Through(q, g[0], 0) BY <1>1, <2>1 DEF Through
  <2>3. g[0] \in Seq(S) BY <1>1, <2>1
  <2> QED BY <1>2, <2>2, <2>3
<1>4. ASSUME NEW k \in 1..Len(q), k - 1 \in A PROVE k \in A
  BY <1>1, <1>2, <1>4, WithDataStep
<1>5. Len(q) \in A
  <2> HIDE DEF A
  <2>1. 0..Len(q) \subseteq A BY <1>2, <1>3, <1>4, UpToLast
  <2> QED BY <1>2, <2>1
<1> DEFINE w == WithData(q)
<1>6. w \in Seq(S) /\ Through(q, w, Len(q)) BY <1>1, <1>5
<1> HIDE DEF w
<1>7. Own(w) BY <1>2, <1>6 DEF Own, Through
<1>8. Ids(w) = {q[i].id : i \in {j \in DOMAIN q : q[j].data # None}}
  <2>1. ASSUME NEW x \in Ids(w)
        PROVE  \E i \in DOMAIN q : q[i].data # None /\ q[i].id = x
    <3>1. PICK a \in DOMAIN w : w[a].id = x BY <2>1 DEF Ids
    <3>2. PICK i \in 1..Len(q) : w[a] = q[i] /\ q[i].data # None
      BY <1>6 DEF Through
    <3> QED BY <1>2, <3>1, <3>2
  <2>2. ASSUME NEW i \in DOMAIN q, q[i].data # None PROVE q[i].id \in Ids(w)
    BY <1>2, <1>6, <2>2 DEF Ids, Through
  <2> QED BY <2>1, <2>2
<1> QED BY <1>6, <1>7, <1>8 DEF w, Through

(* The loop that goes on from where its index was left is a function, and  *)
(* its places are numbers.                                                 *)
LEMMA WalkFacts ==
  ASSUME NEW q, Len(q) \in Nat,
         \A p \in 1..Len(q) : q[p].data # None => q[p].data.n \in Nat
  PROVE  \A k \in 0..Len(q) : Walk(q)[k] \in Nat \ {0}
<1> DEFINE n == Len(q)
           Body(f) == [k \in 0..n |-> IF k = 0 THEN 1 ELSE NextPlace(q, f[k - 1])]
           Loop(f, m) == /\ f \in [0..m -> Nat \ {0}] /\ f[0] = 1
                         /\ \A k \in 1..m : f[k] = NextPlace(q, f[k - 1])
           A == {m \in 0..n : \E f : Loop(f, m)}
           place == CHOOSE f : f = Body(f)
<1>1. ASSUME NEW p \in Nat \ {0} PROVE NextPlace(q, p) \in Nat \ {0}
  <2>1. CASE p > n BY <2>1 DEF NextPlace
  <2>2. CASE p <= n
    <3>1. p \in 1..n BY <2>2
    <3> QED BY <2>2, <3>1 DEF NextPlace, Resume
  <2> QED BY <2>1, <2>2
<1>2. 0 \in A
  <2>1. Loop([k \in 0..0 |-> 1], 0) OBVIOUS
  <2>2. \E f : Loop(f, 0) BY <2>1
  <2> HIDE DEF Loop
  <2> QED BY <2>2
<1>3. ASSUME NEW m \in 1..n, m - 1 \in A PROVE m \in A
  <2>1. PICK f : Loop(f, m - 1) BY <1>3
  <2> DEFINE h == [k \in 0..m |-> IF k < m THEN f[k] ELSE NextPlace(q, f[m - 1])]
  <2>2. \A k \in 0..m : k < m => k \in 0..m - 1 OBVIOUS
  <2>3. f[m - 1] \in Nat \ {0} BY <2>1
  <2>4. NextPlace(q, f[m - 1]) \in Nat \ {0} BY <1>1, <2>3
  <2>5. h \in [0..m -> Nat \ {0}] BY <2>1, <2>2, <2>4
  <2>6. h[0] = 1 BY <2>1
  <2>7. h[m] = NextPlace(q, h[m - 1]) OBVIOUS
  <2>8. ASSUME NEW k \in 1..m - 1 PROVE h[k] = NextPlace(q, h[k - 1])
    <3>1. h[k] = f[k] /\ h[k - 1] = f[k - 1] OBVIOUS
    <3> QED BY <2>1, <3>1
  <2> HIDE DEF h
  <2>9. \A k \in 1..m : k = m \/ k \in 1..m - 1 OBVIOUS
  <2>10. Loop(h, m) BY <2>5, <2>6, <2>7, <2>8, <2>9
  <2> HIDE DEF Loop
  <2> QED BY <2>10
<1>4. n \in A
  <2> HIDE DEF A
  <2>1. 0..n \subseteq A BY <1>2, <1>3, UpToLast
  <2> QED BY <2>1
<1>5. PICK g : Loop(g, n) BY <1>4
<1>6. g = Body(g)
  <2>1. ASSUME NEW k \in 0..n PROVE g[k] = Body(g)[k]
    <3>1. k = 0 \/ k \in 1..n OBVIOUS
    <3> QED BY <1>5, <3>1
  <2>2. g = [k \in 0..n |-> g[k]] BY <1>5
  <2> QED BY <2>1, <2>2
<1> HIDE DEF Body
<1>7. place = Body(place) BY <1>6
<1>8. Walk(q) = place BY DEF Walk, Body
<1> HIDE DEF place
<1> DEFINE B == {k \in 0..n : place[k] \in Nat \ {0}}
<1>9. 0 \in B
  <2>1. place[0] = 1 BY <1>7 DEF Body
  <2> QED BY <2>1
<1>10. ASSUME NEW k \in 1..n, k - 1 \in B PROVE k \in B
  <2>1. place[k] = NextPlace(q, place[k - 1]) BY <1>7 DEF Body
  <2> QED BY <1>1, <1>10, <2>1
<1>11. 0..n \subseteq B
  <2> HIDE DEF B
  <2> QED BY <1>9, <1>10, UpToLast
<1> QED BY <1>8, <1>11

-----------------------------------------------------------------------------
(* The invariant: a round asks the devices of its list one after the       *)
(* other, a transformer it asks is still in the list, and what comes late  *)
(* states its own device, a transformer of the list or any collector.      *)

UploadFrame == [start : Nat, devices : Seq(Node \union Switch),
                list : Seq(Node \union Switch)]

Switches(q) == q \in Seq(Switch) /\ Ids(q) \subseteq Ids(transformer)

Sound(f) ==
  \/ f.id \in Collectors /\ f.data \in Data /\ f.data.by = f.id
  \/ f \in Switch /\ f.id \in Ids(transformer) /\ f.data.by = f.id

Asking ==
  /\ late = None \/ Sound(late)
  /\ zpc = "collectors" => cursor \in Seq(Node)
  /\ zpc = "transformers" => Switches(cursor)
  /\ zpc = "waiting" =>
       \/ asked \in Node /\ cursor \in Seq(Node)
       \/ /\ asked \in Switch /\ asked.id \in Ids(transformer)
          /\ Switches(cursor)

ReadInv ==
  /\ ReadingsTypeOK /\ Asking /\ upload \in Seq(UploadFrame)
  /\ OwnData /\ UploadsAll

(* What a list may be. *)
LEMMA ListFacts ==
  ASSUME NEW q, q \in Seq(Node) \/ q \in Seq(Switch)
  PROVE  /\ q \in Seq(Node \union Switch) /\ Len(q) \in Nat
         /\ DOMAIN q = 1..Len(q)
         /\ \A p \in 1..Len(q) : q[p].data # None => q[p].data.n \in Nat
<1>1. q \in Seq(Node \union Switch) /\ Len(q) \in Nat /\ DOMAIN q = 1..Len(q)
  OBVIOUS
<1>2. ASSUME NEW p \in 1..Len(q), q[p].data # None PROVE q[p].data.n \in Nat
  <2>1. q[p] \in Node \/ q[p] \in Switch BY <1>1
  <2>2. q[p].data \in Data BY <1>2, <2>1 DEF Node, Switch
  <2> QED BY <2>2 DEF Data
<1> QED BY <1>1, <1>2

(* What is measured is data of the device that was asked. *)
LEMMA MeasuredType ==
  ASSUME NEW e \in Node
  PROVE  /\ Measured(e.id, e.types) \in Data
         /\ Measured(e.id, e.types).by = e.id
<1>1. /\ e.id \in Collectors /\ e.types \in TypeLists
      /\ Len(e.types) \in Nat /\ PerType \in Nat
  BY ReadingsAssumption DEF Node
<1>2. PerType * Len(e.types) \in Nat BY <1>1
<1> QED BY <1>1, <1>2 DEF Measured, Data

LEMMA SwitchedType ==
  ASSUME NEW t \in Transformers
  PROVE  [id |-> t, data |-> Switched(t)] \in Switch /\ Switched(t).by = t
<1>1. PerSwitch \in Nat BY ReadingsAssumption
<1>2. Switched(t) \in Data /\ Switched(t).by = t BY <1>1 DEF Switched, Data
<1> QED BY <1>2 DEF Switch

(* A frame of devices that were read, in the order of the list. *)
FrameOK(f) ==
  /\ Own(f.devices)
  /\ LET list == f.list  devices == f.devices IN
       /\ Ids(devices) = {list[i].id : i \in {j \in DOMAIN list : list[j].data # None}}
       /\ \A i, j \in DOMAIN devices :
            i < j => At(list, devices[i].id) < At(list, devices[j].id)

FramesSound(u) == \A k \in DOMAIN u : FrameOK(u[k])

(* The frame of an upload. *)
LEMMA FrameSound ==
  ASSUME NEW q, q \in Seq(Node) \/ q \in Seq(Switch), Distinct(q), Own(q),
         NEW start \in Nat, NEW f, f = Frame(q, start)
  PROVE  f \in UploadFrame /\ FrameOK(f)
<1>1. q \in Seq(Node \union Switch) BY ListFacts
<1>2. /\ WithData(q) \in Seq(Node \union Switch) /\ Own(WithData(q))
      /\ Ids(WithData(q)) = {q[i].id : i \in {j \in DOMAIN q : q[j].data # None}}
      /\ \A a, b \in DOMAIN WithData(q) :
           a < b => At(q, WithData(q)[a].id) < At(q, WithData(q)[b].id)
  BY <1>1, WithDataFacts
<1>3. /\ f = [start |-> start, devices |-> WithData(q), list |-> q]
      /\ f.devices = WithData(q) /\ f.list = q
  BY DEF Frame, Collected
<1>4. f \in UploadFrame BY <1>1, <1>2, <1>3 DEF UploadFrame
<1>5. FrameOK(f) BY <1>2, <1>3 DEF FrameOK
<1> QED BY <1>4, <1>5

(* Frames that are sound stay so when another one is added. *)
LEMMA FrameAdded ==
  ASSUME NEW u \in Seq(UploadFrame), FramesSound(u),
         NEW q, q \in Seq(Node) \/ q \in Seq(Switch), Distinct(q), Own(q),
         NEW start \in Nat
  PROVE  /\ Append(u, Frame(q, start)) \in Seq(UploadFrame)
         /\ FramesSound(Append(u, Frame(q, start)))
<1> DEFINE f == Frame(q, start)  v == Append(u, f)
<1>1. f \in UploadFrame /\ FrameOK(f) BY FrameSound
<1> HIDE DEF f
<1>2. /\ v \in Seq(UploadFrame) /\ Len(u) \in Nat /\ DOMAIN u = 1..Len(u)
      /\ DOMAIN v = 1..Len(u) + 1
      /\ v[Len(u) + 1] = f /\ \A k \in 1..Len(u) : v[k] = u[k]
  BY <1>1
<1> HIDE DEF v
<1>3. FramesSound(v)
  <2> SUFFICES ASSUME NEW k \in DOMAIN v PROVE FrameOK(v[k]) BY DEF FramesSound
  <2>1. CASE k \in DOMAIN u
    <3>1. v[k] = u[k] BY <1>2, <2>1
    <3>2. FrameOK(u[k]) BY <2>1 DEF FramesSound
    <3> QED BY ONLY <3>1, <3>2
  <2>2. CASE k = Len(u) + 1
    <3>1. v[k] = f BY <1>2, <2>2
    <3> QED BY ONLY <1>1, <3>1
  <2> QED BY <1>2, <2>1, <2>2
<1> QED BY <1>2, <1>3 DEF v, f

LEMMA UploadsSplit ==
  ReadInv <=>
    /\ ReadingsTypeOK /\ Asking
    /\ upload \in Seq(UploadFrame) /\ FramesSound(upload)
    /\ Own(collector) /\ Own(transformer) /\ Own(answer.devices)
    /\ answer.of # "all" => Ids(answer.devices) \subseteq {answer.of}
  BY DEF ReadInv, OwnData, UploadsAll, FramesSound, FrameOK

LEMMA ReadInit == ReadingsInit => ReadInv
<1> SUFFICES ASSUME ReadingsInit PROVE ReadInv OBVIOUS
<1> USE DEF ReadingsInit
<1>1. /\ collector \in Seq(Node) /\ Distinct(collector) /\ Own(collector)
  BY PackedAssumption DEF Own
<1>2. /\ transformer \in Seq(Switch) /\ Distinct(transformer)
      /\ Own(transformer)
  <2>1. PICK q \in SetToSeqs(Transformers) :
          transformer = [i \in DOMAIN q |-> [id |-> q[i], data |-> None]]
    OBVIOUS
  <2> DEFINE c == Cardinality(Transformers)
  <2>2. c \in Nat BY ReadingsAssumption, FS_CardinalityType
  <2> HIDE DEF c
  <2>3. q \in [1..c -> Transformers] /\ \A i, j \in 1..c : i # j => q[i] # q[j]
    BY <2>1 DEF SetToSeqs, c
  <2>4. /\ DOMAIN transformer = 1..c
        /\ \A i \in 1..c : transformer[i] = [id |-> q[i], data |-> None]
    BY <2>1, <2>3
  <2>5. \A i \in 1..c : /\ transformer[i] \in Switch
                        /\ transformer[i].id = q[i] /\ transformer[i].data = None
    <3> SUFFICES ASSUME NEW i \in 1..c
                 PROVE  /\ transformer[i] \in Switch
                        /\ transformer[i].id = q[i] /\ transformer[i].data = None
      OBVIOUS
    <3>1. transformer[i] = [id |-> q[i], data |-> None] /\ q[i] \in Transformers
      BY <2>3, <2>4
    <3> QED BY ONLY <3>1 DEF Switch
  <2>6. transformer \in [1..c -> Switch] BY <2>1, <2>3, <2>4, <2>5
  <2>7. transformer \in Seq(Switch) BY <2>2, <2>6
  <2>8. Distinct(transformer) BY <2>3, <2>4, <2>5 DEF Distinct
  <2>9. Own(transformer) BY <2>4, <2>5 DEF Own
  <2> QED BY <2>7, <2>8, <2>9
<1>3. sent \in 0..MaxCommands BY ReadingsAssumption
<1>4. Asking BY DEF Asking
<1>5. /\ upload \in Seq(UploadFrame) /\ FramesSound(upload)
      /\ Own(answer.devices) /\ Ids(answer.devices) = {}
  BY DEF FramesSound, Own, Ids
<1>6. ReadingsTypeOK BY <1>1, <1>2, <1>3 DEF ReadingsTypeOK
<1> QED BY <1>1, <1>2, <1>4, <1>5, <1>6, UploadsSplit

(* A command that answers leaves the file, the round and the upload alone. *)
LEMMA AnswerStep ==
  ASSUME ReadInv, UNCHANGED <<file, zigbee>>, sent < MaxCommands,
         sent' = sent + 1, Own(answer.devices'),
         answer'.of # "all" => Ids(answer'.devices) \subseteq {answer'.of}
  PROVE  ReadInv'
<1> USE DEF file, zigbee
<1>0. Own(answer'.devices) OBVIOUS
<1>1. sent' \in 0..MaxCommands BY ReadingsAssumption DEF ReadInv, ReadingsTypeOK
<1>2. ReadingsTypeOK' BY <1>1 DEF ReadInv, ReadingsTypeOK
<1>3. Asking' BY DEF ReadInv, Asking, Switches, Sound
<1>4. OwnData' BY <1>0 DEF ReadInv, OwnData
<1>5. UploadsAll' /\ upload' \in Seq(UploadFrame) BY DEF ReadInv, UploadsAll
<1> QED BY <1>2, <1>3, <1>4, <1>5 DEF ReadInv

(* An answer about all devices of a list. *)
LEMMA ReadAllAnswer ==
  ASSUME NEW q, q \in Seq(Node) \/ q \in Seq(Switch), Own(q),
         NEW cmd, NEW refusal, refusal \in BOOLEAN, ReadAll(q, cmd, refusal),
         Own(answer.devices),
         answer.of # "all" => Ids(answer.devices) \subseteq {answer.of},
         refusal => \/ answer' = answer
                    \/ answer'.of = "all" /\ answer'.devices = <<>>
  PROVE  /\ Own(answer'.devices)
         /\ answer'.of # "all" => Ids(answer'.devices) \subseteq {answer'.of}
<1> DEFINE place == Walk(q)
           K == {k \in 0..Len(q) : place[k] > Len(q)}
           copied == Min(K)
           devices == [k \in 1..copied |-> q[place[k - 1]]]
<1>1. \A k \in 0..Len(q) : place[k] \in Nat \ {0}
  BY ListFacts, WalkFacts
<1>2. Len(q) \in Nat /\ DOMAIN q = 1..Len(q) BY ListFacts
<1>3. CASE place[Len(q)] > Len(q) /\ Respond(cmd, "all", devices)
  <2>1. K \in SUBSET Nat /\ Len(q) \in K BY <1>2, <1>3
  <2>2. PICK m \in K : \A k \in K : m <= k BY <2>1, NatLeast
  <2>3. copied \in K /\ \A k \in K : copied <= k BY <2>2 DEF Min
  <2>4. ASSUME NEW k \in 1..copied PROVE place[k - 1] \in DOMAIN q
    <3>1. copied \in 0..Len(q) BY <2>3
    <3>2. k - 1 \in 0..Len(q) /\ ~(copied <= k - 1) BY <1>2, <3>1
    <3>3. k - 1 \notin K BY <2>3, <3>2
    <3>4. ~(place[k - 1] > Len(q)) BY <3>2, <3>3
    <3> QED BY <1>1, <1>2, <3>2, <3>4
  <2> HIDE DEF K, copied, place
  <2>5. Own(devices) BY <2>4 DEF Own
  <2>6. answer'.devices = devices /\ answer'.of = "all"
    BY <1>3 DEF Respond
  <2> QED BY <2>5, <2>6
<1>4. CASE refusal
  <2>1. CASE answer' = answer BY <2>1
  <2>2. CASE answer'.of = "all" /\ answer'.devices = <<>> BY <2>2 DEF Own
  <2> QED BY <1>4, <2>1, <2>2
<1>5. CASE Die BY <1>5 DEF Die
<1> HIDE DEF devices, place
<1> QED BY <1>3, <1>4, <1>5 DEF ReadAll, devices, place

LEMMA AnswersStep ==
  ASSUME ReadInv,
         \/ ReadCaijiqiAll \/ ReadHuganqiAll
         \/ \E t \in Transformers : ReadHuganqi(t)
         \/ \E c \in Collectors : ReadCaijiqi(c)
  PROVE  ReadInv'
<1>1. /\ sent < MaxCommands /\ sent' = sent + 1 /\ UNCHANGED <<file, zigbee>>
  BY DEF ReadCaijiqi, ReadCaijiqiAll, ReadHuganqi, ReadHuganqiAll, Handle
<1>2. /\ collector \in Seq(Node) /\ transformer \in Seq(Switch)
      /\ Own(collector) /\ Own(transformer) /\ Own(answer.devices)
      /\ answer.of # "all" => Ids(answer.devices) \subseteq {answer.of}
  BY DEF ReadInv, ReadingsTypeOK, OwnData
<1> DEFINE Good(a) == /\ Own(a.devices)
                      /\ a.of # "all" => Ids(a.devices) \subseteq {a.of}
<1>3. ASSUME NEW q, Own(q), NEW x, NEW cmd,
             \/ answer' = answer
             \/ Respond(cmd, x, <<>>)
             \/ x \in Ids(q) /\ Respond(cmd, x, <<q[At(q, x)]>>)
      PROVE  Good(answer')
  <2>1. CASE answer' = answer
    <3>1. Good(answer) BY <1>2
    <3> HIDE DEF Good
    <3> QED BY <2>1, <3>1
  <2>2. CASE Respond(cmd, x, <<>>)
    <3>1. answer'.devices = <<>> BY <2>2 DEF Respond
    <3>2. Own(<<>>) /\ Ids(<<>>) = {} BY DEF Own, Ids
    <3> QED BY <3>1, <3>2
  <2>3. CASE x \in Ids(q) /\ Respond(cmd, x, <<q[At(q, x)]>>)
    <3> DEFINE e == q[At(q, x)]
    <3>1. answer'.devices = <<e>> /\ answer'.of = x
      BY <2>3 DEF Respond
    <3>2. At(q, x) \in DOMAIN q /\ e.id = x BY <2>3, AtFound
    <3>3. e.data = None \/ e.data.by = e.id BY <1>3, <3>2 DEF Own
    <3> HIDE DEF e
    <3>4. Own(<<e>>) /\ Ids(<<e>>) = {x} BY <3>2, <3>3 DEF Own, Ids
    <3> QED BY <3>1, <3>4
  <2> QED BY <1>3, <2>1, <2>2, <2>3
<1>4. Good(answer')
  <2>1. ASSUME NEW c \in Collectors, ReadCaijiqi(c) PROVE Good(answer')
    <3>1. \/ answer' = answer
          \/ Respond("caijiqi", c, <<>>)
          \/ /\ c \in Ids(collector)
             /\ Respond("caijiqi", c, <<collector[At(collector, c)]>>)
      BY <2>1 DEF ReadCaijiqi, Hang
    <3> HIDE DEF Good
    <3> QED BY <1>2, <1>3, <3>1
  <2>2. ASSUME NEW t \in Transformers, ReadHuganqi(t) PROVE Good(answer')
    <3>1. \/ answer' = answer
          \/ Respond("huganqi", t, <<>>)
          \/ /\ t \in Ids(transformer)
             /\ Respond("huganqi", t, <<transformer[At(transformer, t)]>>)
      BY <2>2 DEF ReadHuganqi, Quiet
    <3> HIDE DEF Good
    <3> QED BY <1>2, <1>3, <3>1
  <2>3. CASE ReadCaijiqiAll
    <3> DEFINE refusal == Respond("caijiqi", "all", <<>>)
    <3>1. ReadAll(collector, "caijiqi", refusal) BY <2>3 DEF ReadCaijiqiAll
    <3>2. refusal \in BOOLEAN BY DEF Respond
    <3>3. refusal => answer'.of = "all" /\ answer'.devices = <<>> BY DEF Respond
    <3> HIDE DEF refusal
    <3> QED BY <1>2, <3>1, <3>2, <3>3, ReadAllAnswer
  <2>4. CASE ReadHuganqiAll
    <3>1. ReadAll(transformer, "huganqi", Quiet) BY <2>4 DEF ReadHuganqiAll
    <3>2. Quiet \in BOOLEAN BY DEF Quiet
    <3>3. Quiet => answer' = answer BY DEF Quiet
    <3> QED BY <1>2, <3>1, <3>2, <3>3, ReadAllAnswer
  <2> HIDE DEF Good
  <2> QED BY <2>1, <2>2, <2>3, <2>4
<1> QED BY <1>1, <1>4, AnswerStep

(* The collectors change, and nothing else of the invariant. *)
LEMMA CollectorsStep ==
  ASSUME ReadInv, collector' \in Seq(Node), Distinct(collector'),
         Own(collector'), sent' \in 0..MaxCommands, Asking',
         UNCHANGED <<transformer, upload, answer>>
  PROVE  ReadInv'
<1>1. ReadingsTypeOK' BY DEF ReadInv, ReadingsTypeOK
<1>2. OwnData' /\ UploadsAll' BY DEF ReadInv, OwnData, UploadsAll
<1> QED BY <1>1, <1>2 DEF ReadInv

LEMMA ConfigurationStep ==
  ASSUME ReadInv, NEW c \in Collectors,
         DelDpinfo(c) \/ \E types \in TypeLists : SetDpinfo(c, types)
  PROVE  ReadInv'
<1>1. /\ sent < MaxCommands /\ sent' = sent + 1
      /\ UNCHANGED <<transformer, zigbee, answer>>
  BY DEF DelDpinfo, SetDpinfo, Handle
<1>2. sent' \in 0..MaxCommands
  BY <1>1, ReadingsAssumption DEF ReadInv, ReadingsTypeOK
<1>3. Asking' BY <1>1 DEF zigbee, ReadInv, Asking, Switches, Sound
<1>4. collector \in Seq(Node) /\ Distinct(collector) /\ Own(collector)
  BY DEF ReadInv, ReadingsTypeOK, OwnData
<1>5. collector' \in Seq(Node) /\ Distinct(collector') /\ Own(collector')
  <2>1. CASE DelDpinfo(c)
    <3>1. CASE c \in Ids(collector)
      <4>1. collector' = RemoveAt(collector, At(collector, c))
        BY <2>1, <3>1 DEF DelDpinfo
      <4>2. At(collector, c) \in DOMAIN collector BY <3>1, AtFound
      <4> QED BY <1>4, <4>1, <4>2, TakenOut
    <3>2. CASE c \notin Ids(collector)
      BY <1>4, <2>1, <3>2 DEF DelDpinfo
    <3> QED BY <3>1, <3>2
  <2>2. ASSUME NEW types \in TypeLists, SetDpinfo(c, types)
        PROVE  collector' \in Seq(Node) /\ Distinct(collector') /\ Own(collector')
    <3> DEFINE e == [id |-> c, types |-> types, data |-> None]
    <3>1. e \in Node /\ e.id = c /\ e.data = None BY DEF Node
    <3>2. collector' = IF c \in Ids(collector)
                       THEN [collector EXCEPT ![At(collector, c)] = e]
                       ELSE Append(collector, e)
      BY <2>2 DEF SetDpinfo
    <3> HIDE DEF e
    <3>3. CASE c \in Ids(collector)
      <4> DEFINE i == At(collector, c)
      <4>1. collector' = [collector EXCEPT ![i] = e] BY <3>2, <3>3
      <4>2. i \in DOMAIN collector /\ collector[i].id = c BY <3>3, AtFound
      <4> HIDE DEF i
      <4> QED BY <1>4, <3>1, <4>1, <4>2, FiledInPlace
    <3>4. CASE c \notin Ids(collector)
      <4>1. collector' = Append(collector, e) BY <3>2, <3>4
      <4> QED BY <1>4, <3>1, <3>4, <4>1, AddedAtEnd
    <3> QED BY <3>3, <3>4
  <2> QED BY <2>1, <2>2
<1> QED BY <1>1, <1>2, <1>3, <1>5, CollectorsStep DEF zigbee

(* The answer of the device that is asked. *)
LEMMA ReplySound ==
  ASSUME ReadInv, zpc = "waiting"
  PROVE  Sound(Reply(asked))
<1>1. CASE asked \in Node
  <2>1. asked.id \in Collectors BY <1>1 DEF Node
  <2>2. /\ Measured(asked.id, asked.types) \in Data
        /\ Measured(asked.id, asked.types).by = asked.id
    BY <1>1, MeasuredType
  <2>3. /\ Reply(asked).id = asked.id
        /\ Reply(asked).data = Measured(asked.id, asked.types)
    BY <2>1 DEF Reply
  <2> QED BY <2>1, <2>2, <2>3 DEF Sound
<1>2. CASE asked \in Switch /\ asked.id \in Ids(transformer)
  <2>1. asked.id \in Transformers /\ asked.id \notin Collectors
    BY <1>2, ReadingsAssumption DEF Switch
  <2>2. Reply(asked) = [id |-> asked.id, data |-> Switched(asked.id)]
    BY <2>1 DEF Reply
  <2>3. Reply(asked) \in Switch /\ Switched(asked.id).by = asked.id
    BY <2>1, <2>2, SwitchedType
  <2> QED BY <1>2, <2>2, <2>3 DEF Sound
<1> QED BY <1>1, <1>2 DEF ReadInv, Asking

(* An answer is filed with the device it states. *)
LEMMA RecordStep ==
  ASSUME ReadInv, NEW f, Sound(f), Record(f)
  PROVE  /\ collector' \in Seq(Node) /\ Distinct(collector') /\ Own(collector')
         /\ transformer' \in Seq(Switch) /\ Distinct(transformer')
         /\ Own(transformer')
         /\ Ids(collector') = Ids(collector)
         /\ Ids(transformer') = Ids(transformer)
<1>1. /\ collector \in Seq(Node) /\ Distinct(collector) /\ Own(collector)
      /\ transformer \in Seq(Switch) /\ Distinct(transformer) /\ Own(transformer)
  BY DEF ReadInv, ReadingsTypeOK, OwnData
<1>2. CASE f.id \in Collectors /\ RecordCollector(f) /\ UNCHANGED transformer
  <2> DEFINE i == At(collector, f.id)
             e == [collector[i] EXCEPT !.data = f.data]
  <2>1. f.data \in Data /\ f.data.by = f.id
    <3>1. f \notin Switch BY <1>2, ReadingsAssumption DEF Switch
    <3> QED BY <3>1 DEF Sound
  <2>2. CASE f.id \in Ids(collector)
    <3>1. i \in DOMAIN collector /\ collector[i].id = f.id BY <2>2, AtFound
    <3>2. collector[i] \in Node BY <1>1, <3>1
    <3>3. collector' = [collector EXCEPT ![i].data = f.data]
      BY <1>2, <2>2 DEF RecordCollector
    <3>4. e \in Node /\ e.id = f.id /\ e.data = f.data
      BY <2>1, <3>1, <3>2 DEF Node
    <3>5. collector' = [collector EXCEPT ![i] = e] BY <3>3
    <3>6. e.id = collector[i].id /\ e.data.by = e.id BY <2>1, <3>1, <3>4
    <3>7. e \in Node /\ i \in DOMAIN collector BY <3>1, <3>4
    <3> HIDE DEF e, i
    <3>8. \A x : x \in Ids(collector') <=> x \in Ids(collector)
      BY ONLY <1>1, <3>5, <3>6, <3>7, FiledIds
    <3>9. collector' \in Seq(Node) /\ Distinct(collector') /\ Own(collector')
      BY ONLY <1>1, <3>5, <3>6, <3>7, FiledInPlace
    <3> QED BY <1>1, <1>2, <3>8, <3>9
  <2>3. CASE f.id \notin Ids(collector)
    BY <1>1, <1>2, <2>3 DEF RecordCollector
  <2> QED BY <2>2, <2>3
<1>3. CASE f.id \in Transformers /\ RecordTransformer(f) /\ UNCHANGED collector
  <2> DEFINE i == At(transformer, f.id)
  <2>1. f \in Switch /\ f.id \in Ids(transformer) /\ f.data.by = f.id
    BY <1>3, ReadingsAssumption DEF Sound
  <2>2. /\ transformer' = [transformer EXCEPT ![i] = f]
        /\ i \in DOMAIN transformer /\ f.id = transformer[i].id
    BY <1>3, <2>1, AtFound DEF RecordTransformer
  <2> HIDE DEF i
  <2>3. \A x : x \in Ids(transformer') <=> x \in Ids(transformer)
    BY ONLY <1>1, <2>1, <2>2, FiledIds
  <2>4. transformer' \in Seq(Switch) /\ Distinct(transformer') /\ Own(transformer')
    BY ONLY <1>1, <2>1, <2>2, FiledInPlace
  <2> QED BY <1>1, <1>3, <2>3, <2>4
<1> QED BY <1>2, <1>3 DEF Record

LEMMA HeardStep ==
  ASSUME ReadInv, Answers \/ LateAnswers \/ LateInTurn
  PROVE  ReadInv' /\ Ids(collector') = Ids(collector)
<1>1. /\ UNCHANGED <<cursor, upload, answer, sent>>
      /\ zpc' # "waiting"
      /\ zpc' = "collectors" => zpc = "waiting" /\ asked.id \in Collectors
      /\ zpc' = "transformers" => zpc = "waiting" /\ asked.id \notin Collectors
  BY DEF Answers, LateAnswers, LateInTurn, Onward, web
<1>2. PICK f : Sound(f) /\ Record(f)
  BY ReplySound DEF Answers, LateAnswers, LateInTurn, Onward, ReadInv, Asking
<1>3. /\ collector' \in Seq(Node) /\ Distinct(collector') /\ Own(collector')
      /\ transformer' \in Seq(Switch) /\ Distinct(transformer')
      /\ Own(transformer')
      /\ Ids(collector') = Ids(collector)
      /\ Ids(transformer') = Ids(transformer)
  BY <1>2, RecordStep
<1>4. late' = None \/ Sound(late')
  BY ReplySound DEF Answers, LateAnswers, LateInTurn, Onward, ReadInv, Asking
<1>5. late' = None \/ Sound(late)' BY <1>3, <1>4 DEF Sound
<1>6. /\ zpc' = "collectors" => cursor \in Seq(Node)
      /\ zpc' = "transformers" => Switches(cursor)
  <2>1. asked \in Node => asked.id \in Collectors BY DEF Node
  <2>2. asked \in Switch => asked.id \notin Collectors
    BY ReadingsAssumption DEF Switch
  <2> QED BY <1>1, <2>1, <2>2 DEF ReadInv, Asking
<1>7. Asking' BY <1>1, <1>3, <1>5, <1>6 DEF Asking, Switches
<1>8. ReadingsTypeOK' BY <1>1, <1>3 DEF ReadInv, ReadingsTypeOK
<1>9. OwnData' BY <1>1, <1>3 DEF ReadInv, OwnData
<1>10. UploadsAll' /\ upload' \in Seq(UploadFrame)
  BY <1>1 DEF ReadInv, UploadsAll
<1> QED BY <1>3, <1>7, <1>8, <1>9, <1>10 DEF ReadInv

(* The round goes on. *)
LEMMA RoundStep ==
  ASSUME ReadInv,
         StartRound \/ AskCollector \/ TransformersNext \/ AskTransformer
           \/ NoAnswer \/ SkipUpload
  PROVE  ReadInv'
<1>1. /\ UNCHANGED <<collector, transformer, answer, sent>>
      /\ upload' \in {upload, <<>>}
  BY DEF StartRound, AskCollector, TransformersNext, AskTransformer, Ask,
         NoAnswer, Onward, SkipUpload, file, web
<1>2. ReadingsTypeOK' /\ OwnData' /\ UploadsAll' /\ upload' \in Seq(UploadFrame)
  <2>1. CASE upload' = upload
    BY <1>1, <2>1 DEF ReadInv, ReadingsTypeOK, OwnData, UploadsAll
  <2>2. CASE upload' = <<>>
    <3>1. DOMAIN upload' = {} /\ upload' \in Seq(UploadFrame) BY <2>2
    <3> QED BY <1>1, <3>1 DEF ReadInv, ReadingsTypeOK, OwnData, UploadsAll
  <2> QED BY <1>1, <2>1, <2>2
<1>a. late' = None \/ Sound(late)'
  <2>1. late' = late \/ (zpc = "waiting" /\ late' = Reply(asked))
    BY DEF StartRound, AskCollector, TransformersNext, AskTransformer, Ask,
           NoAnswer, Onward, SkipUpload
  <2>2. late' = None \/ Sound(late')
    BY <2>1, ReplySound DEF ReadInv, Asking
  <2> QED BY <1>1, <2>2 DEF Sound
<1>3. ASSUME NEW S, NEW q \in Seq(S), q # <<>>
      PROVE  /\ Head(q) \in S /\ Tail(q) \in Seq(S)
             /\ Head(q).id \in Ids(q) /\ Ids(Tail(q)) \subseteq Ids(q)
  <2>1. /\ Len(q) \in Nat \ {0} /\ Head(q) = q[1] /\ Tail(q) \in Seq(S)
        /\ DOMAIN q = 1..Len(q) /\ DOMAIN Tail(q) = 1..Len(q) - 1
        /\ \A k \in 1..Len(q) - 1 : Tail(q)[k] = q[k + 1]
    BY <1>3, EmptySeq, HeadTailProperties
  <2>2. 1 \in DOMAIN q BY <2>1
  <2>3. Head(q) \in S /\ Head(q).id \in Ids(q) BY <2>1, <2>2 DEF Ids
  <2>4. Ids(Tail(q)) \subseteq Ids(q)
    <3> SUFFICES ASSUME NEW k \in DOMAIN Tail(q) PROVE Tail(q)[k].id \in Ids(q)
      BY DEF Ids
    <3>1. Tail(q)[k] = q[k + 1] /\ k + 1 \in DOMAIN q BY <2>1
    <3> QED BY <3>1 DEF Ids
  <2> QED BY <2>1, <2>3, <2>4
<1>4. /\ collector \in Seq(Node) /\ transformer \in Seq(Switch)
  BY DEF ReadInv, ReadingsTypeOK
<1>5. Asking BY DEF ReadInv
<1>6. Asking'
  <2>1. CASE StartRound BY <1>4, <1>a, <2>1 DEF StartRound, Asking
  <2>2. CASE AskCollector
    <3>1. cursor \in Seq(Node) /\ cursor # <<>> BY <1>5, <2>2 DEF AskCollector, Ask, Asking
    <3>2. Head(cursor) \in Node /\ Tail(cursor) \in Seq(Node) BY <1>3, <3>1
    <3> QED BY <1>a, <2>2, <3>2 DEF AskCollector, Ask, Asking
  <2>3. CASE TransformersNext
    BY <1>1, <1>4, <1>a, <2>3 DEF TransformersNext, Asking, Switches
  <2>4. CASE AskTransformer
    <3>1. Switches(cursor) /\ cursor # <<>> BY <1>5, <2>4 DEF AskTransformer, Ask, Asking
    <3>2. /\ Head(cursor) \in Switch /\ Tail(cursor) \in Seq(Switch)
          /\ Head(cursor).id \in Ids(cursor) /\ Ids(Tail(cursor)) \subseteq Ids(cursor)
      BY <1>3, <3>1 DEF Switches
    <3>3. Head(cursor).id \in Ids(transformer)
          /\ Ids(Tail(cursor)) \subseteq Ids(transformer)
      BY <3>1, <3>2 DEF Switches
    <3> QED BY <1>1, <1>a, <2>4, <3>2, <3>3 DEF AskTransformer, Ask, Asking, Switches
  <2>5. CASE NoAnswer
    <3>1. asked \in Node => asked.id \in Collectors BY DEF Node
    <3>2. asked \in Switch => asked.id \notin Collectors
      BY ReadingsAssumption DEF Switch
    <3> QED BY <1>1, <1>5, <1>a, <2>5, <3>1, <3>2 DEF NoAnswer, Onward, Asking, Switches
  <2>6. CASE SkipUpload BY <1>a, <2>6 DEF SkipUpload, Asking
  <2> QED BY <2>1, <2>2, <2>3, <2>4, <2>5, <2>6
<1> QED BY <1>2, <1>6 DEF ReadInv

LEMMA UploadStep ==
  ASSUME ReadInv, UploadTransformers \/ UploadCollectors
  PROVE  ReadInv'
<1>1. /\ UNCHANGED <<collector, transformer, answer, sent>>
      /\ zpc' \in {"upload", "idle"}
  BY DEF UploadTransformers, UploadCollectors, file, web
<1>2. /\ collector \in Seq(Node) /\ transformer \in Seq(Switch)
      /\ Distinct(collector) /\ Distinct(transformer)
      /\ Own(collector) /\ Own(transformer)
      /\ upload \in Seq(UploadFrame) /\ FramesSound(upload)
  BY UploadsSplit DEF ReadingsTypeOK
<1>3. <<>> \in Seq(UploadFrame) /\ FramesSound(<<>>) BY DEF FramesSound
<1>4. upload' \in Seq(UploadFrame) /\ FramesSound(upload')
  <2>1. CASE UploadTransformers
    <3>1. /\ Append(<<>>, Frame(transformer, Header)) \in Seq(UploadFrame)
          /\ FramesSound(Append(<<>>, Frame(transformer, Header)))
      BY <1>2, <1>3, FrameAdded DEF Header
    <3>2. upload' = <<>> \/ upload' = Append(<<>>, Frame(transformer, Header))
      BY <2>1 DEF UploadTransformers
    <3> QED BY <1>3, <3>1, <3>2
  <2>2. CASE UploadCollectors
    <3>1. /\ Append(upload, Frame(collector, 4)) \in Seq(UploadFrame)
          /\ FramesSound(Append(upload, Frame(collector, 4)))
      BY <1>2, FrameAdded
    <3>2. upload' = upload \/ upload' = Append(upload, Frame(collector, 4))
      BY <2>2 DEF UploadCollectors
    <3> QED BY <1>2, <3>1, <3>2
  <2> QED BY <2>1, <2>2
<1>5. ReadingsTypeOK' BY <1>1 DEF ReadInv, ReadingsTypeOK
<1>6. Asking'
  <2>1. late' = late BY DEF UploadTransformers, UploadCollectors
  <2> QED BY <1>1, <2>1 DEF ReadInv, Asking, Sound
<1>7. OwnData'
  <2>1. \A k \in DOMAIN upload' : Own(upload'[k].devices) BY <1>4 DEF FramesSound, FrameOK
  <2> QED BY <1>1, <2>1 DEF ReadInv, OwnData
<1>8. UploadsAll' BY <1>4 DEF UploadsAll, FramesSound, FrameOK
<1> QED BY <1>4, <1>5, <1>6, <1>7, <1>8 DEF ReadInv

LEMMA ReadStep == ReadInv /\ [ReadingsNext]_readingsVars => ReadInv'
<1> SUFFICES ASSUME ReadInv, [ReadingsNext]_readingsVars PROVE ReadInv' OBVIOUS
<1>1. CASE ReadCaijiqiAll \/ ReadHuganqiAll
      \/ (\E t \in Transformers : ReadHuganqi(t))
      \/ (\E c \in Collectors : ReadCaijiqi(c))
  BY <1>1, AnswersStep
<1>2. ASSUME NEW c \in Collectors,
             DelDpinfo(c) \/ \E types \in TypeLists : SetDpinfo(c, types)
      PROVE  ReadInv'
  BY <1>2, ConfigurationStep
<1>3. CASE Zigbee
  BY <1>3, HeardStep, RoundStep, UploadStep
     DEF Zigbee
<1>4. CASE UNCHANGED readingsVars
  BY <1>4 DEF readingsVars, file, zigbee, web, ReadInv, ReadingsTypeOK, Asking,
              Switches, Sound, OwnData, UploadsAll
<1> QED BY <1>1, <1>2, <1>3, <1>4 DEF ReadingsNext, Web

(* For any collectors, transformers and type lists, any configuration at   *)
(* the start and any number of commands: the lists stay well formed with   *)
(* every device once in them, the data under an id in the file, in an      *)
(* answer and in an upload was measured by that device, and an upload      *)
(* carries every device that has data, once and in order                   *)
(* (Create_Sharemem_Json, Read_Caijiqi_From_Json,                          *)
(* send_data_to_web_on_time).                                              *)
THEOREM ReadingsAreSound == ReadingsSpec => []ReadingsSound
<1>1. ReadingsInit => ReadInv BY ReadInit
<1>2. ReadInv /\ [ReadingsNext]_readingsVars => ReadInv' BY ReadStep
<1>3. ReadInv => ReadingsSound BY DEF ReadInv, ReadingsSound
<1> QED BY <1>1, <1>2, <1>3, PTL DEF ReadingsSpec

(* A collector that was deleted does not come back with an answer to a     *)
(* question from before: only a command of the web adds a collector, for   *)
(* any lists (Create_Sharemem_Json, CMD_SET_DPINFO).                       *)
THEOREM DeletedStayAway == ReadingsSpec => NoneAdded
<1> DEFINE P == \A c \in Collectors :
                  (c \in Ids(collector') /\ sent' = sent) => c \in Ids(collector)
<1>1. ReadingsInit => ReadInv BY ReadInit
<1>2. ReadInv /\ [ReadingsNext]_readingsVars => ReadInv' BY ReadStep
<1>3. ASSUME ReadInv, [ReadingsNext]_readingsVars PROVE [P]_readingsVars
  <2>1. SUFFICES ASSUME ReadingsNext, sent' = sent
                 PROVE  Ids(collector') = Ids(collector)
    BY <1>3
  <2>2. sent \in Nat BY <1>3, ReadingsAssumption DEF ReadInv, ReadingsTypeOK
  <2>3. ~Web
    <3>1. Web => sent' = sent + 1
      BY DEF Web, ReadCaijiqiAll, ReadHuganqiAll, ReadHuganqi, ReadCaijiqi,
             DelDpinfo, SetDpinfo, Handle
    <3> QED BY <2>1, <2>2, <3>1
  <2>4. Zigbee BY <2>1, <2>3 DEF ReadingsNext
  <2>5. CASE Answers \/ LateAnswers \/ LateInTurn BY <1>3, <2>5, HeardStep
  <2>6. CASE ~(Answers \/ LateAnswers \/ LateInTurn)
    <3>1. collector' = collector
      BY <2>4, <2>6 DEF Zigbee, StartRound, AskCollector, TransformersNext,
         AskTransformer, Ask, NoAnswer, UploadTransformers,
         UploadCollectors, SkipUpload, file
    <3> QED BY <3>1
  <2> QED BY <2>5, <2>6
<1>4. ReadingsSpec => [][P]_readingsVars BY <1>1, <1>2, <1>3, PTL DEF ReadingsSpec
<1> QED BY <1>4 DEF NoneAdded
=============================================================================
