---------------------------- MODULE StoreForward ----------------------------
(***************************************************************************)
(* The local database that bridges a lost connection to the web            *)
(* (sqlite3.c).  While the web is silent the Zigbee thread stores a        *)
(* snapshot of the measurements every round: one row in transformerdata    *)
(* and one in collectordata, under a common serial number.  When the web   *)
(* is back the main loop replays one serial number per pass: it selects,   *)
(* sends and deletes the rows of post_serial_change and moves on.          *)
(*                                                                         *)
(* The serial numbers, the position of the replay and the two threads do   *)
(* not share a lock: pthread_mutex_ttys2_this only serialises the port.    *)
(***************************************************************************)
EXTENDS Naturals, FiniteSets, FiniteSetsExt

CONSTANTS
  BootLimit,     \* 1999 of get_sqlite3_serial_max: from here on ask the file
  ReplayLimit,   \* 19999 of get_data_from_sqlite_to_web
  SaveLimit,     \* 20000 of save_data_to_sqlite
  MaxSamples,    \* bound: snapshots stored
  MaxOutages,    \* bound: times the web falls silent for 30 s
  MaxRestarts    \* bound: power cycles

ASSUME LimitsAssumption ==
  /\ BootLimit \in Nat /\ ReplayLimit \in Nat /\ SaveLimit \in Nat
  /\ BootLimit <= ReplayLimit /\ ReplayLimit < SaveLimit
  /\ MaxSamples \in Nat /\ MaxOutages \in Nat /\ MaxRestarts \in Nat

VARIABLES
  table,         \* the rows of the two tables
  txt,           \* serialnumber.txt
  serialnumber,  \* number of the next row
  serialmax, serialmin,  \* largest and smallest serial of transformerdata
  post,          \* post_serial_change: the serial the replay is at
  first,         \* ~first_enter_get_start
  data,          \* the globals time_all and data: the row selected last
  flag,          \* flag_lost_connect_to_web
  spc, rpc,      \* place of the Zigbee thread and of the main thread
  samples, outages, restarts,
  (* ghosts *)
  inserted,      \* rows ever stored
  posted,        \* rows ever written to the web
  clash          \* a row met an equal serial, or was inserted during a pass

port == <<flag, outages>>
saver == <<spc, samples>>
replay == <<serialmax, serialmin, post, first, data, rpc>>
ghosts == <<inserted, posted, clash>>
vars == <<table, txt, serialnumber, replay, port, saver, restarts, ghosts>>

Kinds == {"transformer", "collector"}
Row == [serial : Nat, kind : Kinds, sample : Nat]
NoRow == [serial |-> 0, kind |-> "collector", sample |-> 0]

(* No row has this serial: the replay never finds anything from here on.   *)
(* post_serial_change keeps counting in the code, here it stays.           *)
Beyond == SaveLimit + MaxSamples + 2

Stored(k) == {r \in table : r.kind = k}
Serials(k) == {r.serial : r \in Stored(k)}
AtPost(k) == {r \in Stored(k) : r.serial = post}

(* A select yields rows in the order of their insertion, that of samples. *)
LastOf(S) == CHOOSE r \in S : \A q \in S : q.sample <= r.sample

(* Mutant of BesidePost: everything up to post is deleted. *)
AfterPost(k) == table \ {r \in Stored(k) : r.serial <= post}

(* What the delete leaves. *)
BesidePost(k) == table \ AtPost(k)

-----------------------------------------------------------------------------
(* The link, as the DTU thread sees it. *)

(* Any byte of the web ends an outage. *)
WebByte ==
  /\ flag # 0
  /\ flag' = 0
  /\ UNCHANGED <<table, txt, serialnumber, replay, outages, saver, restarts,
                 ghosts>>

(* 30 s without a byte. *)
Silence ==
  /\ flag # 1 /\ outages < MaxOutages
  /\ flag' = 1
  /\ outages' = outages + 1
  /\ UNCHANGED <<table, txt, serialnumber, replay, saver, restarts, ghosts>>

-----------------------------------------------------------------------------
(* save_data_to_sqlite, in the Zigbee thread.  The flag is looked at once, *)
(* before the snapshot is taken.                                           *)

SaveStart ==
  /\ spc = "idle" /\ flag = 1 /\ samples < MaxSamples
  /\ samples' = samples + 1
  /\ spc' = "transformer"
  /\ UNCHANGED <<table, txt, serialnumber, replay, port, restarts, ghosts>>

NewRow(k) == [serial |-> serialnumber, kind |-> k, sample |-> samples]

Insert(k) ==
  /\ table' = table \union {NewRow(k)}
  /\ inserted' = inserted \union {NewRow(k)}
  /\ clash' = (clash \/ rpc # "idle" \/ serialnumber \in Serials(k))

InsertTransformer ==
  /\ spc = "transformer"
  /\ Insert("transformer")
  /\ spc' = "collector"
  /\ UNCHANGED <<txt, serialnumber, replay, port, samples, restarts, posted>>

InsertCollector ==
  /\ spc = "collector"
  /\ Insert("collector")
  /\ spc' = "count"
  /\ UNCHANGED <<txt, serialnumber, replay, port, samples, restarts, posted>>

(* serialnumber ++ <= 20000: the test sees the old number, the file gets   *)
(* the new one.                                                            *)
CountUp ==
  /\ spc = "count"
  /\ IF serialnumber <= SaveLimit
     THEN /\ serialnumber' = serialnumber + 1
          /\ txt' = serialnumber + 1
     ELSE /\ serialnumber' = 0
          /\ UNCHANGED txt
  /\ spc' = "idle"
  /\ UNCHANGED <<table, replay, port, samples, restarts, ghosts>>

Save == SaveStart \/ InsertTransformer \/ InsertCollector \/ CountUp

-----------------------------------------------------------------------------
(* get_data_from_sqlite_to_web, in the main loop, every 3 s.               *)

(* The largest serial.  An empty table yields no row, the callback is not  *)
(* called and serialmax keeps its value; the same goes for serialmin.      *)
ReplayMax ==
  /\ rpc = "idle" /\ flag = 0
  /\ serialmax' = IF Serials("transformer") = {} THEN serialmax
                  ELSE Max(Serials("transformer"))
  /\ rpc' = "min"
  /\ clash' = (clash \/ spc # "idle")
  /\ UNCHANGED <<table, txt, serialnumber, serialmin, post, first, data, port,
                 saver, restarts, inserted, posted>>

ReplayMin ==
  /\ rpc = "min"
  /\ serialmin' = IF Serials("transformer") = {} THEN serialmin
                  ELSE Min(Serials("transformer"))
  /\ rpc' = IF serialmax = serialmin' THEN "count" ELSE "transformer"
  /\ UNCHANGED <<table, txt, serialnumber, serialmax, post, first, data, port,
                 saver, restarts, ghosts>>

(* Mutant of ReplayCount: the test for an empty table is the wrong way     *)
(* round.                                                                  *)
ReplayCountInverted ==
  /\ rpc = "count"
  /\ serialnumber' = Cardinality(Stored("collector"))
  /\ IF serialnumber' # 0
     THEN post' = 0 /\ rpc' = "idle"
     ELSE rpc' = "transformer" /\ UNCHANGED post
  /\ UNCHANGED <<table, txt, serialmax, serialmin, first, data, port, saver,
                 restarts, ghosts>>

(* The callback of the count query stores into serialnumber, the number    *)
(* save_data_to_sqlite gives to its next row.                              *)
ReplayCount ==
  /\ rpc = "count"
  /\ serialnumber' = Cardinality(Stored("collector"))
  /\ IF serialnumber' = 0
     THEN post' = 0 /\ rpc' = "idle"
     ELSE rpc' = "transformer" /\ UNCHANGED post
  /\ UNCHANGED <<table, txt, serialmax, serialmin, first, data, port, saver,
                 restarts, ghosts>>

(* Select and send.  The callback runs for every row found, so the last    *)
(* one is sent; when there is none, what was selected before is sent       *)
(* again.  Nothing is sent before a first row has been selected.           *)
Send(k) ==
  LET row == IF AtPost(k) = {} THEN data ELSE LastOf(AtPost(k))
  IN /\ data' = row
     /\ posted' = posted \union ({row} \ {NoRow})
     /\ UNCHANGED <<table, txt, serialnumber, serialmax, serialmin, post,
                    first, port, saver, restarts, inserted, clash>>

SendTransformer ==
  rpc = "transformer" /\ rpc' = "drop" /\ Send("transformer")

SendCollector ==
  rpc = "collector" /\ rpc' = "advance" /\ Send("collector")

DropTransformer ==
  /\ rpc = "drop"
  /\ table' = BesidePost("transformer")
  /\ rpc' = "collector"
  /\ UNCHANGED <<txt, serialnumber, serialmax, serialmin, post, first, data,
                 port, saver, restarts, ghosts>>

(* Mutant of DropCollectorAndAdvance: it moves on once per table. *)
DropCollectorAndAdvanceTwice ==
  /\ rpc = "advance"
  /\ table' = BesidePost("collector")
  /\ post' = IF post < Beyond THEN post + 2 ELSE post
  /\ rpc' = "idle"
  /\ UNCHANGED <<txt, serialnumber, serialmax, serialmin, first, data, port,
                 saver, restarts, ghosts>>

(* Once serialmax has reached 19999 the replay jumps to the number in the  *)
(* file, once, and then to 0 on every pass.  The number is read into data, *)
(* of which nothing can be sent then.                                      *)
DropCollectorAndAdvance ==
  /\ rpc = "advance"
  /\ table' = BesidePost("collector")
  /\ IF serialmax < ReplayLimit
     THEN /\ post' = IF post < Beyond THEN post + 1 ELSE post
          /\ UNCHANGED <<first, data>>
     ELSE /\ post' = IF first THEN txt + 1 ELSE 0
          /\ data' = IF first THEN NoRow ELSE data
          /\ first' = FALSE
  /\ rpc' = "idle"
  /\ UNCHANGED <<txt, serialnumber, serialmax, serialmin, port, saver,
                 restarts, ghosts>>

Replay ==
  \/ ReplayMax \/ ReplayMin \/ ReplayCount
  \/ SendTransformer \/ DropTransformer
  \/ SendCollector \/ DropCollectorAndAdvance

-----------------------------------------------------------------------------

(* A power cycle: the tables and the file survive.  get_sqlite3_serial_max *)
(* starts numbering at the number of rows, or at the file.                 *)
FirstSerial ==
  LET n == Cardinality(Stored("collector"))
  IN IF n >= BootLimit THEN txt ELSE n

Restart ==
  /\ restarts < MaxRestarts
  /\ restarts' = restarts + 1
  /\ serialnumber' = FirstSerial
  /\ serialmax' = 0 /\ serialmin' = 0 /\ post' = 0 /\ first' = TRUE
  /\ data' = NoRow /\ flag' = 2 /\ spc' = "idle" /\ rpc' = "idle"
  /\ UNCHANGED <<table, txt, samples, outages, ghosts>>

Init ==
  /\ table = {}
  /\ txt = 0 /\ serialnumber = 0 /\ serialmax = 0 /\ serialmin = 0
  /\ post = 0 /\ first = TRUE /\ data = NoRow /\ flag = 2
  /\ spc = "idle" /\ rpc = "idle"
  /\ samples = 0 /\ outages = 0 /\ restarts = 0
  /\ inserted = {} /\ posted = {} /\ clash = FALSE

Next == WebByte \/ Silence \/ Save \/ Replay \/ Restart

(* Main loop and Zigbee loop never stop; the web may stay silent. *)
Spec == Init /\ [][Next]_vars /\ WF_vars(Replay) /\ WF_vars(Save)

-----------------------------------------------------------------------------
(* Properties. *)

(* Serials are natural numbers, and post stays at what they can be.        *)
TypeOK ==
  /\ table \in SUBSET Row
  /\ txt \in Nat /\ serialnumber \in Nat
  /\ serialmax \in Nat /\ serialmin \in Nat /\ post \in Nat
  /\ first \in BOOLEAN /\ data \in Row
  /\ flag \in 0..2
  /\ spc \in {"idle", "transformer", "collector", "count"}
  /\ rpc \in {"idle", "min", "count", "transformer", "drop", "collector",
              "advance"}
  /\ samples \in 0..MaxSamples /\ outages \in 0..MaxOutages
  /\ restarts \in 0..MaxRestarts
  /\ inserted \in SUBSET Row /\ posted \in SUBSET Row
  /\ clash \in BOOLEAN

(* Stored and not yet written to the web. *)
Waiting == inserted \ posted

(* README: the database is there to prevent the loss of data while the     *)
(* connection is down.  A stored row is in its table until it has been     *)
(* sent (save_data_to_sqlite, get_data_from_sqlite_to_web).                *)
NoRowLost == Waiting \subseteq table

(* No row disappears from its table before it was written to the web as    *)
(* long as serials do not collide and no snapshot is stored during a pass, *)
(* whatever restarts and outages happen.                                   *)
NoRowLostWithoutClash == ~clash => NoRowLost
RowsKept == TypeOK /\ NoRowLostWithoutClash

(* Up to the second outage, while the gateway stays up, rows are replayed  *)
(* in the order of their storage.                                          *)
OldestFirst ==
  [][(~clash' /\ restarts' = 0 /\ outages' <= 1) =>
       \A r \in posted' \ posted : \A q \in Waiting :
         q.kind = r.kind => r.sample <= q.sample]_vars

(* README: the data stored while the connection was down is not lost, so   *)
(* once the web stays connected every stored row reaches it, even if we    *)
(* only look at behaviours without a clash.                                *)
Drains == <>[](flag = 0 /\ ~clash) => <>[](Waiting = {})

FirstOutage ==
  ~clash /\ outages <= 1 /\ restarts = 0 /\ serialmax < ReplayLimit

(* The replay does catch up after the first outage since the start of the  *)
(* gateway, if fewer than 19999 serials were used and no snapshot was      *)
(* stored while a pass was under way (get_data_from_sqlite_to_web).        *)
FirstOutageDrains == <>[](flag = 0 /\ FirstOutage) => <>[](Waiting = {})
=============================================================================
