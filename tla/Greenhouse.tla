----------------------------- MODULE Greenhouse -----------------------------
(***************************************************************************)
(* What the control code of both builds reads and drives: the devices of   *)
(* the relay boxes as configured, the quantity a collector measures, the   *)
(* time of day, the switches themselves, and what sharemem.json shows of   *)
(* them since the last poll.  The switches, the weather and the user are   *)
(* external.                                                               *)
(***************************************************************************)
EXTENDS Integers, Sequences

CONSTANTS
  N,          \* bound: devices in a configuration
  Settings,   \* the configurations to consider
  Levels,     \* what a collector may measure
  Times,      \* times of day, in seconds, that matter to the windows
  ZeroCrc     \* the frames with a zero byte in their CRC

VARIABLES
  setting,   \* configinfo.json, as far as control reads it
  level,     \* the measured quantity
  clock,     \* time of day
  on,        \* the switch of each device
  seen,      \* the collector's "data" in sharemem.json, or NoData
  shown      \* the bit of each device in the "data" of its transformer entry

(* In the order of the arrays of the configuration. *)
Devices == DOMAIN setting.dev
NoData == -1

(* A time of day is the sequence of its numbers, as many as the colons     *)
(* leave: <<9>> for "9", <<9, 30>> for "9:30"; <<>> when the key is not    *)
(* there.                                                                  *)
Text == Seq(Nat)
Window == Text \X Text

(* hgq is the number of entries of the "hgq" array, or NoHgq: 1 for a      *)
(* device with one relay (a valve), more for one with an end switch each   *)
(* way (a motor).                                                          *)
NoHgq == -1
Device ==
  [box : Nat, devid : Nat, acon : 0..2, hgq : Nat \union {NoHgq},
   re1 : {"open", "close", "none"}, re2 : {"open", "close", "none"},
   windows : Seq(Window)]

(* linked: some collector has the box in its "a6" array; max and min are   *)
(* its thresholds for the quantity of the devices.                         *)
Setting ==
  [linked : BOOLEAN, max : Nat, min : Nat,
   dev : Seq(Device)]

(* PARAMCODE_START, PARAMCODE_DIANCIFA_JIETONG and their opposites; "zero" *)
(* is a command byte that was never set.                                   *)
Opening == {"start", "connect"}
Shutting == {"close", "disconnect"}
Code == Opening \union Shutting \union {"zero"}

Frame == [box : Nat, devid : Nat, cmd : Code]

ASSUME GreenhouseAssumption ==
  /\ N \in Nat /\ Levels \subseteq Nat /\ Times \subseteq Nat
  /\ \A s \in Settings : s \in Setting /\ Len(s.dev) \in 1..N
  /\ ZeroCrc \subseteq Frame

greenhouseVars == <<setting, level, clock, on, seen, shown>>

-----------------------------------------------------------------------------
(* cJSON_Get_ST_ET_time: -1 without a colon; the second colon is looked    *)
(* for behind the first and not found in "9:30", nor is a missing key.     *)
Readable(text) == Len(text) \in {1, 3}
Seconds(text) ==
  IF Len(text) = 3 THEN text[1] * 3600 + text[2] * 60 + text[3] ELSE -1

Within(w, t) == Seconds(w[1]) < t /\ t < Seconds(w[2])
InWindow(d, t) == \E i \in DOMAIN d.windows : Within(d.windows[i], t)

(* The automatic control writes strlen(buf_cmd) bytes: a frame with a zero *)
(* byte in it is cut there, in the same place however often it is written. *)
Whole(f) ==
  f.box # 0 /\ f.devid # 0 /\ f.cmd # "zero" /\ f \notin ZeroCrc

(* The codes a kind of device has: one pair is for solenoid valves.        *)
Heeded(dev) ==
  IF dev.hgq = 1 THEN {"connect", "disconnect"} ELSE {"start", "close"}

(* A frame that arrives moves the device it is addressed to, if the code   *)
(* is one of its kind.                                                     *)
Arrived(f) ==
  [d \in Devices |->
     LET dev == setting.dev[d]
     IN  IF dev.box = f.box /\ dev.devid = f.devid /\ f.cmd \in Heeded(dev)
         THEN f.cmd \in Opening ELSE on[d]]

-----------------------------------------------------------------------------
(* The surroundings.                                                       *)

Measure ==
  /\ level' \in Levels \ {level}
  /\ UNCHANGED <<setting, clock, on, seen, shown>>

Tick ==
  /\ clock' \in Times \ {clock}
  /\ UNCHANGED <<setting, level, on, seen, shown>>

(* Somebody uses the switch, or a relay command of the web does. *)
Manual(d) ==
  /\ on' = [on EXCEPT ![d] = ~@]
  /\ UNCHANGED <<setting, level, clock, seen, shown>>

(* The answers of a collector and of a transformer reach sharemem.json     *)
(* (Send_Function, Create_Sharemem_Json).                                  *)
PollCollector ==
  /\ seen' = level
  /\ UNCHANGED <<setting, level, clock, on, shown>>

Status == [Devices -> {"none", "off", "on"}]
PollTransformer ==
  /\ shown' = [d \in Devices |-> IF on[d] THEN "on" ELSE "off"]
  /\ UNCHANGED <<setting, level, clock, on, seen>>

Surroundings ==
  Measure \/ Tick \/ (\E d \in Devices : Manual(d)) \/ PollCollector
    \/ PollTransformer

(* Fresh data-less entries: cjson_from_config_to_sharemem at boot. *)
GreenhouseInit ==
  /\ setting \in Settings
  /\ level \in Levels /\ clock \in Times
  /\ on \in [Devices -> BOOLEAN]
  /\ seen = NoData /\ shown = [d \in Devices |-> "none"]

GreenhouseTypeOK ==
  /\ setting \in Settings
  /\ level \in Levels /\ clock \in Times
  /\ on \in [Devices -> BOOLEAN]
  /\ seen \in Levels \union {NoData} /\ shown \in Status
=============================================================================
