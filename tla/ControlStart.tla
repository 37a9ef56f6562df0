---------------------------- MODULE ControlStart ----------------------------
(***************************************************************************)
(* The control of the build in all_start0628: auto_control_dev in the main *)
(* loop, by thresholds, and control_dev_by_time in the Zigbee thread, by   *)
(* the clock.  Both look at what sharemem.json shows before they write a   *)
(* command, and both write to the same port.  A write may be lost on its   *)
(* way.                                                                    *)
(***************************************************************************)
EXTENDS Greenhouse

CONSTANT MaxRestarts  \* bound: power cycles

ASSUME RestartsAssumption == MaxRestarts \in Nat

VARIABLES
  restarts,
  apc, anext, abuf,   \* main loop: place, next device, command and its basis
  tpc, tnext, tinside \* Zigbee thread: place, next device, window found open

autoVars == <<apc, anext, abuf>>
timedVars == <<tpc, tnext, tinside>>
vars == <<greenhouseVars, restarts, autoVars, timedVars>>

Zeroed == [cmd |-> "zero", basis |-> NoData]

-----------------------------------------------------------------------------
(* Get_Collecter_glsen_data: 0 stands for "no data", also when             *)
(* sharemem.json cannot be parsed just now, in the middle of a save.       *)
Glsen(torn) == IF torn \/ seen = NoData THEN 0 ELSE seen

(* Mutant of CommandOf: PARAMCODE_PAUSE to a motor. *)
CommandOfPausing(rule, hgq) ==
  IF rule = "open" THEN (IF hgq = 1 THEN "connect" ELSE "start")
                   ELSE (IF hgq = 1 THEN "disconnect" ELSE "pause")

(* The command of a rule, by the kind of the device. *)
CommandOf(rule, hgq) ==
  IF rule = "open" THEN (IF hgq = 1 THEN "connect" ELSE "start")
                   ELSE (IF hgq = 1 THEN "disconnect" ELSE "close")

(* Mutant of AlreadyThere: the first end switch is asked whatever the rule. *)
AlreadyThereFirst(d, rule, torn) == ~torn /\ shown[d] = "on"

(* get_huganqi_status: what the last poll shows of the end the rule is     *)
(* after; 2, for no data and for a file that cannot be parsed, is neither. *)
AlreadyThere(d, rule, torn) ==
  ~torn /\ shown[d] = (IF rule = "open" THEN "on" ELSE "off")

(* The rule that applies: re1 above the upper threshold, re2 below the     *)
(* lower one.  A device with an unknown rule or without "hgq" leaves the   *)
(* command byte as it is.                                                  *)
Rule(dev, glsen) ==
  IF glsen > setting.max THEN dev.re1
  ELSE IF glsen < setting.min THEN dev.re2 ELSE "none"

(* The main loop calls auto_control_dev every five seconds.  Nothing is    *)
(* done when configinfo.json cannot be parsed.                             *)
AutoStart(torn) ==
  /\ apc = "idle"
  /\ IF torn THEN UNCHANGED <<apc, anext>> ELSE apc' = "device" /\ anext' = 1
  /\ abuf' = Zeroed
  /\ UNCHANGED <<greenhouseVars, timedVars>>

AutoEnd ==
  /\ apc = "device" /\ anext \notin Devices
  /\ apc' = "idle"
  /\ UNCHANGED <<greenhouseVars, timedVars, anext, abuf>>

Automated(d) == setting.dev[d].acon = 1 /\ setting.linked

AutoSkip ==
  /\ apc = "device" /\ anext \in Devices /\ ~Automated(anext)
  /\ anext' = anext + 1
  /\ UNCHANGED <<greenhouseVars, timedVars, apc, abuf>>

(* Mutant of Undecided: a missing measurement counts. *)
UndecidedByLimits(glsen) == setting.max <= setting.min

(* The thresholds say nothing, or there is no measurement. *)
Undecided(glsen) == glsen = 0 \/ setting.max <= setting.min

(* The measurement is read and the buffer is cleared, for each device;     *)
(* without a rule that applies or without "hgq" it stays so.               *)
AutoMeasure(torn) ==
  LET dev == setting.dev[anext]
      glsen == Glsen(torn)
  IN  /\ apc = "device" /\ anext \in Devices /\ Automated(anext)
      /\ IF Undecided(glsen)
         THEN anext' = anext + 1 /\ UNCHANGED <<apc, abuf>>
         ELSE /\ abuf' = [cmd |-> "zero", basis |-> glsen]
              /\ apc' = IF Rule(dev, glsen) = "none" \/ dev.hgq < 1
                        THEN "write" ELSE "look"
              /\ UNCHANGED anext
      /\ UNCHANGED <<greenhouseVars, timedVars>>

(* The state of the device is read, from the file once more; the rule sets *)
(* its command unless the device is there already.                         *)
AutoLook(torn) ==
  LET dev == setting.dev[anext]
      rule == Rule(dev, abuf.basis)
  IN  /\ apc = "look"
      /\ IF AlreadyThere(anext, rule, torn)
         THEN anext' = anext + 1 /\ apc' = "device" /\ UNCHANGED abuf
         ELSE /\ abuf' = [abuf EXCEPT !.cmd = CommandOf(rule, dev.hgq)]
              /\ apc' = "write" /\ UNCHANGED anext
      /\ UNCHANGED <<greenhouseVars, timedVars>>

FrameFor(d, code) ==
  [box |-> setting.dev[d].box, devid |-> setting.dev[d].devid, cmd |-> code]

(* write(fd, buf_cmd, strlen(buf_cmd)): a frame that is cut moves nothing, *)
(* whether the line loses what was written or not.                         *)
AutoWrite(arrives) ==
  LET f == FrameFor(anext, abuf.cmd)
  IN  /\ apc = "write"
      /\ on' = IF arrives /\ Whole(f) THEN Arrived(f) ELSE on
      /\ anext' = anext + 1
      /\ apc' = "device"
      /\ UNCHANGED <<setting, level, clock, seen, shown, timedVars, abuf>>

-----------------------------------------------------------------------------
(* control_dev_by_time, once per turn of the Zigbee thread.                *)

TimedStart(torn) ==
  /\ tpc = "idle"
  /\ IF torn THEN UNCHANGED <<tpc, tnext>> ELSE tpc' = "device" /\ tnext' = 1
  /\ UNCHANGED <<greenhouseVars, autoVars, tinside>>

TimedEnd ==
  /\ tpc = "device" /\ tnext \notin Devices
  /\ tpc' = "idle"
  /\ UNCHANGED <<greenhouseVars, autoVars, tnext, tinside>>

TimedSkip ==
  /\ tpc = "device" /\ tnext \in Devices /\ setting.dev[tnext].acon # 2
  /\ tnext' = tnext + 1
  /\ UNCHANGED <<greenhouseVars, autoVars, tpc, tinside>>

(* The six times are parsed and the clock is read; then the size of "hgq"  *)
(* is asked for, which kills when there is none.  Of other sizes than one  *)
(* relay and four switches nothing is done.                                *)
TimedLook ==
  /\ tpc = "device" /\ tnext \in Devices
  /\ LET dev == setting.dev[tnext]
         times == \A i \in DOMAIN dev.windows :
                    Readable(dev.windows[i][1]) /\ Readable(dev.windows[i][2])
     IN  /\ dev.acon = 2
         /\ IF times /\ dev.hgq # NoHgq
            THEN /\ tinside' = InWindow(dev, clock)
                 /\ IF dev.hgq \in {1, 4}
                    THEN tpc' = "act" /\ UNCHANGED tnext
                    ELSE tnext' = tnext + 1 /\ UNCHANGED tpc
            ELSE tpc' = "dead" /\ UNCHANGED <<tinside, tnext>>
  /\ UNCHANGED <<greenhouseVars, autoVars>>

TimedRule == IF tinside THEN "open" ELSE "close"

(* One relay: nothing is sent when the file shows the wanted state.  The   *)
(* other kind is sent its command on every turn.                           *)
TimedQuiet(torn) ==
  setting.dev[tnext].hgq = 1 /\ AlreadyThere(tnext, TimedRule, torn)

TimedRest ==
  /\ tpc = "act" /\ TimedQuiet(FALSE)
  /\ tnext' = tnext + 1 /\ tpc' = "device"
  /\ UNCHANGED <<greenhouseVars, autoVars, tinside>>

(* write(fd, buf_all_data, 10) *)
TimedWrite(arrives) ==
  LET f == FrameFor(tnext, CommandOf(TimedRule, setting.dev[tnext].hgq))
  IN  /\ tpc = "act" /\ \E torn \in BOOLEAN : ~TimedQuiet(torn)
      /\ on' = IF arrives THEN Arrived(f) ELSE on
      /\ tnext' = tnext + 1 /\ tpc' = "device"
      /\ UNCHANGED <<setting, level, clock, seen, shown, autoVars, tinside>>

-----------------------------------------------------------------------------
Alive == tpc # "dead"

Automatic == \/ AutoEnd \/ AutoSkip
             \/ \E b \in BOOLEAN : \/ AutoStart(b) \/ AutoMeasure(b) \/ AutoLook(b)
                                  \/ AutoWrite(b)
Timed == \/ TimedEnd \/ TimedSkip \/ TimedLook \/ TimedRest
         \/ \E b \in BOOLEAN : TimedStart(b) \/ TimedWrite(b)

(* The process restarts; the switches stay as they are. *)
Restart ==
  /\ restarts < MaxRestarts /\ restarts' = restarts + 1
  /\ seen' = NoData /\ shown' = [d \in Devices |-> "none"]
  /\ apc' = "idle" /\ anext' = 1 /\ abuf' = Zeroed
  /\ tpc' = "idle" /\ tnext' = 1 /\ tinside' = FALSE
  /\ UNCHANGED <<setting, level, clock, on>>

Init ==
  /\ GreenhouseInit /\ restarts = 0
  /\ apc = "idle" /\ anext = 1 /\ abuf = Zeroed
  /\ tpc = "idle" /\ tnext = 1 /\ tinside = FALSE

Around(A) == A /\ UNCHANGED <<restarts, autoVars, timedVars>>
Running(A) == Alive /\ A /\ UNCHANGED restarts

Next ==
  \/ Around(Surroundings)
  \/ Running(Automatic) \/ Running(Timed)
  \/ Restart

(* Two endless loops; the devices are polled on every turn of the Zigbee   *)
(* thread.  A file is not in the middle of a save each time it is read (a  *)
(* round without a configuration is a step that changes nothing), and the  *)
(* line does not lose a frame each time it is written.  What is cut stays  *)
(* cut.                                                                    *)
Fairness ==
  /\ WF_vars(Running(Automatic)) /\ WF_vars(Running(Timed))
  /\ WF_vars(Around(PollCollector)) /\ WF_vars(Around(PollTransformer))
  /\ \A d \in 1..N :
       /\ SF_vars(Running(anext = d /\ AutoMeasure(FALSE)))
       /\ SF_vars(Running(anext = d /\ AutoWrite(TRUE)))
       /\ SF_vars(Running(tnext = d /\ TimedWrite(TRUE)))

Spec == Init /\ [][Next]_vars /\ Fairness

-----------------------------------------------------------------------------
(* Properties. *)

TypeOK ==
  /\ GreenhouseTypeOK /\ restarts \in 0..MaxRestarts
  /\ apc \in {"idle", "device", "look", "write"} /\ anext \in 1..(N + 1)
  /\ abuf \in [cmd : Code, basis : Levels \union {NoData, 0}]
  /\ apc \in {"look", "write"} => anext \in Devices
  /\ tpc \in {"idle", "device", "act", "dead"} /\ tnext \in 1..(N + 1)
  /\ tpc = "act" => tnext \in Devices
  /\ tinside \in BOOLEAN

(* Whatever was polled, lost or switched by hand meanwhile: each command   *)
(* of the automatic control is the one the rule of the device it is for    *)
(* asks for, on a measurement that was really made (auto_control_dev).     *)
AutoCommand == apc = "write" /\ apc' = "device" /\ abuf.cmd # "zero"
Justified ==
  [][AutoCommand =>
       LET dev == setting.dev[anext]
       IN  /\ dev.acon = 1 /\ abuf.basis \in Levels \ {0}
           /\ abuf.basis > setting.max \/ abuf.basis < setting.min
           /\ Rule(dev, abuf.basis)
                = (IF abuf.cmd \in Opening THEN "open" ELSE "close")]_vars

AutoOn(d) ==
  /\ d \in Devices /\ setting.linked /\ setting.dev[d].acon = 1 /\ setting.dev[d].hgq > 0

(* The command of the rule is one that strlen leaves whole. *)
Sendable(d, rule) == Whole(FrameFor(d, CommandOf(rule, setting.dev[d].hgq)))

(* The measurement asks for one end of an automatic device. *)
Asks(d, rule) ==
  /\ AutoOn(d) /\ setting.max > setting.min
  /\ level > 0 /\ Rule(setting.dev[d], level) = rule
End(there) == IF there THEN "open" ELSE "close"

(* While the measurement asks for one end, an automatic device gets there  *)
(* although frames are lost, files are read in the middle of a save, the   *)
(* status is that of the last poll and somebody may use the switch; unless *)
(* its command is always cut (auto_control_dev).                           *)
AutoFollows ==
  \A d \in 1..N, there \in BOOLEAN :
    LET asks == Alive /\ Asks(d, End(there)) /\ Sendable(d, End(there))
    IN  (asks /\ on[d] # there) ~> (~asks \/ on[d] = there)

(* The same of every automatic device.                                     *)
AllFollow ==
  \A d \in 1..N, there \in BOOLEAN :
    LET asks == Alive /\ Asks(d, End(there))
    IN  (asks /\ on[d] # there) ~> (~asks \/ on[d] = there)

TimedOn(d) ==
  /\ d \in Devices
  /\ setting.dev[d].acon = 2 /\ setting.dev[d].hgq \in {1, 4}
Inside(d) == TimedOn(d) /\ InWindow(setting.dev[d], clock)
Outside(d) == TimedOn(d) /\ ~InWindow(setting.dev[d], clock)

(* A timed device is on at some time in its window, unless the window ends *)
(* first, and off after it (control_dev_by_time).                          *)
TimedOpens ==
  \A d \in 1..N :
    (Inside(d) /\ ~on[d]) ~> (~Alive \/ ~Inside(d) \/ on[d])
TimedCloses ==
  \A d \in 1..N :
    (Outside(d) /\ on[d]) ~> (~Alive \/ ~Outside(d) \/ ~on[d])

(* The devices follow their rules and their windows.                       *)
DevicesFollow == AutoFollows /\ TimedOpens /\ TimedCloses

(* Every write of the automatic control is a whole frame: what is cut at a *)
(* zero byte has no CRC.                                                   *)
WholeFrames ==
  [][(apc = "write" /\ apc' = "device") => Whole(FrameFor(anext, abuf.cmd))]_vars

(* Times of day as in the example of Create_Pkgs can be read. *)
TimesReadable == Alive
=============================================================================
