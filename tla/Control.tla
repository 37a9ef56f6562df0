------------------------------ MODULE Control ------------------------------
(***************************************************************************)
(* The control of the build at the root of the repository: auto_control_dev*)
(* in the main loop and control_dev_by_time in the Zigbee thread.  Unlike  *)
(* the build of all_start0628 (ControlStart), the automatic control sends  *)
(* a command in every round, with a buffer it clears once per round, and   *)
(* the timed control closes by a tree it may not have read.                *)
(***************************************************************************)
EXTENDS Greenhouse

VARIABLES
  apc, anext, abuf,     \* main loop: place, next device, command and basis
  tpc, tnext, tinside,  \* Zigbee thread: place, next device, window open
  ttree,   \* json_trans1: what it points to
  tread,   \* it was assigned in this call
  tempty   \* flag_three_times

autoVars == <<apc, anext, abuf>>
timedVars == <<tpc, tnext, tinside, ttree, tread, tempty>>
vars == <<greenhouseVars, autoVars, timedVars>>

Zeroed == [cmd |-> "zero", basis |-> NoData]

(* json_trans1 before it was ever assigned, and as a null pointer. *)
Unset == [d \in Devices |-> "unset"]
Null == [d \in Devices |-> "null"]

-----------------------------------------------------------------------------
(* Get_Collecter_glsen_data: 0 when the collector has no such data, -1     *)
(* when sharemem.json cannot be parsed just now, in the middle of a save.   *)
Glsen(torn) == IF torn THEN -1 ELSE IF seen = NoData THEN 0 ELSE seen

CommandOf(rule, hgq) ==
  IF rule = "open" THEN (IF hgq = 1 THEN "connect" ELSE "start")
                   ELSE (IF hgq = 1 THEN "disconnect" ELSE "close")

(* re1 above the upper threshold, re2 below the lower one. *)
Rule(dev, glsen) ==
  IF glsen > setting.max THEN dev.re1
  ELSE IF glsen < setting.min THEN dev.re2 ELSE "none"

(* Mutant of AutoStart: the buffer is static. *)
AutoStartKeeping(torn) ==
  /\ apc = "idle"
  /\ IF torn THEN UNCHANGED <<apc, anext>> ELSE apc' = "device" /\ anext' = 1
  /\ UNCHANGED <<greenhouseVars, timedVars, abuf>>

(* The main loop calls auto_control_dev every three seconds.  Nothing is   *)
(* done when configinfo.json cannot be parsed, in the middle of a save.    *)
AutoStart(torn) ==
  /\ apc = "idle"
  /\ IF torn THEN UNCHANGED <<apc, anext>> ELSE apc' = "device" /\ anext' = 1
  /\ abuf' = Zeroed
  /\ UNCHANGED <<greenhouseVars, timedVars>>

AutoEnd ==
  /\ apc = "device" /\ anext \notin Devices
  /\ apc' = "idle"
  /\ UNCHANGED <<greenhouseVars, timedVars, anext, abuf>>

AutoSkip ==
  /\ apc = "device" /\ anext \in Devices
  /\ setting.dev[anext].acon # 1 \/ ~setting.linked
  /\ anext' = anext + 1
  /\ UNCHANGED <<greenhouseVars, timedVars, apc, abuf>>

(* Mutant of AutoDevice: only devices with one relay get a command. *)
AutoDeviceValves(torn) ==
  /\ apc = "device" /\ anext \in Devices
  /\ setting.dev[anext].acon = 1 /\ setting.linked
  /\ LET dev == setting.dev[anext]
         rule == Rule(dev, Glsen(torn))
     IN  abuf' = IF rule = "none" \/ dev.hgq # 1 THEN abuf
                 ELSE [cmd |-> CommandOf(rule, dev.hgq), basis |-> Glsen(torn)]
  /\ apc' = "write"
  /\ UNCHANGED <<greenhouseVars, timedVars, anext>>

(* Without a rule that applies, the command byte stays what it was. *)
AutoDevice(torn) ==
  /\ apc = "device" /\ anext \in Devices
  /\ setting.dev[anext].acon = 1 /\ setting.linked
  /\ LET dev == setting.dev[anext]
         rule == Rule(dev, Glsen(torn))
     IN  abuf' = IF rule = "none" \/ dev.hgq < 1 THEN abuf
                 ELSE [cmd |-> CommandOf(rule, dev.hgq), basis |-> Glsen(torn)]
  /\ apc' = "write"
  /\ UNCHANGED <<greenhouseVars, timedVars, anext>>

FrameFor(d, code) ==
  [box |-> setting.dev[d].box, devid |-> setting.dev[d].devid, cmd |-> code]

(* write(fd, buf_cmd, strlen(buf_cmd)): a frame that is cut moves nothing, *)
(* whether the line loses what was written or not.                         *)
AutoWrite(arrives) ==
  LET f == FrameFor(anext, abuf.cmd)
  IN  /\ apc = "write"
      /\ on' = IF arrives /\ Whole(f) THEN Arrived(f) ELSE on
      /\ anext' = anext + 1 /\ apc' = "device"
      /\ UNCHANGED <<setting, level, clock, seen, shown, timedVars, abuf>>

-----------------------------------------------------------------------------
(* control_dev_by_time, once per turn of the Zigbee thread.                *)

Alive == tpc # "dead"

TimedStart(torn) ==
  /\ tpc = "idle"
  /\ IF torn THEN UNCHANGED <<tpc, tnext>> ELSE tpc' = "device" /\ tnext' = 1
  /\ tread' = FALSE /\ tempty' = 0
  /\ UNCHANGED <<greenhouseVars, autoVars, tinside, ttree>>

TimedEnd ==
  /\ tpc = "device" /\ tnext \notin Devices
  /\ tpc' = "idle"
  /\ UNCHANGED <<greenhouseVars, autoVars, tnext, tinside, ttree, tread, tempty>>

TimedSkip ==
  /\ tpc = "device" /\ tnext \in Devices /\ setting.dev[tnext].acon # 2
  /\ tnext' = tnext + 1
  /\ UNCHANGED <<greenhouseVars, autoVars, tpc, tinside, ttree, tread, tempty>>

(* The six times are parsed, then the clock is read.  Inside of a window   *)
(* sharemem.json is read; outside of it json_trans1 is used as it is.      *)
TimedLook(torn) ==
  /\ tpc = "device" /\ tnext \in Devices /\ setting.dev[tnext].acon = 2
  /\ LET dev == setting.dev[tnext] IN
     IF \A i \in DOMAIN dev.windows :
          Readable(dev.windows[i][1]) /\ Readable(dev.windows[i][2])
     THEN /\ tinside' = InWindow(dev, clock)
          /\ tpc' = "act"
          /\ IF tinside'
             THEN tread' = TRUE /\ ttree' = (IF torn THEN Null ELSE shown)
             ELSE UNCHANGED <<tread, ttree>>
     ELSE tpc' = "dead" /\ UNCHANGED <<tinside, ttree, tread>>
  /\ UNCHANGED <<greenhouseVars, autoVars, tnext, tempty>>

(* A null pointer kills the process.  A variable that was not assigned in  *)
(* this call may hold anything: what an earlier call left there is one     *)
(* possibility, a pointer that kills is another.                           *)
TimedDie ==
  /\ tpc = "act" /\ ~tinside
  /\ ttree = Null \/ ~tread
  /\ tpc' = "dead"
  /\ UNCHANGED <<greenhouseVars, autoVars, tnext, tinside, ttree, tread, tempty>>

(* What the tree shows of the device. *)
Bit == ttree[tnext]

(* The command to send, if any.  Of the devices with two end switches none *)
(* is ever closed, and no bit of buf_control_dev_by_time is ever set.  The *)
(* codes are not those of CommandOf: a device with one relay is sent those *)
(* of a motor, one with four switches that of a valve.                     *)
TimedCode(hgq) ==
  IF tinside /\ hgq = 1 /\ Bit = "off" THEN "start"
  ELSE IF tinside /\ hgq = 4 /\ Bit \in {"on", "off"} THEN "connect"
  ELSE IF ~tinside /\ hgq = 1 /\ Bit = "off" THEN "close" ELSE "zero"

TimedRest ==
  /\ tpc = "act" /\ TimedCode(setting.dev[tnext].hgq) = "zero"
  /\ tinside \/ ttree # Null
  /\ tnext' = tnext + 1 /\ tpc' = "device"
  /\ UNCHANGED <<greenhouseVars, autoVars, tinside, ttree, tread, tempty>>

(* write(fd, buf_all_data, 10); a closing command always goes to box 1.    *)
TimedWrite(arrives) ==
  LET dev == setting.dev[tnext]
      code == TimedCode(dev.hgq)
      f == [box |-> IF code = "close" THEN 1 ELSE dev.box,
            devid |-> dev.devid, cmd |-> code]
  IN  /\ tpc = "act" /\ code # "zero"
      /\ on' = IF arrives THEN Arrived(f) ELSE on
      /\ IF code = "connect"
         THEN tpc' = "listen" /\ UNCHANGED tnext
         ELSE tpc' = "device" /\ tnext' = tnext + 1
      /\ UNCHANGED <<setting, level, clock, seen, shown, autoVars, tinside,
                     ttree, tread, tempty>>

(* Mutant of TimedListen: the empty reads are not limited. *)
TimedListenLonger ==
  /\ tpc = "listen"
  /\ tempty' = tempty + 1
  /\ UNCHANGED <<greenhouseVars, autoVars, tpc, tnext, tinside, ttree, tread>>

(* The read loop behind it ends with the fourth empty read; what it reads  *)
(* is thrown away.  After five seconds without that, the command is sent   *)
(* again.                                                                  *)
TimedListen ==
  /\ tpc = "listen"
  /\ \/ /\ tempty < 3 /\ tempty' = tempty + 1
        /\ tpc' \in {"listen", "act"} /\ UNCHANGED tnext
     \/ /\ tempty = 3 /\ tempty' = 0
        /\ tpc' = "device" /\ tnext' = tnext + 1
  /\ UNCHANGED <<greenhouseVars, autoVars, tinside, ttree, tread>>

-----------------------------------------------------------------------------
Automatic == \/ AutoEnd \/ AutoSkip
             \/ \E b \in BOOLEAN : AutoStart(b) \/ AutoDevice(b) \/ AutoWrite(b)
Timed == \/ TimedEnd \/ TimedSkip \/ TimedDie \/ TimedRest \/ TimedListen
         \/ \E b \in BOOLEAN : TimedStart(b) \/ TimedLook(b) \/ TimedWrite(b)

Init ==
  /\ GreenhouseInit
  /\ apc = "idle" /\ anext = 1 /\ abuf = Zeroed
  /\ tpc = "idle" /\ tnext = 1 /\ tinside = FALSE
  /\ ttree = Unset /\ tread = FALSE /\ tempty = 0

Around(A) == A /\ UNCHANGED <<autoVars, timedVars>>

Next ==
  \/ Around(Surroundings)
  \/ (Alive /\ Automatic) \/ Timed

(* As in ControlStart: the loops are endless, the devices are polled, no   *)
(* file is in the middle of a save each time it is read (a round without a *)
(* configuration is a step that changes nothing), and the line does not    *)
(* lose a frame each time it is written.  What is cut stays cut.           *)
Fairness ==
  /\ WF_vars(Alive /\ Automatic) /\ WF_vars(Timed)
  /\ WF_vars(Around(PollCollector)) /\ WF_vars(Around(PollTransformer))
  /\ \A d \in 1..N :
       /\ SF_vars(Alive /\ anext = d /\ AutoDevice(FALSE))
       /\ SF_vars(tnext = d /\ TimedLook(FALSE))
       /\ \A codes \in {Opening, Shutting} :
            SF_vars(Alive /\ anext = d /\ abuf.cmd \in codes /\ AutoWrite(TRUE))
       /\ SF_vars(tnext = d /\ TimedWrite(TRUE))

Spec == Init /\ [][Next]_vars /\ Fairness

-----------------------------------------------------------------------------
(* Properties. *)

TypeOK ==
  /\ GreenhouseTypeOK
  /\ apc \in {"idle", "device", "write"} /\ anext \in 1..(N + 1)
  /\ abuf \in [cmd : Code, basis : Levels \union {NoData, 0}]
  /\ apc = "write" => anext \in Devices
  /\ tpc \in {"idle", "device", "act", "listen", "dead"} /\ tnext \in 1..(N + 1)
  /\ tpc \in {"act", "listen"} => tnext \in Devices
  /\ tinside \in BOOLEAN /\ tread \in BOOLEAN /\ tempty \in 0..3
  /\ ttree \in Status \union {Unset, Null}

AutoCommand == apc = "write" /\ apc' = "device" /\ abuf.cmd # "zero"
RuleOf(e) == /\ setting.dev[e].acon = 1
             /\ Rule(setting.dev[e], abuf.basis)
                  = (IF abuf.cmd \in Opening THEN "open" ELSE "close")

(* A command is that of a rule of the same round, of the device it goes to *)
(* or of one before it.  In front of the first automatic device nothing is *)
(* left of an earlier round: what it is sent was measured just now         *)
(* (auto_control_dev).                                                     *)
FirstAutomatic ==
  apc = "device" /\ apc' = "write" /\ \A e \in 1..(anext - 1) : setting.dev[e].acon # 1
FromThisRound ==
  [][/\ AutoCommand => \E e \in 1..anext : RuleOf(e)
     /\ (FirstAutomatic /\ abuf'.cmd # "zero")
          => \E torn \in BOOLEAN : abuf'.basis = Glsen(torn)]_vars

(* A device above the maximum gets what its own re1 says, one below the    *)
(* minimum what its own re2 says, any other no command                     *)
(* (GREATER_THAN_MAX_OPEN and its like).                                   *)
OwnRule == [][AutoCommand => RuleOf(anext)]_vars

(* No command without a measurement. *)
Measured == [][AutoCommand => seen # NoData]_vars

(* Every write of the automatic control is a whole frame (CMD_HEAD0 to the *)
(* closing 0xbf).                                                          *)
WholeFrames ==
  [][(apc = "write" /\ apc' = "device") => Whole(FrameFor(anext, abuf.cmd))]_vars

AutoOn(d) ==
  /\ d \in Devices /\ setting.linked /\ setting.dev[d].acon = 1 /\ setting.dev[d].hgq > 0

(* The command of the rule is one that strlen leaves whole. *)
Sendable(d, rule) == Whole(FrameFor(d, CommandOf(rule, setting.dev[d].hgq)))

(* The measurement asks for one end of an automatic device. *)
Asks(d, rule) == AutoOn(d) /\ Rule(setting.dev[d], level) = rule
End(there) == IF there THEN "open" ELSE "close"
(* While the measurement asks for one end, an automatic device gets there  *)
(* although frames are lost, files are read in the middle of a save and    *)
(* somebody may use the switch; unless its command is always cut.          *)
AutoFollows ==
  \A d \in 1..N, there \in BOOLEAN :
    LET asks == Alive /\ Asks(d, End(there)) /\ Sendable(d, End(there))
    IN  (asks /\ on[d] # there) ~> (~asks \/ on[d] = there)

(* The same of every automatic device.                                     *)
AllFollow ==
  \A d \in 1..N, there \in BOOLEAN :
    LET asks == Alive /\ Asks(d, End(there))
    IN  (asks /\ on[d] # there) ~> (~asks \/ on[d] = there)

TimedOn(d) ==
  /\ d \in Devices
  /\ setting.dev[d].acon = 2 /\ setting.dev[d].hgq \in {1, 4}
Inside(d) == TimedOn(d) /\ InWindow(setting.dev[d], clock)
Outside(d) == TimedOn(d) /\ ~InWindow(setting.dev[d], clock)

(* As long as the process lives, a timed device is sent an opening command *)
(* while it is off in its window: no wait for an answer keeps the thread.  *)
Trying(d) ==
  tpc = "act" /\ tnext = d /\ TimedCode(setting.dev[d].hgq) \in Opening
TimedTries ==
  \A d \in 1..N :
    (Inside(d) /\ ~on[d]) ~> (~Alive \/ ~Inside(d) \/ on[d] \/ Trying(d))

(* The automatic devices follow their rules, the timed ones are told to    *)
(* follow their windows.                                                   *)
DevicesFollow == AutoFollows /\ TimedTries

(* As long as the process lives, a timed device is on at some time in its  *)
(* window, unless the window ends first ("nowtime should open dev").       *)
TimedOpens ==
  \A d \in 1..N :
    (Inside(d) /\ ~on[d]) ~> (~Alive \/ ~Inside(d) \/ on[d])

(* As long as the process lives, a timed device is off at some time        *)
(* outside of its windows ("nowtime should close dev").                    *)
TimedCloses ==
  \A d \in 1..N :
    (Outside(d) /\ on[d]) ~> (~Alive \/ ~Outside(d) \/ ~on[d])
=============================================================================
