---------------------------- MODULE ControlProofs ----------------------------
(***************************************************************************)
(* Proofs about Control, the control of the build at the root of the       *)
(* repository, for any number of devices, every configuration, measurement *)
(* and time of day.                                                        *)
(***************************************************************************)
EXTENDS Control, TLAPS

-----------------------------------------------------------------------------
(* The greenhouse. *)

LEMMA SettingFacts ==
  ASSUME NEW s \in Settings
  PROVE  /\ s \in Setting /\ N \in Nat /\ Len(s.dev) \in 1..N
         /\ DOMAIN s.dev = 1..Len(s.dev) /\ DOMAIN s.dev \subseteq 1..N
         /\ \A d \in DOMAIN s.dev : s.dev[d] \in Device
<1>1. s \in Setting /\ Len(s.dev) \in 1..N /\ N \in Nat BY GreenhouseAssumption
<1>2. s.dev \in Seq(Device) BY <1>1 DEF Setting
<1> QED BY <1>1, <1>2

(* The next place of a walk over the devices. *)
LEMMA NextPlace ==
  ASSUME GreenhouseTypeOK, NEW d \in Devices
  PROVE  d \in 1..(N + 1) /\ d + 1 \in 1..(N + 1)
<1>1. Devices \subseteq 1..N /\ N \in Nat
  BY SettingFacts DEF GreenhouseTypeOK, Devices
<1> QED BY <1>1

LEMMA GreenhouseInitType == GreenhouseInit => GreenhouseTypeOK
  BY DEF GreenhouseInit, GreenhouseTypeOK, Status

LEMMA SurroundingsType ==
  ASSUME GreenhouseTypeOK, Surroundings
  PROVE  GreenhouseTypeOK' /\ UNCHANGED setting
<1> USE DEF GreenhouseTypeOK
<1>1. CASE Measure BY <1>1 DEF Measure, Status, Devices
<1>2. CASE Tick BY <1>2 DEF Tick, Status, Devices
<1>3. ASSUME NEW d \in Devices, Manual(d) PROVE GreenhouseTypeOK' /\ UNCHANGED setting
  BY <1>3 DEF Manual, Status, Devices
<1>4. CASE PollCollector BY <1>4 DEF PollCollector, Status, Devices
<1>5. CASE PollTransformer BY <1>5 DEF PollTransformer, Status, Devices
<1> QED BY <1>1, <1>2, <1>3, <1>4, <1>5 DEF Surroundings

(* A frame that arrives or is lost leaves a state of every switch. *)
LEMMA ArrivedType ==
  ASSUME GreenhouseTypeOK, NEW f, on' \in {Arrived(f), on},
         UNCHANGED <<setting, level, clock, seen, shown>>
  PROVE  GreenhouseTypeOK'
<1>1. on \in [Devices -> BOOLEAN] BY DEF GreenhouseTypeOK
<1>2. (f.cmd \in Opening) \in BOOLEAN OBVIOUS
<1>3. Arrived(f) \in [Devices -> BOOLEAN]
  BY <1>1, <1>2, Zenon DEF Arrived
<1> QED BY <1>1, <1>3 DEF GreenhouseTypeOK, Devices, Status

(* An end that is asked for has a command, and only that end. *)
LEMMA CommandFacts ==
  ASSUME NEW rule \in {"open", "close"}, NEW hgq
  PROVE  /\ CommandOf(rule, hgq) \in Code \ {"zero"}
         /\ (IF CommandOf(rule, hgq) \in Opening THEN "open" ELSE "close") = rule
  BY DEF CommandOf, Code, Opening, Shutting

-----------------------------------------------------------------------------
(* Types of Control. *)

LEMMA GlsenType ==
  ASSUME TypeOK, NEW torn \in BOOLEAN
  PROVE  Glsen(torn) \in Levels \union {NoData, 0}
  BY DEF Glsen, TypeOK, GreenhouseTypeOK, NoData

LEMMA RuleType ==
  ASSUME TypeOK, NEW d \in Devices, NEW glsen
  PROVE  Rule(setting.dev[d], glsen) \in {"open", "close", "none"}
<1>1. setting.dev[d] \in Device
  BY SettingFacts DEF TypeOK, GreenhouseTypeOK, Devices
<1> QED BY <1>1 DEF Rule, Device

(* What auto_control_dev changes. *)
LEMMA AutoType ==
  ASSUME TypeOK, Automatic
  PROVE  TypeOK'
<1> USE DEF TypeOK, greenhouseVars, autoVars, timedVars
<1>0. UNCHANGED <<setting, level, clock, seen, shown, timedVars>>
  BY DEF Automatic, AutoStart, AutoEnd, AutoSkip, AutoDevice, AutoWrite
<1>1. ASSUME NEW b \in BOOLEAN, AutoStart(b) PROVE TypeOK'
  <2>1. 1 \in 1..(N + 1) BY GreenhouseAssumption
  <2>2. Zeroed \in [cmd : Code, basis : Levels \union {NoData, 0}]
    BY DEF Zeroed, Code
  <2> QED BY <1>0, <1>1, <2>1, <2>2
           DEF AutoStart, GreenhouseTypeOK, Devices, Status, Unset, Null
<1>2. CASE AutoEnd
  BY <1>0, <1>2 DEF AutoEnd, GreenhouseTypeOK, Devices, Status, Unset, Null
<1>3. CASE AutoSkip
  <2>1. anext' \in 1..(N + 1) BY <1>3, NextPlace DEF AutoSkip
  <2> QED BY <1>0, <1>3, <2>1
           DEF AutoSkip, GreenhouseTypeOK, Devices, Status, Unset, Null
<1>4. ASSUME NEW b \in BOOLEAN, AutoDevice(b) PROVE TypeOK'
  <2> DEFINE rule == Rule(setting.dev[anext], Glsen(b))
             hgq == setting.dev[anext].hgq
  <2>1. rule \in {"open", "close", "none"} BY <1>4, RuleType DEF AutoDevice
  <2>2. abuf' = IF rule = "none" \/ hgq < 1 THEN abuf
                ELSE [cmd |-> CommandOf(rule, hgq), basis |-> Glsen(b)]
    BY <1>4 DEF AutoDevice
  <2>3. rule # "none" => CommandOf(rule, hgq) \in Code BY <2>1, CommandFacts
  <2>4. Glsen(b) \in Levels \union {NoData, 0} BY GlsenType
  <2> HIDE DEF rule, hgq
  <2>5. abuf' \in [cmd : Code, basis : Levels \union {NoData, 0}]
    BY <2>2, <2>3, <2>4
  <2> QED BY <1>0, <1>4, <2>5
           DEF AutoDevice, GreenhouseTypeOK, Devices, Status, Unset, Null
<1>5. ASSUME NEW b \in BOOLEAN, AutoWrite(b) PROVE TypeOK'
  <2>1. anext' \in 1..(N + 1) BY <1>5, NextPlace DEF AutoWrite
  <2>a. \E f : on' \in {Arrived(f), on} BY <1>5 DEF AutoWrite
  <2>2. GreenhouseTypeOK' BY <1>0, <2>a, ArrivedType
  <2> QED BY <1>0, <1>5, <2>1, <2>2
           DEF AutoWrite, Devices, Status, Unset, Null
<1> QED BY <1>1, <1>2, <1>3, <1>4, <1>5 DEF Automatic

(* What control_dev_by_time changes. *)
LEMMA TimedType ==
  ASSUME TypeOK, Timed
  PROVE  TypeOK'
<1> USE DEF TypeOK, greenhouseVars, autoVars, timedVars
<1>0. UNCHANGED <<setting, level, clock, seen, shown, autoVars>>
  BY DEF Timed, TimedStart, TimedEnd, TimedSkip, TimedDie, TimedRest, TimedListen,
         TimedLook, TimedWrite
<1> USE DEF GreenhouseTypeOK, Devices, Status, Unset, Null
<1>1. ASSUME NEW b \in BOOLEAN, TimedStart(b) PROVE TypeOK'
  <2>1. 1 \in 1..(N + 1) BY GreenhouseAssumption
  <2>2. tread' \in BOOLEAN BY <1>1 DEF TimedStart
  <2>3. tempty' \in 0..3 BY <1>1 DEF TimedStart
  <2> QED BY <1>0, <1>1, <2>1, <2>2, <2>3 DEF TimedStart
<1>2. CASE TimedEnd \/ TimedDie
  BY <1>0, <1>2 DEF TimedEnd, TimedDie
<1>3. CASE TimedSkip \/ TimedRest
  <2>1. tnext \in Devices BY <1>3 DEF TimedSkip, TimedRest
  <2>2. tnext' \in 1..(N + 1) BY <1>3, <2>1, NextPlace DEF TimedSkip, TimedRest
  <2> QED BY <1>0, <1>3, <2>2 DEF TimedSkip, TimedRest
<1>4. CASE TimedListen
  <2>1. tnext' \in 1..(N + 1) BY <1>4, NextPlace DEF TimedListen
  <2>2. tempty' \in 0..3 BY <1>4 DEF TimedListen
  <2> QED BY <1>0, <1>4, <2>1, <2>2 DEF TimedListen
<1>5. ASSUME NEW b \in BOOLEAN, TimedLook(b) PROVE TypeOK'
  <2>1. tinside' \in BOOLEAN /\ tread' \in BOOLEAN
    BY <1>5 DEF TimedLook, InWindow
  <2>2. ttree' \in Status \union {Unset, Null} BY <1>5 DEF TimedLook
  <2>3. tpc' \in {"act", "dead"} /\ tnext \in Devices BY <1>5 DEF TimedLook
  <2> QED BY <1>0, <1>5, <2>1, <2>2, <2>3 DEF TimedLook
<1>6. ASSUME NEW b \in BOOLEAN, TimedWrite(b) PROVE TypeOK'
  <2>1. tnext' \in 1..(N + 1) BY <1>6, NextPlace DEF TimedWrite
  <2>a. \E f : on' \in {Arrived(f), on} BY <1>6 DEF TimedWrite
  <2>2. GreenhouseTypeOK' BY <1>0, <2>a, ArrivedType
  <2>3. tpc' \in {"listen", "device"} /\ (tpc' = "listen" => tnext' = tnext)
    BY <1>6 DEF TimedWrite
  <2> QED BY <1>0, <1>6, <2>1, <2>2, <2>3 DEF TimedWrite
<1> QED BY <1>1, <1>2, <1>3, <1>4, <1>5, <1>6 DEF Timed

LEMMA ControlTypeInit == Init => TypeOK
<1> SUFFICES ASSUME Init PROVE TypeOK OBVIOUS
<1>1. GreenhouseTypeOK BY GreenhouseInitType DEF Init
<1>2. 1 \in 1..(N + 1) BY GreenhouseAssumption
<1>3. Zeroed \in [cmd : Code, basis : Levels \union {NoData, 0}] BY DEF Zeroed, Code
<1>4. tinside \in BOOLEAN /\ tread \in BOOLEAN BY DEF Init
<1>5. tempty \in 0..3 BY DEF Init
<1> QED BY <1>1, <1>2, <1>3, <1>4, <1>5 DEF Init, TypeOK

LEMMA ControlTypeStep == TypeOK /\ [Next]_vars => TypeOK'
<1> SUFFICES ASSUME TypeOK, [Next]_vars PROVE TypeOK' OBVIOUS
<1>1. CASE Around(Surroundings)
  <2>1. GreenhouseTypeOK' /\ UNCHANGED <<setting, autoVars, timedVars>>
    BY <1>1, SurroundingsType DEF Around, TypeOK
  <2> QED BY <2>1 DEF TypeOK, autoVars, timedVars, Devices, Status, Unset, Null
<1>2. CASE Automatic BY <1>2, AutoType
<1>3. CASE Timed BY <1>3, TimedType
<1>4. CASE UNCHANGED vars
  BY <1>4 DEF vars, greenhouseVars, autoVars, timedVars, TypeOK, GreenhouseTypeOK,
              Devices, Status, Unset, Null
<1> QED BY <1>1, <1>2, <1>3, <1>4 DEF Next

(* Whatever is polled, lost or switched by hand meanwhile, both loops stay *)
(* within the configured devices and hold commands there are               *)
(* (auto_control_dev, control_dev_by_time).                                *)
THEOREM ControlTypeCorrect == Spec => []TypeOK
<1>1. Init => TypeOK BY ControlTypeInit
<1>2. TypeOK /\ [Next]_vars => TypeOK' BY ControlTypeStep
<1> QED BY <1>1, <1>2, PTL DEF Spec

-----------------------------------------------------------------------------
(* The command buffer of auto_control_dev.  Between two writes nothing     *)
(* tells whose command it holds; the invariant remembers the device, which *)
(* lies before the place of the loop, or at it once it has been looked at. *)

Passed == IF apc = "write" THEN anext ELSE anext - 1
OfThisRound ==
  apc # "idle" /\ abuf.cmd # "zero" =>
    \E e \in Devices : e <= Passed /\ RuleOf(e)

RoundInv == TypeOK /\ OfThisRound

LEMMA RoundStep == RoundInv /\ [Next]_vars => RoundInv'
<1> SUFFICES ASSUME RoundInv, [Next]_vars PROVE RoundInv' OBVIOUS
<1>1. TypeOK /\ TypeOK' BY ControlTypeStep DEF RoundInv
<1>2. SUFFICES OfThisRound' BY <1>1 DEF RoundInv
<1>3. setting' = setting
  BY SurroundingsType, <1>1
  DEF Next, Around, Automatic, Timed, AutoStart, AutoEnd, AutoSkip, AutoDevice,
      AutoWrite, TimedStart, TimedEnd, TimedSkip, TimedDie, TimedRest, TimedListen,
      TimedLook, TimedWrite, vars, greenhouseVars, TypeOK
<1>4. Devices \subseteq Nat /\ anext \in Nat
  BY <1>1, SettingFacts DEF TypeOK, GreenhouseTypeOK, Devices
<1> USE DEF OfThisRound, Passed, RuleOf, Rule, Devices
<1>5. CASE UNCHANGED autoVars BY <1>3, <1>5 DEF autoVars, RoundInv
<1>6. ASSUME NEW b \in BOOLEAN, AutoStart(b) PROVE OfThisRound'
  <2>1. abuf'.cmd = "zero" BY <1>6 DEF AutoStart, Zeroed
  <2> QED BY <2>1
<1>7. CASE AutoEnd BY <1>7 DEF AutoEnd
<1>8. CASE AutoSkip \/ (\E b \in BOOLEAN : AutoWrite(b))
  <2>1. /\ abuf' = abuf /\ apc \in {"device", "write"} /\ apc' = "device"
        /\ anext' = anext + 1
    BY <1>8 DEF AutoSkip, AutoWrite
  <2> QED BY <1>3, <1>4, <2>1 DEF RoundInv
<1>9. ASSUME NEW b \in BOOLEAN, AutoDevice(b) PROVE OfThisRound'
  <2> DEFINE rule == Rule(setting.dev[anext], Glsen(b))
             hgq == setting.dev[anext].hgq
  <2>1. /\ apc = "device" /\ apc' = "write" /\ anext' = anext
        /\ anext \in Devices /\ setting.dev[anext].acon = 1
        /\ abuf' = IF rule = "none" \/ hgq < 1 THEN abuf
                   ELSE [cmd |-> CommandOf(rule, hgq), basis |-> Glsen(b)]
    BY <1>9 DEF AutoDevice, autoVars, greenhouseVars
  <2>2. CASE abuf' = abuf BY <1>3, <1>4, <2>1, <2>2 DEF RoundInv
  <2>3. CASE ~(rule = "none" \/ hgq < 1)
    <3>1. rule \in {"open", "close"} BY <1>1, <2>1, <2>3, RuleType
    <3>2. rule = IF abuf'.cmd \in Opening THEN "open" ELSE "close"
      BY <2>1, <2>3, <3>1, CommandFacts
    <3>3. abuf'.basis = Glsen(b) BY <2>1, <2>3
    <3>4. Rule(setting.dev[anext], abuf'.basis)
            = IF abuf'.cmd \in Opening THEN "open" ELSE "close"
      BY <3>2, <3>3
    <3> QED BY <1>3, <1>4, <2>1, <3>4
  <2> QED BY <2>1, <2>2, <2>3
<1> QED
  BY <1>5, <1>6, <1>7, <1>8, <1>9
  DEF Next, Around, Automatic, Timed, TimedStart, TimedEnd, TimedSkip, TimedDie,
      TimedRest, TimedListen, TimedLook, TimedWrite, vars, autoVars

(* For any number of devices: what auto_control_dev sends was asked for by *)
(* a rule of the device or of one before it, on what was read in the same  *)
(* round, and what it sends first was read for that very device.           *)
THEOREM CommandsOfTheRound == Spec => FromThisRound
<1> DEFINE P == /\ AutoCommand => \E e \in 1..anext : RuleOf(e)
                /\ (FirstAutomatic /\ abuf'.cmd # "zero")
                     => \E torn \in BOOLEAN : abuf'.basis = Glsen(torn)
<1>1. Init => RoundInv BY ControlTypeInit DEF Init, RoundInv, OfThisRound
<1>2. RoundInv /\ [Next]_vars => RoundInv' BY RoundStep
<1>3. ASSUME RoundInv, [Next]_vars PROVE [P]_vars
  <2>0. Devices = DOMAIN setting.dev /\ DOMAIN setting.dev = 1..Len(setting.dev)
        /\ anext \in Nat
    BY <1>3, SettingFacts DEF RoundInv, TypeOK, GreenhouseTypeOK, Devices
  <2>1. AutoCommand => \E e \in 1..anext : RuleOf(e)
    BY <1>3, <2>0 DEF AutoCommand, RoundInv, OfThisRound, Passed
  <2>2. ASSUME FirstAutomatic, abuf'.cmd # "zero"
        PROVE  \E torn \in BOOLEAN : abuf'.basis = Glsen(torn)
    <3>1. abuf.cmd = "zero"
      BY <1>3, <2>0, <2>2 DEF FirstAutomatic, RoundInv, OfThisRound, Passed, RuleOf
    <3>2. PICK b \in BOOLEAN : AutoDevice(b)
      BY <1>3, <2>2
      DEF FirstAutomatic, Next, Around, Automatic, Timed, AutoStart, AutoEnd,
          AutoSkip, AutoWrite, TimedStart, TimedEnd, TimedSkip, TimedDie, TimedRest,
          TimedListen, TimedLook, TimedWrite, vars, autoVars
    <3>3. abuf' = abuf \/ abuf'.basis = Glsen(b) BY <3>2 DEF AutoDevice
    <3> QED BY <2>2, <3>1, <3>3
  <2> QED BY <2>1, <2>2
<1>4. Spec => [][P]_vars BY <1>1, <1>2, <1>3, PTL DEF Spec
<1> QED BY <1>4 DEF FromThisRound
=============================================================================
