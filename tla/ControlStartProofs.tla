------------------------- MODULE ControlStartProofs -------------------------
(***************************************************************************)
(* Proofs about ControlStart, the control of the build in all_start0628,   *)
(* for any number of devices and power cycles, every configuration,        *)
(* measurement and time of day.  The lemmas on the greenhouse are those of *)
(* ControlProofs: the two components declare their own variables beside    *)
(* it, so that no module can extend both.                                  *)
(***************************************************************************)
EXTENDS ControlStart, TLAPS

-----------------------------------------------------------------------------
(* The greenhouse. *)

LEMMA SettingFacts ==
  ASSUME NEW s \in Settings
  PROVE  /\ s \in Setting /\ N \in Nat /\ Len(s.dev) \in 1..N
         /\ DOMAIN s.dev = 1..Len(s.dev) /\ DOMAIN s.dev \subseteq 1..N
         /\ \A d \in DOMAIN s.dev : s.dev[d] \in Device
<1>1. s \in Setting /\ Len(s.dev) \in 1..N /\ N \in Nat BY GreenhouseAssumption
<1>2. s.dev \in Seq(Device) BY <1>1 DEF Setting
<1> QED BY <1>1, <1>2

(* The next place of a walk over the devices. *)
LEMMA NextPlace ==
  ASSUME GreenhouseTypeOK, NEW d \in Devices
  PROVE  d \in 1..(N + 1) /\ d + 1 \in 1..(N + 1)
<1>1. Devices \subseteq 1..N /\ N \in Nat
  BY SettingFacts DEF GreenhouseTypeOK, Devices
<1> QED BY <1>1

LEMMA GreenhouseInitType == GreenhouseInit => GreenhouseTypeOK
  BY DEF GreenhouseInit, GreenhouseTypeOK, Status

LEMMA SurroundingsType ==
  ASSUME GreenhouseTypeOK, Surroundings
  PROVE  GreenhouseTypeOK' /\ UNCHANGED setting
<1> USE DEF GreenhouseTypeOK
<1>1. CASE Measure BY <1>1 DEF Measure, Status, Devices
<1>2. CASE Tick BY <1>2 DEF Tick, Status, Devices
<1>3. ASSUME NEW d \in Devices, Manual(d) PROVE GreenhouseTypeOK' /\ UNCHANGED setting
  BY <1>3 DEF Manual, Status, Devices
<1>4. CASE PollCollector BY <1>4 DEF PollCollector, Status, Devices
<1>5. CASE PollTransformer BY <1>5 DEF PollTransformer, Status, Devices
<1> QED BY <1>1, <1>2, <1>3, <1>4, <1>5 DEF Surroundings

(* A frame that arrives or is lost leaves a state of every switch. *)
LEMMA ArrivedType ==
  ASSUME GreenhouseTypeOK, NEW f, on' \in {Arrived(f), on},
         UNCHANGED <<setting, level, clock, seen, shown>>
  PROVE  GreenhouseTypeOK'
<1>1. on \in [Devices -> BOOLEAN] BY DEF GreenhouseTypeOK
<1>2. (f.cmd \in Opening) \in BOOLEAN OBVIOUS
<1>3. Arrived(f) \in [Devices -> BOOLEAN]
  BY <1>1, <1>2, Zenon DEF Arrived
<1> QED BY <1>1, <1>3 DEF GreenhouseTypeOK, Devices, Status

(* An end that is asked for has a command, and only that end. *)
LEMMA CommandFacts ==
  ASSUME NEW rule \in {"open", "close"}, NEW hgq
  PROVE  /\ CommandOf(rule, hgq) \in Code \ {"zero"}
         /\ (IF CommandOf(rule, hgq) \in Opening THEN "open" ELSE "close") = rule
  BY DEF CommandOf, Code, Opening, Shutting

-----------------------------------------------------------------------------
(* Types of ControlStart. *)

LEMMA RuleType ==
  ASSUME TypeOK, NEW d \in Devices, NEW glsen
  PROVE  Rule(setting.dev[d], glsen) \in {"open", "close", "none"}
<1>1. setting.dev[d] \in Device
  BY SettingFacts DEF TypeOK, GreenhouseTypeOK, Devices
<1> QED BY <1>1 DEF Rule, Device

(* What the loops change, restarts apart. *)
LEMMA AutoType ==
  ASSUME TypeOK, Automatic, UNCHANGED restarts
  PROVE  TypeOK'
<1> USE DEF TypeOK, greenhouseVars, autoVars, timedVars
<1>0. UNCHANGED <<setting, level, clock, seen, shown, timedVars>>
  BY DEF Automatic, AutoStart, AutoEnd, AutoSkip, AutoMeasure, AutoLook, AutoWrite
<1>1. ASSUME NEW b \in BOOLEAN, AutoStart(b) PROVE TypeOK'
  <2>1. 1 \in 1..(N + 1) BY GreenhouseAssumption
  <2>2. Zeroed \in [cmd : Code, basis : Levels \union {NoData, 0}]
    BY DEF Zeroed, Code
  <2> QED BY <1>0, <1>1, <2>1, <2>2
           DEF AutoStart, GreenhouseTypeOK, Devices, Status
<1>2. CASE AutoEnd
  BY <1>0, <1>2 DEF AutoEnd, GreenhouseTypeOK, Devices, Status
<1>3. CASE AutoSkip
  <2>1. anext' \in 1..(N + 1)
    BY <1>3, NextPlace DEF AutoSkip
  <2> QED BY <1>0, <1>3, <2>1 DEF AutoSkip, GreenhouseTypeOK, Devices, Status
<1>4. ASSUME NEW b \in BOOLEAN, AutoMeasure(b) PROVE TypeOK'
  <2>1. Glsen(b) \in Levels \union {NoData, 0}
    BY DEF Glsen, GreenhouseTypeOK
  <2>2. abuf' \in [cmd : Code, basis : Levels \union {NoData, 0}]
    BY <1>4, <2>1 DEF AutoMeasure, Code
  <2>3. anext' \in 1..(N + 1) BY <1>4, NextPlace DEF AutoMeasure
  <2>4. /\ apc' \in {"device", "look", "write"}
        /\ apc' # "device" => anext' \in Devices
    BY <1>4 DEF AutoMeasure
  <2>5. on' = on BY <1>4 DEF AutoMeasure
  <2> QED BY <1>0, <2>2, <2>3, <2>4, <2>5 DEF GreenhouseTypeOK, Devices, Status
<1>5. ASSUME NEW b \in BOOLEAN, AutoLook(b) PROVE TypeOK'
  <2> DEFINE rule == Rule(setting.dev[anext], abuf.basis)
             code == CommandOf(rule, setting.dev[anext].hgq)
  <2>1. anext \in Devices BY <1>5 DEF AutoLook
  <2>2. code \in Code BY DEF CommandOf, Code, Opening, Shutting
  <2> HIDE DEF code
  <2>3. abuf' = abuf \/ abuf' = [abuf EXCEPT !.cmd = code]
    BY <1>5 DEF AutoLook, code
  <2>4. abuf' \in [cmd : Code, basis : Levels \union {NoData, 0}]
    BY <2>2, <2>3
  <2>5. anext' \in 1..(N + 1) BY <1>5, <2>1, NextPlace DEF AutoLook
  <2>6. /\ apc' \in {"device", "write"}
        /\ apc' = "write" => anext' \in Devices
    BY <1>5, <2>1 DEF AutoLook
  <2>7. on' = on BY <1>5 DEF AutoLook
  <2> QED BY <1>0, <2>4, <2>5, <2>6, <2>7 DEF GreenhouseTypeOK, Devices, Status
<1>6. ASSUME NEW b \in BOOLEAN, AutoWrite(b) PROVE TypeOK'
  <2>1. anext' \in 1..(N + 1)
    BY <1>6, NextPlace DEF AutoWrite
  <2>a. \E f : on' \in {Arrived(f), on} BY <1>6 DEF AutoWrite
  <2>2. GreenhouseTypeOK' BY <1>0, <2>a, ArrivedType
  <2> QED BY <1>0, <1>6, <2>1, <2>2 DEF AutoWrite, Devices, Status
<1> QED BY <1>1, <1>2, <1>3, <1>4, <1>5, <1>6 DEF Automatic

LEMMA TimedType ==
  ASSUME TypeOK, Timed, UNCHANGED restarts
  PROVE  TypeOK'
<1> USE DEF TypeOK, greenhouseVars, autoVars, timedVars
<1>0. UNCHANGED <<setting, level, clock, seen, shown, autoVars>>
  BY DEF Timed, TimedStart, TimedEnd, TimedSkip, TimedRest, TimedLook, TimedWrite
<1> USE DEF GreenhouseTypeOK, Devices, Status
<1>1. ASSUME NEW b \in BOOLEAN, TimedStart(b) PROVE TypeOK'
  <2>1. 1 \in 1..(N + 1) BY GreenhouseAssumption
  <2> QED BY <1>0, <1>1, <2>1 DEF TimedStart
<1>2. CASE TimedEnd BY <1>0, <1>2 DEF TimedEnd
<1>3. CASE TimedSkip \/ TimedRest
  <2>1. tnext \in Devices BY <1>3 DEF TimedSkip, TimedRest
  <2>2. tnext' \in 1..(N + 1)
    BY <1>3, <2>1, NextPlace DEF TimedSkip, TimedRest
  <2> QED BY <1>0, <1>3, <2>2 DEF TimedSkip, TimedRest
<1>4. CASE TimedLook
  <2>1. tinside' \in BOOLEAN BY <1>4 DEF TimedLook, InWindow
  <2>2. /\ tpc' \in {"act", "device", "dead"}
        /\ tpc' = "act" => tnext' \in Devices
    BY <1>4 DEF TimedLook
  <2>3. tnext' \in 1..(N + 1) BY <1>4, NextPlace DEF TimedLook
  <2>4. on' = on /\ apc' = apc /\ anext' = anext BY <1>4 DEF TimedLook
  <2> QED BY <1>0, <2>1, <2>2, <2>3, <2>4
<1>5. ASSUME NEW b \in BOOLEAN, TimedWrite(b) PROVE TypeOK'
  <2>1. tnext' \in 1..(N + 1)
    BY <1>5, NextPlace DEF TimedWrite
  <2>a. \E f : on' \in {Arrived(f), on} BY <1>5 DEF TimedWrite
  <2>2. GreenhouseTypeOK' BY <1>0, <2>a, ArrivedType
  <2> QED BY <1>0, <1>5, <2>1, <2>2 DEF TimedWrite
<1> QED BY <1>1, <1>2, <1>3, <1>4, <1>5 DEF Timed

LEMMA StartTypeInit == Init => TypeOK
<1> SUFFICES ASSUME Init PROVE TypeOK OBVIOUS
<1>1. GreenhouseTypeOK BY GreenhouseInitType DEF Init
<1>2. 1 \in 1..(N + 1) BY GreenhouseAssumption
<1>3. Zeroed \in [cmd : Code, basis : Levels \union {NoData, 0}]
  BY DEF Zeroed, Code
<1>4. tinside \in BOOLEAN BY DEF Init
<1>5. restarts \in 0..MaxRestarts BY RestartsAssumption DEF Init
<1> QED BY <1>1, <1>2, <1>3, <1>4, <1>5 DEF Init, TypeOK

LEMMA StartTypeStep == TypeOK /\ [Next]_vars => TypeOK'
<1> SUFFICES ASSUME TypeOK, [Next]_vars PROVE TypeOK' OBVIOUS
<1>1. CASE Around(Surroundings)
  <2>1. GreenhouseTypeOK' /\ UNCHANGED <<setting, restarts, autoVars, timedVars>>
    BY <1>1, SurroundingsType DEF Around, TypeOK
  <2> QED BY <2>1 DEF TypeOK, autoVars, timedVars, Devices
<1>2. CASE Running(Automatic) BY <1>2, AutoType DEF Running
<1>3. CASE Running(Timed) BY <1>3, TimedType DEF Running
<1>4. CASE Restart
  <2>1. 1 \in 1..(N + 1) BY GreenhouseAssumption
  <2>2. Zeroed \in [cmd : Code, basis : Levels \union {NoData, 0}]
    BY DEF Zeroed, Code
  <2>3. restarts' \in 0..MaxRestarts
    BY <1>4, RestartsAssumption DEF Restart, TypeOK
  <2>4. tinside' \in BOOLEAN BY <1>4 DEF Restart
  <2> QED BY <1>4, <2>1, <2>2, <2>3, <2>4
           DEF Restart, TypeOK, GreenhouseTypeOK, Devices, Status
<1>5. CASE UNCHANGED vars
  BY <1>5 DEF vars, greenhouseVars, autoVars, timedVars, TypeOK,
              GreenhouseTypeOK, Devices, Status
<1> QED BY <1>1, <1>2, <1>3, <1>4, <1>5 DEF Next

(* Across power cycles, and whatever is polled, lost or switched by hand   *)
(* meanwhile, both loops stay within the configured devices and hold       *)
(* commands there are (auto_control_dev, control_dev_by_time).             *)
THEOREM StartTypeCorrect == Spec => []TypeOK
<1>1. Init => TypeOK BY StartTypeInit
<1>2. TypeOK /\ [Next]_vars => TypeOK' BY StartTypeStep
<1> QED BY <1>1, <1>2, PTL DEF Spec

(* From the read of the measurement to the write the measurement, the bits *)
(* and the switches may change; the buffer keeps what the command is based *)
(* on.                                                                     *)
RuleApplies ==
  LET dev == setting.dev[anext]
  IN  /\ dev.acon = 1 /\ abuf.basis \in Levels \ {0}
      /\ abuf.basis > setting.max \/ abuf.basis < setting.min
      /\ Rule(dev, abuf.basis) \in {"open", "close"}
WellFounded ==
  /\ apc = "look" => RuleApplies
  /\ apc = "write" /\ abuf.cmd # "zero" =>
       /\ RuleApplies
       /\ Rule(setting.dev[anext], abuf.basis)
            = (IF abuf.cmd \in Opening THEN "open" ELSE "close")

BufferInv == TypeOK /\ WellFounded

LEMMA BufferStep == BufferInv /\ [Next]_vars => BufferInv'
<1> SUFFICES ASSUME BufferInv, [Next]_vars PROVE BufferInv' OBVIOUS
<1>1. TypeOK /\ TypeOK' BY StartTypeStep DEF BufferInv
<1>2. SUFFICES WellFounded' BY <1>1 DEF BufferInv
<1>3. setting' = setting
  BY SurroundingsType, <1>1
  DEF Next, Around, Running, Automatic, Timed, AutoStart, AutoEnd, AutoSkip,
      AutoMeasure, AutoLook, AutoWrite, TimedStart, TimedEnd, TimedSkip, TimedRest,
      TimedLook, TimedWrite, Restart, vars, greenhouseVars, TypeOK
<1>4. CASE UNCHANGED autoVars
  BY <1>3, <1>4 DEF autoVars, BufferInv, WellFounded, RuleApplies, Rule
<1>5. CASE apc' \notin {"look", "write"} BY <1>5 DEF WellFounded
<1>6. ASSUME NEW b \in BOOLEAN, AutoMeasure(b) PROVE WellFounded'
  <2> DEFINE dev == setting.dev[anext]
             glsen == Glsen(b)
  <2>1. CASE Undecided(glsen) BY <1>6, <2>1 DEF AutoMeasure, WellFounded
  <2>2. CASE ~Undecided(glsen)
    <3>1. /\ anext' = anext /\ anext \in Devices
          /\ abuf'.cmd = "zero" /\ abuf'.basis = glsen
          /\ apc' = "look" => Rule(dev, glsen) # "none"
      BY <1>6, <2>2 DEF AutoMeasure
    <3>2. dev.acon = 1 BY <1>6 DEF AutoMeasure, Automated
    <3>3. glsen \in Levels \ {0}
      BY <2>2, <1>1 DEF Undecided, Glsen, TypeOK, GreenhouseTypeOK
    <3>4. CASE apc' = "look"
      <4>1. Rule(dev, glsen) \in {"open", "close"}
        BY <1>1, <3>1, <3>4, RuleType
      <4>2. glsen > setting.max \/ glsen < setting.min BY <4>1 DEF Rule
      <4>3. RuleApplies'
        BY <1>3, <3>1, <3>2, <3>3, <4>1, <4>2 DEF RuleApplies, Rule
      <4> QED BY <3>4, <4>3 DEF WellFounded
    <3>5. CASE apc' # "look" BY <3>1, <3>5 DEF WellFounded
    <3> QED BY <3>4, <3>5
  <2> QED BY <2>1, <2>2
<1>7. ASSUME NEW b \in BOOLEAN, AutoLook(b), apc' = "write" PROVE WellFounded'
  <2> DEFINE rule == Rule(setting.dev[anext], abuf.basis)
             code == CommandOf(rule, setting.dev[anext].hgq)
  <2>1. apc = "look" /\ anext' = anext /\ abuf' = [abuf EXCEPT !.cmd = code]
    BY <1>7 DEF AutoLook
  <2>2. abuf'.cmd = code /\ abuf'.basis = abuf.basis BY <1>1, <2>1 DEF TypeOK
  <2>3. RuleApplies /\ rule \in {"open", "close"}
    BY <2>1 DEF BufferInv, WellFounded, RuleApplies
  <2>4. (IF code \in Opening THEN "open" ELSE "close") = rule
    BY <2>3, CommandFacts
  <2>5. RuleApplies' BY <1>3, <2>1, <2>2, <2>3 DEF RuleApplies, Rule
  <2>6. Rule(setting.dev[anext], abuf.basis)' = rule
    BY <1>3, <2>1, <2>2 DEF Rule
  <2> QED BY <1>7, <2>2, <2>4, <2>5, <2>6 DEF WellFounded
<1>8. ASSUME NEW b \in BOOLEAN, AutoLook(b), apc' # "write" PROVE WellFounded'
  BY <1>5, <1>8 DEF AutoLook
<1> QED
  BY <1>4, <1>5, <1>6, <1>7, <1>8
  DEF Next, Around, Running, Automatic, Timed, AutoStart, AutoEnd, AutoSkip,
      AutoWrite, TimedStart, TimedEnd, TimedSkip, TimedRest, TimedLook,
      TimedWrite, Restart, vars, autoVars

(* For any number of devices and power cycles: each automatic command is   *)
(* one the rule of the device itself asks for, on a measurement that was   *)
(* really made, whatever was polled between the look and the write         *)
(* (auto_control_dev of all_start0628).                                    *)
THEOREM CommandsAreJustified == Spec => Justified
<1> DEFINE P == AutoCommand =>
       LET dev == setting.dev[anext]
       IN  /\ dev.acon = 1 /\ abuf.basis \in Levels \ {0}
           /\ abuf.basis > setting.max \/ abuf.basis < setting.min
           /\ Rule(dev, abuf.basis)
                = (IF abuf.cmd \in Opening THEN "open" ELSE "close")
<1>1. Init => BufferInv BY StartTypeInit DEF Init, BufferInv, WellFounded
<1>2. BufferInv /\ [Next]_vars => BufferInv' BY BufferStep
<1>3. BufferInv => P BY DEF BufferInv, WellFounded, RuleApplies, AutoCommand
<1>4. Spec => [][P]_vars BY <1>1, <1>2, <1>3, PTL DEF Spec
<1> QED BY <1>4 DEF Justified

=============================================================================
