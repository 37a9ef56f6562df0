--------------------------- MODULE ShareMemProofs ---------------------------
(***************************************************************************)
(* Theorems about ShareMem, for every number of collectors, relay boxes,   *)
(* commands, polls and restarts.                                           *)
(*                                                                         *)
(* The first part holds with every race: types, the lock, commands on      *)
(* their target, a file the relay commands leave readable, one message to  *)
(* a box in a turn of the Zigbee loop.                                     *)
(*                                                                         *)
(* The second part holds as long as there is no race: no relay command is  *)
(* lost, the collectors of the file are those of the configuration, and    *)
(* the file is a mailbox.                                                  *)
(***************************************************************************)
EXTENDS ShareMemMailbox, SequenceTheorems, FiniteSetTheorems, TLAPS

-----------------------------------------------------------------------------
(* What the operators on the tree return.                                  *)

(* What Create_Sharemem_Json starts from without a file is a tree. *)
LEMMA EmptyRootType == EmptyRoot \in Root
  BY DEF EmptyRoot, Root, Probe, Unlisted

(* What cjson_from_config_to_sharemem builds is a tree. *)
LEMMA FromConfigType == ASSUME NEW ids PROVE FromConfig(ids) \in Root
  BY DEF FromConfig, Root, Probe, Configured, Unlisted

(* Merging a command into the array keeps it an array of entries. *)
LEMMA AddCommandType ==
  ASSUME NEW q \in Seq(Entry), NEW c \in Controllers, NEW t \in Command
  PROVE  AddCommand(q, c, t) \in Seq(Entry)
<1>1. CASE \E i \in DOMAIN q : q[i].id = c
  <2> DEFINE e == [i \in DOMAIN q |->
                     IF q[i].id = c THEN [q[i] EXCEPT !.cmd = Append(@, t)]
                                    ELSE q[i]]
  <2>1. ASSUME NEW i \in DOMAIN q PROVE e[i] \in Entry
    <3>1. q[i] \in Entry BY ElementOfSeq
    <3>2. [q[i] EXCEPT !.cmd = Append(@, t)] \in Entry
      BY <3>1, AppendProperties DEF Entry
    <3> QED BY <3>1, <3>2
  <2>2. DOMAIN q = 1..Len(q) /\ Len(q) \in Nat BY LenProperties
  <2>3. e \in Seq(Entry) BY <2>1, <2>2, SeqDef
  <2> QED BY <1>1, <2>3 DEF AddCommand
<1>2. CASE ~ \E i \in DOMAIN q : q[i].id = c
  <2>1. [id |-> c, cmd |-> <<t>>] \in Entry BY DEF Entry
  <2> QED BY <1>2, <2>1, AppendProperties DEF AddCommand
<1> QED BY <1>1, <1>2

(* The answer of a device makes a tree of a tree. *)
LEMMA RecordedType ==
  ASSUME NEW root \in Root PROVE Recorded(root) \subseteq Root
<1>1. ASSUME NEW k \in Collectors PROVE RecordCollector(root, k) \in Root
  BY DEF RecordCollector, Root, Probe
<1>2. ASSUME NEW c \in Controllers PROVE RecordTransformer(root, c) \in Root
  BY DEF RecordTransformer, Root
<1>3. ASSUME NEW c \in Controllers PROVE RecordController(root, c) \in Root
  BY DEF RecordController, Root
<1> QED BY <1>1, <1>2, <1>3 DEF Recorded

(* What a configuration handler makes of a tree is a tree. *)
LEMMA EditedType ==
  ASSUME NEW root \in Root, wop \in Request
  PROVE  Edited(root) \subseteq Root
<1>a. ASSUME NEW k, NEW p \in Probe
      PROVE  [root EXCEPT !.collector[k] = p] \in Root
  BY DEF Root
<1>1. CASE wop.cmd = "set_dpinfo"
  <2>1. Edited(root) = {[root EXCEPT !.collector[wop.id] = Configured]}
    BY <1>1 DEF Edited
  <2>2. Configured \in Probe BY DEF Configured, Probe
  <2>3. [root EXCEPT !.collector[wop.id] = Configured] \in Root BY <1>a, <2>2
  <2> QED BY <2>1, <2>3
<1>2. CASE wop.cmd = "del_dpinfo"
  <2>1. Edited(root) = {[root EXCEPT !.collector[wop.id] = Unlisted]}
    BY <1>2, SMTT(30) DEF Edited
  <2>2. Unlisted \in Probe BY DEF Unlisted, Probe
  <2>3. [root EXCEPT !.collector[wop.id] = Unlisted] \in Root BY <1>a, <2>2
  <2> QED BY <2>1, <2>3
<1>3. CASE wop.cmd = "set_dpcontrol"
  <2>1. wop.id \in Controllers BY <1>3 DEF Request
  <2> QED BY <1>3, <2>1 DEF Edited, Root
<1>4. CASE wop.cmd = "del_dpcontrol" /\ wop.id # "none"
  BY <1>4 DEF Edited, Root
<1>5. CASE \/ wop.cmd = "del_dpcontrol" /\ wop.id = "none"
           \/ wop.cmd \in {"none", "relay"}
  <2>1. Edited(root) = {[root EXCEPT !.controller = @ \ gone] :
            gone \in {S \in SUBSET root.controller :
                        Cardinality(S) = (Cardinality(root.controller) + 1) \div 2}}
    BY <1>5, SMTT(30) DEF Edited
  <2>2. ASSUME NEW gone \in SUBSET root.controller
        PROVE  [root EXCEPT !.controller = @ \ gone] \in Root
    BY DEF Root
  <2> QED BY <2>1, <2>2
<1> QED BY <1>1, <1>2, <1>3, <1>4, <1>5 DEF Request

(* The array that waits, and the walk through it, are arrays of entries. *)
LEMMA WalkType ==
  ASSUME TypeOK PROVE Waiting \in Seq(Entry) /\ Walk \in Seq(Entry)
  BY EmptySeq DEF TypeOK, Waiting, Walk, Root

(* An entry, and no entry, has a sequence of commands. *)
LEMMA EntryCmd ==
  ASSUME NEW e \in Entry \union {NoEntry} PROVE e.cmd \in Seq(Command)
<1>1. <<>> \in Seq(Command) BY EmptySeq
<1>2. CASE e \in Entry BY <1>2 DEF Entry
<1>3. CASE e = NoEntry BY <1>1, <1>3 DEF NoEntry
<1> QED BY <1>2, <1>3

(* The head and the tail of an array that is not empty. *)
LEMMA RestSeq ==
  ASSUME NEW S, NEW q \in Seq(S), q # <<>>
  PROVE  Head(q) \in S /\ Tail(q) \in Seq(S)
  BY HeadTailProperties

-----------------------------------------------------------------------------
(* Type correctness. *)

(* Base case of type correctness. *)
LEMMA TypeInit == Init => TypeOK
<1> SUFFICES ASSUME Init PROVE TypeOK OBVIOUS
<1>1. EmptyRoot \in Root BY EmptyRootType
<1>2. NoRequest \in Request BY DEF NoRequest, Request
<1>3. NoCursor \in [walking : BOOLEAN, rest : Seq(Entry)]
  BY EmptySeq DEF NoCursor
<1>4. [c \in Controllers |-> <<>>] \in [Controllers -> Seq(Command)]
  BY EmptySeq
<1>5. [p \in Thread \union {"snapshot"} |-> FALSE]
        \in [Thread \union {"snapshot"} -> BOOLEAN]
  OBVIOUS
<1>6. Collectors \in SUBSET Collectors OBVIOUS
<1>7. {} \in SUBSET Command OBVIOUS
<1>8. /\ 0 \in 0..MaxPolls /\ 0 \in 0..MaxRestarts /\ 0 \in 0..MaxWrites
      /\ 0 \in 0..MaxCommands /\ 0 \in 0..MaxConfigs
  BY BoundsAssumption
<1>9. wcopy \in Root /\ zcopy \in Root /\ wop \in Request
  BY <1>1, <1>2 DEF Init
<1>10. {} \in SUBSET Controllers OBVIOUS
<1> QED BY <1>10, <1>3, <1>4, <1>5, <1>6, <1>7, <1>8, <1>9
       DEF Init, TypeOK, Places, ZPlaces, Thread

(* No step of the DTU thread breaks the types. *)
LEMMA DtuType == ASSUME TypeOK, Dtu PROVE TypeOK'
<1> USE BoundsAssumption
<1> USE DEF TypeOK, Places, Thread, fileVars, zigbeeVars, ghostVars, sentVars
<1>a. NoRequest \in Request BY DEF NoRequest, Request
<1>b. EmptyRoot \in Root BY EmptyRootType
<1>1. ASSUME NEW c \in Controllers, RelayRead(c) PROVE TypeOK'
  <2>1. <<issued + 1, c>> \in Command /\ issued + 1 \in 0..MaxCommands
    BY <1>1 DEF RelayRead, Command
  <2>2. CASE file = Torn BY <1>1, <2>1, <2>2 DEF RelayRead
  <2>3. CASE file # Torn
    <3>1. file \in Root /\ file.controllercmd \in Seq(Entry)
      BY <2>3 DEF Root
    <3>2. AddCommand(file.controllercmd, c, <<issued + 1, c>>) \in Seq(Entry)
      BY <2>1, <3>1, AddCommandType
    <3>3. wcopy' \in Root BY <1>1, <2>3, <3>1, <3>2 DEF RelayRead, Root
    <3>4. wop' \in Request BY <1>1, <2>3 DEF RelayRead, Request
    <3> QED BY <1>1, <2>1, <2>3, <3>3, <3>4 DEF RelayRead
  <2> QED BY <2>2, <2>3
<1>2. CASE ConfigStart
  <2>1. wop' \in Request BY <1>2 DEF ConfigStart, Request
  <2>2. jsonroot' \in SUBSET Collectors BY <1>2 DEF ConfigStart
  <2>3. wpc' \in Places /\ configs' \in 0..MaxConfigs
    BY <1>2 DEF ConfigStart
  <2> QED BY <1>2, <2>1, <2>2, <2>3 DEF ConfigStart
<1>3. CASE ConfigRead
  <2>1. wpc' \in Places BY <1>3 DEF ConfigRead, AfterSave
  <2>2. wop' \in Request BY <1>3, <1>a DEF ConfigRead
  <2>3. wcopy' \in Root BY <1>3, EditedType DEF ConfigRead
  <2> QED BY <1>3, <2>1, <2>2, <2>3 DEF ConfigRead
<1>4. CASE DtuOpen
  BY <1>4 DEF DtuOpen, OpenLocked, OpenUnlocked, Truncate, StreamOpen, Peer
<1>5. CASE DtuClose
  <2>1. wop.cmd = "relay" => Pending \in Command
    BY DEF Pending, Command, Request
  <2>2. wop' \in Request /\ wpc' \in Places
    BY <1>5, <1>a DEF DtuClose, AfterSave
  <2>3. /\ file' \in Root \union {Torn} /\ mixed' \in BOOLEAN
        /\ lock' \in Thread \union {"free"} /\ raced' \in BOOLEAN
        /\ fresh' \in [Thread \union {"snapshot"} -> BOOLEAN]
    BY <1>5 DEF DtuClose, Close, Left, Peer
  <2>4. acked' \in SUBSET Command BY <1>5, <2>1 DEF DtuClose
  <2>5. wcopy' \in Root BY <1>5, <1>b DEF DtuClose
  <2> QED BY <1>5, <2>2, <2>3, <2>4, <2>5 DEF DtuClose
<1>6. CASE ConfigOpen
  <2>1. config' \in (SUBSET Collectors) \union {Torn} BY <1>6 DEF ConfigOpen
  <2> QED BY <1>6, <2>1 DEF ConfigOpen
<1>7. CASE ConfigClose BY <1>7, <1>a DEF ConfigClose
<1>8. CASE DtuBoot
  <2>1. jsonroot' \in SUBSET Collectors BY <1>8 DEF DtuBoot
  <2>2. wpc' \in Places BY <1>8 DEF DtuBoot
  <2> QED BY <1>8, <2>1, <2>2 DEF DtuBoot
<1>9. CASE DefaultSave BY <1>9 DEF DefaultSave
<1> QED BY <1>1, <1>2, <1>3, <1>4, <1>5, <1>6, <1>7, <1>8, <1>9 DEF Dtu

(* No step of the Zigbee thread breaks the types. *)
LEMMA ZigbeeType == ASSUME TypeOK, Zigbee PROVE TypeOK'
<1> USE BoundsAssumption
<1> USE DEF TypeOK, ZPlaces, Thread, fileVars, dtuVars, ghostVars, sentVars
<1>a. EmptyRoot \in Root BY EmptyRootType
<1>b. NoCursor \in [walking : BOOLEAN, rest : Seq(Entry)]
  BY EmptySeq DEF NoCursor
<1>1. CASE ZigbeeBoot
  <2>1. zcopy' \in Root BY <1>1, FromConfigType DEF ZigbeeBoot
  <2>2. zpc' \in ZPlaces /\ raced' \in BOOLEAN BY <1>1 DEF ZigbeeBoot
  <2>3. (acked = {} /\ wpc = "idle") \in BOOLEAN OBVIOUS
  <2>4. fresh' \in [Thread \union {"snapshot"} -> BOOLEAN]
    BY <1>1, <2>3 DEF ZigbeeBoot
  <2> QED BY <1>1, <2>1, <2>2, <2>4 DEF ZigbeeBoot
<1>2. CASE DrainNext
  <2>1. Head(Walk) \in Entry /\ Tail(Walk) \in Seq(Entry)
    BY <1>2, WalkType, RestSeq DEF DrainNext
  <2> QED BY <1>2, <2>1 DEF DrainNext
<1>3. CASE DrainEnd
  <2>1. file \in Root BY <1>3 DEF DrainEnd, Waiting
  <2>2. zcopy' \in Root BY <1>3, <2>1, EmptySeq DEF DrainEnd, Root
  <2> QED BY <1>3, <1>b, <2>2 DEF DrainEnd, TurnOver
<1>4. CASE DrainIdle BY <1>4 DEF DrainIdle, TurnOver
<1>5. CASE SendEntry \/ SendAgain
  <2>1. zentry.cmd \in Seq(Command) BY EntryCmd
  <2>2. \A c \in Controllers : executed[c] \o zentry.cmd \in Seq(Command)
    BY <2>1, ConcatProperties
  <2>a. executed' = [executed EXCEPT ![zentry.id] = @ \o zentry.cmd]
    BY <1>5 DEF SendEntry, SendAgain, Write
  <2>3. executed' \in [Controllers -> Seq(Command)] BY <2>a, <2>2
  <2>4. CASE SendEntry
    <3>1. zentry \in Entry /\ zwrites < MaxWrites BY <2>4 DEF SendEntry
    <3> QED BY <2>3, <2>4, <3>1 DEF SendEntry, Write, Entry
  <2>5. CASE SendAgain BY <2>3, <2>5 DEF SendAgain, Write
  <2> QED BY <1>5, <2>4, <2>5
<1>6. CASE Answer
  <2>1. ReadOrEmpty \in Root BY <1>a DEF ReadOrEmpty
  <2>2. zcopy' \in Root BY <1>6, <2>1, RecordedType DEF Answer
  <2> QED BY <1>6, <2>2 DEF Answer
<1>7. CASE NoAnswer BY <1>7 DEF NoAnswer, Resume
<1>8. CASE PollNext BY <1>8 DEF PollNext
<1>9. CASE PollEnd BY <1>9 DEF PollEnd
<1>10. CASE ZigbeeOpen
  BY <1>10 DEF ZigbeeOpen, OpenLocked, Truncate, StreamOpen, Peer
<1>11. CASE ZigbeeClose
  <2>1. zpc \notin {"answer", "send"} /\ zpc' \in {"poll", "drain"}
    BY <1>11 DEF ZigbeeClose, Resume
  <2>2. /\ file' \in Root \union {Torn} /\ mixed' \in BOOLEAN
        /\ lock' \in Thread \union {"free"} /\ raced' \in BOOLEAN
    BY <1>11 DEF ZigbeeClose, Close, Left
  <2>3. fresh' \in [Thread \union {"snapshot"} -> BOOLEAN]
    BY <1>11 DEF ZigbeeClose, Close, Peer
  <2> QED BY <1>11, <1>a, <2>1, <2>2, <2>3 DEF ZigbeeClose
<1> QED BY <1>1, <1>2, <1>3, <1>4, <1>5, <1>6, <1>7, <1>8, <1>9, <1>10, <1>11
       DEF Zigbee

(* Nor does a power cycle. *)
LEMMA RestartType == ASSUME TypeOK, Restart PROVE TypeOK'
<1>1. EmptyRoot \in Root BY EmptyRootType
<1>2. NoRequest \in Request BY DEF NoRequest, Request
<1>3. NoCursor \in [walking : BOOLEAN, rest : Seq(Entry)]
  BY EmptySeq DEF NoCursor
<1>4. [p \in Thread \union {"snapshot"} |-> FALSE]
        \in [Thread \union {"snapshot"} -> BOOLEAN]
  OBVIOUS
<1>5. {} \in SUBSET Command OBVIOUS
<1>6. 0 \in 0..MaxPolls /\ 0 \in 0..MaxWrites /\ restarts' \in 0..MaxRestarts
  BY BoundsAssumption DEF Restart, TypeOK
<1>7. wcopy' \in Root /\ zcopy' \in Root /\ wop' \in Request
  BY <1>1, <1>2 DEF Restart
<1>8. {} \in SUBSET Controllers OBVIOUS
<1> QED BY <1>8, <1>3, <1>4, <1>5, <1>6, <1>7
       DEF Restart, TypeOK, Places, ZPlaces, Thread

(* The types are inductive by themselves. *)
LEMMA TypeStep == TypeOK /\ [Next]_vars => TypeOK'
<1> SUFFICES ASSUME TypeOK, [Next]_vars PROVE TypeOK' OBVIOUS
<1>1. CASE UNCHANGED vars
  BY <1>1 DEF TypeOK, vars, fileVars, dtuVars, zigbeeVars, ghostVars, sentVars
<1>2. CASE Spill
  BY <1>2 DEF Spill, TypeOK, dtuVars, zigbeeVars, ghostVars, sentVars
<1> QED BY <1>1, <1>2, DtuType, ZigbeeType, RestartType DEF Next

(* Whatever the sizes of the network and the numbers of commands and       *)
(* restarts, the two threads only ever write well-formed trees: no access  *)
(* of Recv_Function, Create_Sharemem_Json or Get_Controller_Json_Data is   *)
(* to an entry the tree cannot have.                                       *)
THEOREM TypeCorrect == Spec => []TypeOK
<1>1. Init => TypeOK BY TypeInit
<1>2. TypeOK /\ [Next]_vars => TypeOK' BY TypeStep
<1> QED BY <1>1, <1>2, PTL DEF Spec

-----------------------------------------------------------------------------
(* Mutual exclusion of the locked saves.  The invariant ties the owner of  *)
(* pthread_mutex_this to the places of the two threads; the unlocked saves *)
(* of the configuration handlers are at "close" without owning it.         *)

LockInv ==
  /\ TypeOK
  /\ lock = "dtu" <=> (wpc = "close" /\ wop.cmd = "relay")
  /\ lock = "zigbee" <=> zpc = "close"

(* The lock belongs to whoever is between its fopen and its fclose. *)
LEMMA LockStep == LockInv /\ [Next]_vars => LockInv'
<1> SUFFICES ASSUME LockInv, [Next]_vars PROVE LockInv' OBVIOUS
<1>a. TypeOK' BY TypeStep DEF LockInv
<1> USE DEF fileVars, dtuVars, zigbeeVars, ghostVars, sentVars
<1>b. lock \in {"dtu", "zigbee", "free"} BY DEF LockInv, TypeOK, Thread
<1>1. CASE Dtu
  <2>1. zpc' = zpc
    BY <1>1 DEF Dtu, RelayRead, ConfigStart, ConfigRead, DtuOpen, DtuClose,
                ConfigOpen, ConfigClose, DtuBoot, DefaultSave
  <2>2. CASE DtuOpen
    BY <1>a, <1>b, <2>1, <2>2 DEF DtuOpen, OpenLocked, OpenUnlocked, LockInv
  <2>3. CASE DtuClose
    BY <1>a, <1>b, <2>1, <2>3 DEF DtuClose, Close, AfterSave, LockInv
  <2>4. ASSUME ~DtuOpen, ~DtuClose
        PROVE  lock' = lock /\ wpc # "close" /\ wpc' # "close"
    BY <1>1, <2>4 DEF Dtu, RelayRead, ConfigStart, ConfigRead, AfterSave,
                ConfigOpen, ConfigClose, DtuBoot, DefaultSave
  <2>5. CASE ~DtuOpen /\ ~DtuClose
    BY <1>a, <2>1, <2>4, <2>5 DEF LockInv
  <2> QED BY <2>2, <2>3, <2>5
<1>2. CASE Zigbee
  <2>1. wpc' = wpc /\ wop' = wop
    BY <1>2 DEF Zigbee, ZigbeeBoot, DrainNext, DrainEnd, DrainIdle, SendEntry,
                SendAgain, Write, TurnOver, Answer, NoAnswer, PollNext, PollEnd,
                ZigbeeOpen, ZigbeeClose
  <2>2. CASE ZigbeeOpen
    BY <1>a, <1>b, <2>1, <2>2 DEF ZigbeeOpen, OpenLocked, LockInv
  <2>3. CASE ZigbeeClose
    BY <1>a, <1>b, <2>1, <2>3 DEF ZigbeeClose, Close, Resume, LockInv
  <2>4. ASSUME ~ZigbeeOpen, ~ZigbeeClose
        PROVE  lock' = lock /\ zpc # "close" /\ zpc' # "close"
    BY <1>2, <2>4 DEF Zigbee, ZigbeeBoot, DrainNext, DrainEnd, DrainIdle,
                      SendEntry, SendAgain, Write, TurnOver, Answer, NoAnswer,
                      Resume, PollNext, PollEnd
  <2>5. CASE ~ZigbeeOpen /\ ~ZigbeeClose
    BY <1>a, <2>1, <2>4, <2>5 DEF LockInv
  <2> QED BY <2>2, <2>3, <2>5
<1>3. CASE Restart BY <1>a, <1>3 DEF Restart, LockInv
<1>4. CASE UNCHANGED vars BY <1>a, <1>4 DEF LockInv, vars
<1>5. CASE Spill BY <1>a, <1>5 DEF LockInv, Spill
<1> QED BY <1>1, <1>2, <1>3, <1>4, <1>5 DEF Next

(* Two saves under pthread_mutex_this never overlap (the lock and unlock   *)
(* around SaveJsonToFile in Save_Control_To_Json, Create_Sharemem_Json and *)
(* Get_Controller_Json_Data).                                              *)
THEOREM LockedSavesExclude == Spec => []LockedSaveExclusive
<1>1. Init => LockInv BY TypeInit DEF Init, LockInv
<1>2. LockInv /\ [Next]_vars => LockInv' BY LockStep
<1>3. LockInv => LockedSaveExclusive BY DEF LockInv, LockedSaveExclusive
<1> QED BY <1>1, <1>2, <1>3, PTL DEF Spec

-----------------------------------------------------------------------------
(* Relay commands stay with their box.  OnTarget must hold of every copy   *)
(* of the array there is: the file, both private trees, the snapshot that  *)
(* is walked and the entry in hand; then it holds of what is written.      *)

OnTarget(q) ==
  \A i \in DOMAIN q : \A j \in DOMAIN q[i].cmd : q[i].cmd[j][2] = q[i].id

TargetInv ==
  /\ TypeOK
  /\ file # Torn => OnTarget(file.controllercmd)
  /\ OnTarget(wcopy.controllercmd)
  /\ OnTarget(zcopy.controllercmd)
  /\ OnTarget(cursor.rest)
  /\ OnTarget(<<zentry>>)
  /\ CommandsOnTarget

(* Appending a command to the entry of its box keeps the array on target.  *)
LEMMA AddCommandOnTarget ==
  ASSUME NEW q \in Seq(Entry), NEW c \in Controllers, NEW t \in Command,
         t[2] = c, OnTarget(q)
  PROVE  OnTarget(AddCommand(q, c, t))
<1> DEFINE r == AddCommand(q, c, t)
<1> SUFFICES ASSUME NEW i \in DOMAIN r, NEW j \in DOMAIN r[i].cmd
             PROVE  r[i].cmd[j][2] = r[i].id
  BY DEF OnTarget
<1>1. DOMAIN q = 1..Len(q) /\ Len(q) \in Nat BY LenProperties
<1>2. CASE \E n \in DOMAIN q : q[n].id = c
  <2>1. r = [n \in DOMAIN q |->
               IF q[n].id = c THEN [q[n] EXCEPT !.cmd = Append(@, t)] ELSE q[n]]
    BY <1>2 DEF AddCommand
  <2>2. i \in DOMAIN q /\ q[i] \in Entry BY <2>1, ElementOfSeq
  <2>3. CASE q[i].id = c
    <3>1. r[i] = [q[i] EXCEPT !.cmd = Append(@, t)] BY <2>1, <2>2, <2>3
    <3>2. q[i].cmd \in Seq(Command) BY <2>2 DEF Entry
    <3>3. r[i].cmd = Append(q[i].cmd, t) /\ r[i].id = c
      BY <2>2, <2>3, <3>1 DEF Entry
    <3>4. CASE j = Len(q[i].cmd) + 1
      BY <3>2, <3>3, <3>4, AppendProperties
    <3>5. CASE j # Len(q[i].cmd) + 1
      <4>1. j \in DOMAIN q[i].cmd /\ r[i].cmd[j] = q[i].cmd[j]
        BY <3>2, <3>3, <3>5, AppendProperties, LenProperties
      <4> QED BY <2>2, <2>3, <3>3, <4>1 DEF OnTarget
    <3> QED BY <3>4, <3>5
  <2>4. CASE q[i].id # c
    <3>1. r[i] = q[i] BY <2>1, <2>2, <2>4
    <3> QED BY <2>2, <3>1 DEF OnTarget
  <2> QED BY <2>3, <2>4
<1>3. CASE ~ \E n \in DOMAIN q : q[n].id = c
  <2> DEFINE e == [id |-> c, cmd |-> <<t>>]
  <2>1. r = Append(q, e) /\ e \in Entry BY <1>3 DEF AddCommand, Entry
  <2>2. /\ DOMAIN r = 1..(Len(q) + 1) /\ r[Len(q) + 1] = e
        /\ \A n \in 1..Len(q) : r[n] = q[n]
    BY <2>1, AppendProperties, LenProperties
  <2>3. CASE i = Len(q) + 1
    <3>1. r[i] = e /\ j = 1 BY <2>2, <2>3
    <3> QED BY <3>1
  <2>4. CASE i # Len(q) + 1
    <3>1. i \in DOMAIN q /\ r[i] = q[i] BY <1>1, <2>2, <2>4
    <3> QED BY <3>1 DEF OnTarget
  <2> QED BY <2>3, <2>4
<1> QED BY <1>2, <1>3

(* There is nothing astray in an empty array. *)
LEMMA EmptyOnTarget ==
  OnTarget(<<>>) /\ OnTarget(EmptyRoot.controllercmd)
    /\ OnTarget(<<NoEntry>>) /\ OnTarget(NoCursor.rest)
    /\ \A ids : OnTarget(FromConfig(ids).controllercmd)
  BY DEF OnTarget, EmptyRoot, NoEntry, NoCursor, FromConfig

(* An entry taken off the array, and the rest, stay on target. *)
LEMMA RestOnTarget ==
  ASSUME NEW q \in Seq(Entry), q # <<>>, OnTarget(q)
  PROVE  OnTarget(<<Head(q)>>) /\ OnTarget(Tail(q))
<1>1. /\ Len(q) \in Nat \ {0} /\ DOMAIN q = 1..Len(q)
      /\ Head(q) = q[1] /\ DOMAIN Tail(q) = 1..(Len(q) - 1)
      /\ \A i \in 1..(Len(q) - 1) : Tail(q)[i] = q[i + 1]
  BY EmptySeq, LenProperties, HeadTailProperties
<1>2. OnTarget(<<Head(q)>>) BY <1>1 DEF OnTarget
<1>3. ASSUME NEW i \in DOMAIN Tail(q), NEW j \in DOMAIN Tail(q)[i].cmd
      PROVE  Tail(q)[i].cmd[j][2] = Tail(q)[i].id
  <2>1. i + 1 \in DOMAIN q /\ Tail(q)[i] = q[i + 1] BY <1>1
  <2> QED BY <2>1, <1>3 DEF OnTarget
<1> QED BY <1>2, <1>3 DEF OnTarget

(* Only the relay command touches the pending commands of a tree. *)
LEMMA EditedKeeps ==
  ASSUME NEW root \in Root, wop \in Request, NEW r \in Edited(root)
  PROVE  r.controllercmd = root.controllercmd
<1>a. ASSUME NEW f \in [Collectors -> Probe]
      PROVE  [root EXCEPT !.collector = f].controllercmd = root.controllercmd
  BY DEF Root
<1>b. ASSUME NEW S
      PROVE  [root EXCEPT !.controller = S].controllercmd = root.controllercmd
  BY DEF Root
<1>1. CASE wop.cmd = "set_dpinfo"
  <2>1. r = [root EXCEPT !.collector[wop.id] = Configured] BY <1>1 DEF Edited
  <2> QED BY <2>1 DEF Root
<1>2. CASE wop.cmd = "del_dpinfo"
  <2>1. Edited(root) = {[root EXCEPT !.collector[wop.id] = Unlisted]}
    BY <1>2, SMTT(30) DEF Edited
  <2>2. r = [root EXCEPT !.collector[wop.id] = Unlisted] BY <2>1
  <2> QED BY <2>2 DEF Root
<1>3. CASE wop.cmd = "set_dpcontrol" BY <1>3, <1>b DEF Edited
<1>4. CASE wop.cmd = "del_dpcontrol" /\ wop.id # "none"
  BY <1>4, <1>b DEF Edited
<1>5. CASE \/ wop.cmd = "del_dpcontrol" /\ wop.id = "none"
           \/ wop.cmd \in {"none", "relay"}
  <2>1. Edited(root) = {[root EXCEPT !.controller = @ \ gone] :
            gone \in {S \in SUBSET root.controller :
                        Cardinality(S) = (Cardinality(root.controller) + 1) \div 2}}
    BY <1>5, SMTT(30) DEF Edited
  <2>2. PICK gone : r = [root EXCEPT !.controller = @ \ gone] BY <2>1
  <2> QED BY <2>2, <1>b
<1> QED BY <1>1, <1>2, <1>3, <1>4, <1>5 DEF Request

(* No answer of a device touches them either. *)
LEMMA RecordedKeeps ==
  ASSUME NEW root \in Root, NEW r \in Recorded(root)
  PROVE  r.controllercmd = root.controllercmd
<1>1. ASSUME NEW k \in Collectors
      PROVE  RecordCollector(root, k).controllercmd = root.controllercmd
  BY DEF RecordCollector, Root
<1>2. ASSUME NEW c \in Controllers
      PROVE  /\ RecordTransformer(root, c).controllercmd = root.controllercmd
             /\ RecordController(root, c).controllercmd = root.controllercmd
  BY DEF RecordTransformer, RecordController, Root
<1> QED BY <1>1, <1>2 DEF Recorded

(* No step of the DTU thread puts a command into a foreign entry. *)
LEMMA DtuTarget == ASSUME TargetInv, Dtu PROVE TargetInv'
<1>a. TypeOK /\ TypeOK' BY TypeStep DEF TargetInv, Next
<1> USE DEF fileVars, zigbeeVars, ghostVars, sentVars
<1>b. wop \in Request BY <1>a DEF TypeOK
<1>c. UNCHANGED <<zcopy, cursor, zentry, executed>>
  BY DEF Dtu, RelayRead, ConfigStart, ConfigRead, DtuOpen, DtuClose,
         ConfigOpen, ConfigClose, DtuBoot, DefaultSave
<1>d. /\ OnTarget(zcopy.controllercmd)' /\ OnTarget(cursor.rest)'
      /\ OnTarget(<<zentry>>)' /\ CommandsOnTarget'
  BY <1>c DEF TargetInv, CommandsOnTarget
<1>1. ASSUME NEW c \in Controllers, RelayRead(c) PROVE TargetInv'
  <2>1. CASE file = Torn BY <1>1, <1>a, <1>d, <2>1 DEF RelayRead, TargetInv
  <2>2. CASE file # Torn
    <3>1. file \in Root /\ file.controllercmd \in Seq(Entry)
      BY <1>a, <2>2 DEF TypeOK, Root
    <3>2. <<issued + 1, c>> \in Command BY <1>a, BoundsAssumption
       DEF TypeOK, Command
    <3>3. OnTarget(AddCommand(file.controllercmd, c, <<issued + 1, c>>))
      BY <2>2, <3>1, <3>2, AddCommandOnTarget DEF TargetInv
    <3>4. wcopy'.controllercmd
            = AddCommand(file.controllercmd, c, <<issued + 1, c>>)
      BY <1>1, <2>2, <3>1 DEF RelayRead, Root
    <3> QED BY <1>1, <1>a, <1>d, <2>2, <3>3, <3>4 DEF RelayRead, TargetInv
  <2> QED BY <2>1, <2>2
<1>2. CASE ConfigRead
  <2>1. UNCHANGED file BY <1>2 DEF ConfigRead
  <2>2. CASE UNCHANGED wcopy BY <1>a, <1>d, <2>1, <2>2 DEF TargetInv
  <2>3. CASE file # Torn /\ wcopy' \in Edited(file)
    <3>1. file \in Root BY <1>a, <2>3 DEF TypeOK
    <3>2. wcopy'.controllercmd = file.controllercmd
      BY <1>b, <2>3, <3>1, EditedKeeps
    <3> QED BY <1>a, <1>d, <2>1, <2>3, <3>2 DEF TargetInv
  <2> QED BY <1>2, <2>2, <2>3 DEF ConfigRead
<1>3. CASE DtuOpen
  BY <1>3, <1>a, <1>d DEF DtuOpen, OpenLocked, OpenUnlocked, Truncate, TargetInv
<1>4. CASE DtuClose
  BY <1>4, <1>a, <1>d, EmptyOnTarget DEF DtuClose, Close, Left, TargetInv
<1>5. CASE \/ ConfigStart \/ ConfigOpen \/ ConfigClose
           \/ DtuBoot \/ DefaultSave
  <2>1. UNCHANGED <<file, wcopy>>
    BY <1>5 DEF ConfigStart, ConfigOpen, ConfigClose, DtuBoot, DefaultSave
  <2> QED BY <1>a, <1>d, <2>1 DEF TargetInv
<1> QED BY <1>1, <1>2, <1>3, <1>4, <1>5 DEF Dtu

(* No step of the Zigbee thread does, and none writes one astray. *)
LEMMA ZigbeeTarget == ASSUME TargetInv, Zigbee PROVE TargetInv'
<1>a. TypeOK /\ TypeOK' BY TypeStep DEF TargetInv, Next
<1> USE DEF fileVars, dtuVars, ghostVars, sentVars
<1>b. wcopy' = wcopy
  BY DEF Zigbee, ZigbeeBoot, DrainNext, DrainEnd, DrainIdle, SendEntry,
         SendAgain, Write, TurnOver, Answer, NoAnswer, PollNext, PollEnd,
         ZigbeeOpen, ZigbeeClose
<1>c. OnTarget(wcopy.controllercmd)' BY <1>b DEF TargetInv
<1>d. Walk \in Seq(Entry) /\ OnTarget(Walk)
  <2>1. OnTarget(Waiting) BY EmptyOnTarget DEF Waiting, TargetInv
  <2> QED BY <1>a, <2>1, WalkType DEF Walk, TargetInv
<1>1. CASE ZigbeeBoot
  <2>1. OnTarget(zcopy.controllercmd)'
    BY <1>1, EmptyOnTarget DEF ZigbeeBoot, TargetInv
  <2> QED BY <1>1, <1>a, <1>c, <2>1 DEF ZigbeeBoot, TargetInv, CommandsOnTarget
<1>2. CASE DrainNext
  <2>1. OnTarget(<<zentry'>>) /\ OnTarget(cursor'.rest)
    BY <1>2, <1>d, RestOnTarget DEF DrainNext
  <2> QED BY <1>2, <1>a, <1>c, <2>1 DEF DrainNext, TargetInv, CommandsOnTarget
<1>3. CASE DrainEnd
  <2>1. file \in Root BY <1>3, <1>a DEF DrainEnd, Waiting, TypeOK
  <2>2. zcopy'.controllercmd = <<>> BY <1>3, <2>1 DEF DrainEnd, Root
  <2>3. OnTarget(zcopy'.controllercmd) /\ OnTarget(<<zentry'>>)
          /\ OnTarget(cursor'.rest)
    BY <1>3, <2>2, EmptyOnTarget DEF DrainEnd, TurnOver
  <2> QED BY <1>3, <1>a, <1>c, <2>3
          DEF DrainEnd, TurnOver, TargetInv, CommandsOnTarget
<1>4. CASE DrainIdle
  <2>1. OnTarget(<<zentry'>>) BY <1>4, EmptyOnTarget DEF DrainIdle, TurnOver
  <2> QED BY <1>4, <1>a, <1>c, <2>1
          DEF DrainIdle, TurnOver, TargetInv, CommandsOnTarget
<1>5. CASE SendEntry \/ SendAgain
  <2>a. /\ executed' = [executed EXCEPT ![zentry.id] = @ \o zentry.cmd]
        /\ UNCHANGED <<file, wcopy, zcopy, cursor, zentry>>
    BY <1>5 DEF SendEntry, SendAgain, Write
  <2>1. zentry.cmd \in Seq(Command) BY <1>a, EntryCmd DEF TypeOK
  <2>2. \A j \in DOMAIN zentry.cmd : zentry.cmd[j][2] = zentry.id
    BY DEF TargetInv, OnTarget
  <2>3. ASSUME NEW c \in Controllers, NEW i \in DOMAIN executed'[c]
        PROVE  executed'[c][i][2] = c
    <3>1. executed[c] \in Seq(Command) BY <1>a DEF TypeOK
    <3>2. CASE c # zentry.id
      <4>1. executed'[c] = executed[c] BY <2>a, <1>a, <3>2 DEF TypeOK
      <4> QED BY <2>3, <4>1 DEF TargetInv, CommandsOnTarget
    <3>3. CASE c = zentry.id
      <4>1. executed'[c] = executed[c] \o zentry.cmd
        BY <2>a, <1>a, <3>3 DEF TypeOK
      <4>a. /\ Len(executed[c]) \in Nat /\ Len(zentry.cmd) \in Nat
            /\ DOMAIN executed[c] = 1..Len(executed[c])
            /\ DOMAIN zentry.cmd = 1..Len(zentry.cmd)
        BY <2>1, <3>1, LenProperties
      <4>b. /\ executed'[c] \in Seq(Command)
            /\ Len(executed'[c]) = Len(executed[c]) + Len(zentry.cmd)
        BY <2>1, <3>1, <4>1, ConcatProperties
      <4>c. i \in 1..(Len(executed[c]) + Len(zentry.cmd))
        BY <2>3, <4>b, LenProperties
      <4>3. CASE i <= Len(executed[c])
        <5>1. i \in DOMAIN executed[c] /\ executed'[c][i] = executed[c][i]
          BY <2>1, <3>1, <4>1, <4>a, <4>c, <4>3, ConcatProperties
        <5> QED BY <5>1 DEF TargetInv, CommandsOnTarget
      <4>4. CASE ~(i <= Len(executed[c]))
        <5>a. \A m, n \in Nat : i \in 1..(m + n) /\ ~(i <= m) => i - m \in 1..n
          OBVIOUS
        <5>1. i - Len(executed[c]) \in DOMAIN zentry.cmd
          BY <4>a, <4>c, <4>4, <5>a
        <5>2. executed'[c][i] = zentry.cmd[i - Len(executed[c])]
          BY <2>1, <3>1, <4>1, <4>a, <4>c, <4>4, ConcatProperties
        <5> QED BY <2>2, <3>3, <5>1, <5>2
      <4> QED BY <4>3, <4>4
    <3> QED BY <3>2, <3>3
  <2>4. CommandsOnTarget' BY <2>3 DEF CommandsOnTarget
  <2> QED BY <2>a, <1>a, <1>c, <2>4 DEF TargetInv
<1>6. CASE Answer
  <2>1. ReadOrEmpty \in Root /\ OnTarget(ReadOrEmpty.controllercmd)
    BY <1>a, EmptyRootType, EmptyOnTarget DEF ReadOrEmpty, TypeOK, TargetInv
  <2>2. OnTarget(zcopy.controllercmd)' BY <1>6, <2>1, RecordedKeeps DEF Answer
  <2> QED BY <1>6, <1>a, <1>c, <2>2 DEF Answer, TargetInv, CommandsOnTarget
<1>7. CASE ZigbeeOpen
  BY <1>7, <1>a, <1>c
     DEF ZigbeeOpen, OpenLocked, Truncate, TargetInv, CommandsOnTarget
<1>8. CASE ZigbeeClose
  BY <1>8, <1>a, <1>c, EmptyOnTarget
     DEF ZigbeeClose, Close, Left, TargetInv, CommandsOnTarget
<1>9. CASE NoAnswer \/ PollNext \/ PollEnd
  BY <1>9, <1>a, <1>c
     DEF NoAnswer, PollNext, PollEnd, TargetInv, CommandsOnTarget
<1> QED BY <1>1, <1>2, <1>3, <1>4, <1>5, <1>6, <1>7, <1>8, <1>9 DEF Zigbee

(* TargetInv is inductive. *)
LEMMA TargetStep == TargetInv /\ [Next]_vars => TargetInv'
<1> SUFFICES ASSUME TargetInv, [Next]_vars PROVE TargetInv' OBVIOUS
<1>a. TypeOK' BY TypeStep DEF TargetInv
<1>1. CASE Restart
  BY <1>1, <1>a, EmptyOnTarget DEF Restart, TargetInv, CommandsOnTarget
<1>2. CASE UNCHANGED vars
  BY <1>2, <1>a DEF TargetInv, CommandsOnTarget, vars, fileVars, dtuVars,
                    zigbeeVars, ghostVars, sentVars
<1>3. CASE Spill
  BY <1>3, <1>a DEF Spill, TargetInv, CommandsOnTarget, dtuVars, zigbeeVars,
                    ghostVars, sentVars
<1> QED BY <1>1, <1>2, <1>3, DtuTarget, ZigbeeTarget DEF Next

(* Base case of TargetInv. *)
LEMMA TargetInit == Init => TargetInv
<1> SUFFICES ASSUME Init PROVE TargetInv OBVIOUS
<1>1. CommandsOnTarget BY DEF Init, CommandsOnTarget
<1> QED BY <1>1, TypeInit, EmptyOnTarget DEF Init, TargetInv

(* For any number of boxes and commands and any overlap of the saves, also *)
(* the racing ones, a relay box gets only commands of its own              *)
(* (Save_Control_To_Json merges by id, Get_Controller_Json_Data sends the  *)
(* merged entry to that id).                                               *)
THEOREM TargetsKept == Spec => []CommandsOnTarget
<1>1. Init => TargetInv BY TargetInit
<1>2. TargetInv /\ [Next]_vars => TargetInv' BY TargetStep
<1>3. TargetInv => CommandsOnTarget BY DEF TargetInv
<1> QED BY <1>1, <1>2, <1>3, PTL DEF Spec

-----------------------------------------------------------------------------
(* The file between saves.  While the web only switches relays, both       *)
(* threads save under the mutex, so no two streams are ever open on the    *)
(* file, and the configuration it is rebuilt from is never torn.           *)

RelaysOnly ==
  /\ config \in SUBSET Collectors /\ wop.cmd \in {"none", "relay"}
  /\ wpc \in {"boot", "idle", "save", "close"}
  /\ Saving(wpc) => wop.cmd = "relay"
  /\ ~mixed
  /\ Settled => file # Torn

RelaysInv == LockInv /\ (configs = 0 => RelaysOnly)

(* No step of the DTU thread mixes two streams. *)
LEMMA DtuRelays == ASSUME RelaysInv, Dtu, configs' = 0 PROVE RelaysOnly'
<1> USE DEF zigbeeVars, ghostVars, sentVars, fileVars, Saving
<1>a. TypeOK BY DEF RelaysInv, LockInv
<1>b. configs = 0
  <2>1. configs \in Nat BY <1>a, BoundsAssumption DEF TypeOK
  <2>2. configs' = configs \/ configs' = configs + 1
    BY DEF Dtu, RelayRead, ConfigStart, ConfigRead, DtuOpen, DtuClose,
           ConfigOpen, ConfigClose, DtuBoot, DefaultSave
  <2> QED BY <2>1, <2>2
<1>c. RelaysOnly BY <1>b DEF RelaysInv
<1>d. config # Torn BY <1>c, TornAssumption DEF RelaysOnly
<1>1. ASSUME NEW c \in Controllers, RelayRead(c) PROVE RelaysOnly'
  BY <1>1, <1>c DEF RelayRead, RelaysOnly, Settled
<1>2. CASE DtuOpen
  <2>1. wop.cmd = "relay" /\ lock = "free" /\ zpc # "close"
    BY <1>2, <1>c DEF DtuOpen, OpenLocked, RelaysOnly, RelaysInv, LockInv
  <2>2. wpc' = "close" /\ ~mixed' /\ UNCHANGED <<config, wop>>
    BY <1>2, <2>1 DEF DtuOpen, OpenLocked, Truncate, StreamOpen, Peer
  <2> QED BY <1>c, <2>1, <2>2 DEF RelaysOnly, Settled
<1>3. CASE DtuClose
  <2>1. wop.cmd = "relay" /\ ~mixed BY <1>3, <1>c DEF DtuClose, RelaysOnly
  <2>2. /\ file' = wcopy /\ ~mixed' /\ wpc' = "idle" /\ wop' = NoRequest
        /\ UNCHANGED config
    BY <1>3, <2>1 DEF DtuClose, Close, Left, AfterSave
  <2>3. file' # Torn BY <1>a, <2>2, TornAssumption DEF TypeOK
  <2> QED BY <1>c, <2>2, <2>3 DEF RelaysOnly, NoRequest
<1>4. CASE DtuBoot
  BY <1>4, <1>c, <1>d DEF DtuBoot, RelaysOnly, Settled
<1>5. CASE ConfigStart
  BY <1>5, <1>a, <1>b DEF ConfigStart, TypeOK
<1>6. CASE ConfigRead \/ ConfigOpen \/ ConfigClose \/ DefaultSave
  BY <1>6, <1>c DEF ConfigRead, ConfigOpen, ConfigClose, DefaultSave, RelaysOnly
<1> QED BY <1>1, <1>2, <1>3, <1>4, <1>5, <1>6 DEF Dtu

(* Nor does one of the Zigbee thread. *)
LEMMA ZigbeeRelays == ASSUME RelaysInv, Zigbee, configs' = 0 PROVE RelaysOnly'
<1> USE DEF dtuVars, ghostVars, sentVars, fileVars, Saving
<1>a. TypeOK BY DEF RelaysInv, LockInv
<1>b. UNCHANGED <<config, wop, wpc, configs>>
  BY DEF Zigbee, ZigbeeBoot, DrainNext, DrainEnd, DrainIdle, TurnOver,
         SendEntry, SendAgain, Write, Answer, NoAnswer, PollNext, PollEnd,
         ZigbeeOpen, ZigbeeClose
<1>c. RelaysOnly BY <1>b DEF RelaysInv
<1>d. config # Torn BY <1>c, TornAssumption DEF RelaysOnly
<1>1. CASE ZigbeeBoot
  BY <1>1, <1>b, <1>c, <1>d DEF ZigbeeBoot, RelaysOnly, Settled
<1>2. CASE ZigbeeOpen
  <2>1. wpc # "close"
    BY <1>2, <1>c DEF ZigbeeOpen, OpenLocked, RelaysOnly, RelaysInv, LockInv
  <2>2. zpc' = "close" /\ ~mixed'
    BY <1>2, <2>1 DEF ZigbeeOpen, OpenLocked, Truncate, StreamOpen, Peer
  <2> QED BY <1>b, <1>c, <2>2 DEF RelaysOnly, Settled
<1>3. CASE ZigbeeClose
  <2>1. file' = zcopy /\ ~mixed'
    BY <1>3, <1>c DEF ZigbeeClose, Close, Left, RelaysOnly
  <2>2. file' # Torn BY <1>a, <2>1, TornAssumption DEF TypeOK
  <2> QED BY <1>b, <1>c, <2>1, <2>2 DEF RelaysOnly
<1>4. CASE \/ DrainNext \/ DrainEnd \/ DrainIdle \/ SendEntry \/ SendAgain
           \/ Answer \/ NoAnswer \/ PollNext \/ PollEnd
  <2>1. /\ UNCHANGED <<file, mixed>>
        /\ zpc \in {"drain", "send", "answer", "poll"}
    BY <1>4 DEF DrainNext, DrainEnd, DrainIdle, TurnOver, SendEntry, SendAgain,
                Write, Answer, NoAnswer, PollNext, PollEnd
  <2> QED BY <1>b, <1>c, <2>1 DEF RelaysOnly, Settled
<1> QED BY <1>1, <1>2, <1>3, <1>4 DEF Zigbee

LEMMA RelaysStep == RelaysInv /\ [Next]_vars => RelaysInv'
<1> SUFFICES ASSUME RelaysInv, [Next]_vars PROVE RelaysInv' OBVIOUS
<1>a. LockInv' BY LockStep DEF RelaysInv
<1>1. CASE Restart
  BY <1>1, <1>a DEF Restart, RelaysInv, RelaysOnly, Settled, NoRequest, Saving
<1>2. CASE Spill
  BY <1>2, <1>a DEF Spill, RelaysInv, RelaysOnly, Settled, Saving, dtuVars,
                    zigbeeVars
<1>3. CASE UNCHANGED vars
  BY <1>3, <1>a DEF RelaysInv, RelaysOnly, Settled, Saving, vars, fileVars,
                    dtuVars, zigbeeVars
<1> QED BY <1>1, <1>2, <1>3, <1>a, DtuRelays, ZigbeeRelays DEF Next, RelaysInv

(* For any network, any number of relay commands, polls and power cycles:  *)
(* the relay commands alone never leave a file that cannot be parsed, for  *)
(* Save_Control_To_Json, Create_Sharemem_Json and Get_Controller_Json_Data *)
(* save under the mutex.  (The configuration commands, which do not take   *)
(* it, may.)                                                               *)
THEOREM RelaysReadable == Spec => []RelaysLeaveReadable
<1>1. Init => RelaysInv
  BY TypeInit
     DEF Init, RelaysInv, LockInv, RelaysOnly, Settled, NoRequest, Saving
<1>2. RelaysInv /\ [Next]_vars => RelaysInv' BY RelaysStep
<1>3. RelaysInv => RelaysLeaveReadable
  BY DEF RelaysInv, RelaysOnly, RelaysLeaveReadable
<1> QED BY <1>1, <1>2, <1>3, PTL DEF Spec

-----------------------------------------------------------------------------
(* One message per turn.  No array has two entries for a box, and a walk   *)
(* has still to come to boxes it has not been to in this turn.             *)

Distinct(q) == \A i, j \in DOMAIN q : q[i].id = q[j].id => i = j
Without(q, S) == \A i \in DOMAIN q : q[i].id \notin S

TurnInv ==
  /\ TypeOK
  /\ file # Torn => Distinct(file.controllercmd)
  /\ Distinct(wcopy.controllercmd) /\ Distinct(zcopy.controllercmd)
  /\ Distinct(cursor.rest) /\ Without(cursor.rest, served)
  /\ served # {} => cursor.walking
  /\ zpc = "send" => /\ cursor.walking /\ zentry.id \notin served
                     /\ Without(cursor.rest, {zentry.id})

(* A command goes to the entry of its box, or to a new one for it. *)
LEMMA AddCommandDistinct ==
  ASSUME NEW q \in Seq(Entry), NEW c \in Controllers, NEW t \in Command,
         Distinct(q)
  PROVE  Distinct(AddCommand(q, c, t))
<1> DEFINE r == AddCommand(q, c, t)
<1>a. DOMAIN q = 1..Len(q) /\ Len(q) \in Nat BY LenProperties
<1>b. \A i \in DOMAIN q : q[i] \in Entry BY ElementOfSeq, <1>a
<1>1. CASE \E i \in DOMAIN q : q[i].id = c
  <2>1. r = [i \in DOMAIN q |->
               IF q[i].id = c THEN [q[i] EXCEPT !.cmd = Append(@, t)]
                              ELSE q[i]]
    BY <1>1 DEF AddCommand
  <2>2. DOMAIN r = DOMAIN q /\ \A i \in DOMAIN q : r[i].id = q[i].id
    BY <2>1, <1>b DEF Entry
  <2> QED BY <2>2 DEF Distinct
<1>2. CASE ~\E i \in DOMAIN q : q[i].id = c
  <2> DEFINE e == [id |-> c, cmd |-> <<t>>]
  <2>1. r = Append(q, e) /\ e \in Entry BY <1>2 DEF AddCommand, Entry
  <2>a. e.id = c OBVIOUS
  <2>b. /\ DOMAIN r = 1..(Len(q) + 1) /\ r[Len(q) + 1] = e
        /\ \A i \in 1..Len(q) : r[i] = q[i]
    BY <2>1, AppendProperties, LenProperties
  <2>2. /\ DOMAIN r = 1..(Len(q) + 1) /\ r[Len(q) + 1].id = c
        /\ \A i \in DOMAIN q : r[i] = q[i]
    BY <1>a, <2>a, <2>b
  <2>3. \A i \in DOMAIN r : i \in DOMAIN q \/ i = Len(q) + 1 BY <1>a, <2>2
  <2> HIDE DEF r
  <2>4. Distinct(r) BY <1>2, <2>2, <2>3 DEF Distinct
  <2> QED BY <2>4 DEF r
<1> QED BY <1>1, <1>2

(* The entry a walk comes to is none of those behind it. *)
LEMMA RestDistinct ==
  ASSUME NEW q \in Seq(Entry), q # <<>>, Distinct(q), NEW S, Without(q, S)
  PROVE  /\ Distinct(Tail(q)) /\ Without(Tail(q), S)
         /\ Head(q).id \notin S /\ Without(Tail(q), {Head(q).id})
<1>1. /\ Len(q) \in Nat \ {0} /\ DOMAIN q = 1..Len(q)
      /\ Head(q) = q[1] /\ DOMAIN Tail(q) = 1..(Len(q) - 1)
      /\ \A i \in 1..(Len(q) - 1) : Tail(q)[i] = q[i + 1]
  BY EmptySeq, LenProperties, HeadTailProperties
<1>2. ASSUME NEW i \in DOMAIN Tail(q)
      PROVE  i + 1 \in DOMAIN q /\ i + 1 # 1 /\ Tail(q)[i] = q[i + 1]
  BY <1>1
<1>3. ASSUME NEW i \in DOMAIN Tail(q), NEW j \in DOMAIN Tail(q), i + 1 = j + 1
      PROVE  i = j
  BY <1>1, <1>3
<1>4. 1 \in DOMAIN q BY <1>1
<1> QED BY <1>1, <1>2, <1>3, <1>4 DEF Distinct, Without

LEMMA EmptyDistinct ==
  /\ Distinct(<<>>) /\ \A S : Without(<<>>, S)
  /\ EmptyRoot.controllercmd = <<>> /\ NoCursor.rest = <<>>
  /\ \A ids : FromConfig(ids).controllercmd = <<>>
  BY DEF Distinct, Without, EmptyRoot, NoCursor, FromConfig

(* Whatever the DTU thread saves has one entry for a box. *)
LEMMA DtuTurn == ASSUME TurnInv, Dtu PROVE TurnInv'
<1> USE DEF fileVars, zigbeeVars, ghostVars, sentVars
<1>a. TypeOK /\ TypeOK' BY TypeStep DEF TurnInv, Next
<1>b. UNCHANGED <<zcopy, cursor, zentry, zpc, served>>
  BY DEF Dtu, RelayRead, ConfigStart, ConfigRead, DtuOpen, DtuClose,
         ConfigOpen, ConfigClose, DtuBoot, DefaultSave
<1>c. ASSUME file' # Torn => Distinct(file'.controllercmd),
             Distinct(wcopy'.controllercmd)
      PROVE  TurnInv'
  BY <1>a, <1>b, <1>c DEF TurnInv
<1>1. ASSUME NEW c \in Controllers, RelayRead(c) PROVE TurnInv'
  <2>1. CASE file = Torn BY <1>1, <1>c, <2>1 DEF RelayRead, TurnInv
  <2>2. CASE file # Torn
    <3>1. file \in Root /\ file.controllercmd \in Seq(Entry)
      BY <1>a, <2>2 DEF TypeOK, Root
    <3>2. <<issued + 1, c>> \in Command
      BY <1>a, BoundsAssumption DEF TypeOK, Command
    <3>3. wcopy'.controllercmd
            = AddCommand(file.controllercmd, c, <<issued + 1, c>>)
      BY <1>1, <2>2, <3>1 DEF RelayRead, Root
    <3>4. Distinct(wcopy'.controllercmd)
      BY <2>2, <3>1, <3>2, <3>3, AddCommandDistinct DEF TurnInv
    <3>5. UNCHANGED file BY <1>1 DEF RelayRead
    <3> QED BY <1>c, <3>4, <3>5 DEF TurnInv
  <2> QED BY <2>1, <2>2
<1>2. CASE ConfigRead
  <2>1. UNCHANGED file BY <1>2 DEF ConfigRead
  <2>2. CASE UNCHANGED wcopy BY <1>c, <2>1, <2>2 DEF TurnInv
  <2>3. CASE file # Torn /\ wcopy' \in Edited(file)
    <3>1. file \in Root /\ wop \in Request BY <1>a, <2>3 DEF TypeOK
    <3>2. wcopy'.controllercmd = file.controllercmd
      BY <2>3, <3>1, EditedKeeps
    <3> QED BY <1>c, <2>1, <2>3, <3>2 DEF TurnInv
  <2> QED BY <1>2, <2>2, <2>3 DEF ConfigRead
<1>3. CASE DtuOpen
  BY <1>3, <1>c DEF DtuOpen, OpenLocked, OpenUnlocked, Truncate, TurnInv
<1>4. CASE DtuClose
  <2>1. file' \in {wcopy, file, Torn} /\ wcopy' = EmptyRoot
    BY <1>4 DEF DtuClose, Close, Left
  <2> QED BY <1>c, <2>1, EmptyDistinct DEF TurnInv
<1>5. CASE \/ ConfigStart \/ ConfigOpen \/ ConfigClose
           \/ DtuBoot \/ DefaultSave
  <2>1. UNCHANGED <<file, wcopy>>
    BY <1>5 DEF ConfigStart, ConfigOpen, ConfigClose, DtuBoot, DefaultSave
  <2> QED BY <1>c, <2>1 DEF TurnInv
<1> QED BY <1>1, <1>2, <1>3, <1>4, <1>5 DEF Dtu

(* The walk comes to no box twice in a turn of the loop. *)
LEMMA ZigbeeTurn == ASSUME TurnInv, Zigbee PROVE TurnInv'
<1> USE DEF fileVars, dtuVars, ghostVars, sentVars
<1>a. TypeOK /\ TypeOK' BY TypeStep DEF TurnInv, Next
<1>b. wcopy' = wcopy
  BY DEF Zigbee, ZigbeeBoot, DrainNext, DrainEnd, DrainIdle, TurnOver,
         SendEntry, SendAgain, Write, Answer, NoAnswer, PollNext, PollEnd,
         ZigbeeOpen, ZigbeeClose
<1>1. CASE ZigbeeBoot
  <2>1. /\ UNCHANGED <<file, cursor, served>> /\ zpc' # "send"
        /\ zcopy' = zcopy \/ zcopy' = FromConfig(config)
    BY <1>1 DEF ZigbeeBoot
  <2> QED BY <1>a, <1>b, <2>1, EmptyDistinct DEF TurnInv
<1>2. CASE DrainNext
  <2>1. /\ UNCHANGED <<file, zcopy, served>> /\ Walk # <<>>
        /\ zentry' = Head(Walk) /\ cursor'.rest = Tail(Walk) /\ cursor'.walking
    BY <1>2 DEF DrainNext
  <2>2. Walk \in Seq(Entry) BY <1>a, WalkType
  <2>3. Distinct(Walk) /\ Without(Walk, served)
    <3>1. CASE cursor.walking BY <3>1 DEF Walk, TurnInv
    <3>2. CASE ~cursor.walking
      <4>1. served = {} BY <3>2 DEF TurnInv
      <4>2. file # Torn /\ Walk = file.controllercmd
        BY <2>1, <3>2 DEF Walk, Waiting
      <4> QED BY <4>1, <4>2 DEF TurnInv, Without
    <3> QED BY <3>1, <3>2
  <2>4. /\ Distinct(Tail(Walk)) /\ Without(Tail(Walk), served)
        /\ Head(Walk).id \notin served /\ Without(Tail(Walk), {Head(Walk).id})
    BY <2>1, <2>2, <2>3, RestDistinct
  <2> QED BY <1>a, <1>b, <2>1, <2>4 DEF TurnInv
<1>3. CASE DrainEnd
  <2>1. /\ UNCHANGED file /\ cursor' = NoCursor /\ served' = {}
        /\ zpc' = "save" /\ zcopy' = [file EXCEPT !.controllercmd = <<>>]
        /\ file # Torn
    BY <1>3 DEF DrainEnd, TurnOver, Waiting
  <2>2. zcopy'.controllercmd = <<>> BY <1>a, <2>1 DEF TypeOK, Root
  <2> QED BY <1>a, <1>b, <2>1, <2>2, EmptyDistinct DEF TurnInv
<1>4. CASE DrainIdle
  <2>1. UNCHANGED <<file, zcopy, cursor>> /\ served' = {} /\ zpc' = "poll"
    BY <1>4 DEF DrainIdle, TurnOver
  <2> QED BY <1>a, <1>b, <2>1 DEF TurnInv, Without
<1>5. CASE SendEntry
  <2>1. /\ UNCHANGED <<file, zcopy, cursor>> /\ zpc = "send" /\ zpc' = "answer"
        /\ served' = served \union {zentry.id}
    BY <1>5 DEF SendEntry, Write
  <2> QED BY <1>a, <1>b, <2>1 DEF TurnInv, Without
<1>6. CASE Answer
  <2>1. /\ UNCHANGED <<file, cursor, served>> /\ zpc' = "save"
        /\ zcopy' \in Recorded(ReadOrEmpty)
    BY <1>6 DEF Answer
  <2>2. ReadOrEmpty \in Root BY <1>a, EmptyRootType DEF ReadOrEmpty, TypeOK
  <2>3. zcopy'.controllercmd = ReadOrEmpty.controllercmd
    BY <2>1, <2>2, RecordedKeeps
  <2> QED BY <1>a, <1>b, <2>1, <2>3, EmptyDistinct DEF TurnInv, ReadOrEmpty
<1>7. CASE ZigbeeOpen
  <2>1. UNCHANGED <<zcopy, cursor, served>> /\ zpc' = "close" /\ file' = Torn
    BY <1>7 DEF ZigbeeOpen, OpenLocked, Truncate
  <2> QED BY <1>a, <1>b, <2>1 DEF TurnInv
<1>8. CASE ZigbeeClose
  <2>1. /\ UNCHANGED <<cursor, served>> /\ zpc' # "send"
        /\ file' \in {zcopy, file, Torn} /\ zcopy' = EmptyRoot
    BY <1>8 DEF ZigbeeClose, Close, Left, Resume
  <2> QED BY <1>a, <1>b, <2>1, EmptyDistinct DEF TurnInv
<1>9. CASE SendAgain \/ NoAnswer \/ PollNext \/ PollEnd
  <2>1. UNCHANGED <<file, zcopy, cursor, served>> /\ zpc' # "send"
    BY <1>9 DEF SendAgain, Write, NoAnswer, PollNext, PollEnd, Resume
  <2> QED BY <1>a, <1>b, <2>1 DEF TurnInv
<1> QED BY <1>1, <1>2, <1>3, <1>4, <1>5, <1>6, <1>7, <1>8, <1>9 DEF Zigbee

LEMMA TurnStep == TurnInv /\ [Next]_vars => TurnInv'
<1> SUFFICES ASSUME TurnInv, [Next]_vars PROVE TurnInv' OBVIOUS
<1>a. TypeOK' BY TypeStep DEF TurnInv
<1>1. CASE Restart
  BY <1>1, <1>a, EmptyDistinct DEF Restart, TurnInv
<1>2. CASE Spill
  BY <1>2, <1>a DEF Spill, TurnInv, dtuVars, zigbeeVars, ghostVars, sentVars
<1>3. CASE UNCHANGED vars
  BY <1>3, <1>a DEF TurnInv, vars, fileVars, dtuVars, zigbeeVars, ghostVars,
                    sentVars
<1> QED BY <1>1, <1>2, <1>3, DtuTurn, ZigbeeTurn DEF Next

(* For any number of boxes and however fast the web adds commands, also    *)
(* while saves race: a turn of the Zigbee loop sends a box one message at  *)
(* most, so that no turn holds more messages than there are boxes and the  *)
(* polls get their time (Get_Controller_Json_Data walks a snapshot).       *)
THEOREM OneMessageEach == Spec => OneMessagePerTurn
<1>1. Init => TurnInv
  BY TypeInit, EmptyDistinct DEF Init, TurnInv
<1>2. TurnInv /\ [Next]_vars => TurnInv' BY TurnStep
<1>3. TurnInv => ((zpc = "send" /\ zpc' = "answer") => zentry.id \notin served)
  BY DEF TurnInv
<1>4. TurnInv /\ [Next]_vars
        => [(zpc = "send" /\ zpc' = "answer") => zentry.id \notin served]_vars
  BY <1>3
<1> QED BY <1>1, <1>2, <1>4, PTL DEF Spec, OneMessagePerTurn

-----------------------------------------------------------------------------
(* Without races.  The first invariant says of every command that has been *)
(* echoed that it is in the file and in every private tree that may still  *)
(* be saved over it, unless it has been executed; and, of a walk whose     *)
(* snapshot is still what the file holds, that the walk has yet to come to *)
(* it.                                                                     *)

(* The command has been written to a relay box. *)
Executed(t) ==
  \E c \in Controllers : \E i \in DOMAIN executed[c] : executed[c][i] = t

SafeIn(t, q) == t \in Among(q) \/ Executed(t)

(* What is left of the walk. *)
ToWalk(t) ==
  \/ t \in Among(cursor.rest)
  \/ zpc = "send" /\ t \in Among(<<zentry>>)
  \/ Executed(t)

SafeInFile == \A t \in acked : file # Torn => SafeIn(t, file.controllercmd)
SafeInDtu ==
  Saving(wpc) /\ fresh["dtu"] => \A t \in acked : SafeIn(t, wcopy.controllercmd)
SafeInZigbee ==
  Saving(zpc) /\ fresh["zigbee"] =>
    \A t \in acked : SafeIn(t, zcopy.controllercmd)
SafeInWalk ==
  cursor.walking /\ fresh["snapshot"] => \A t \in acked : ToWalk(t)
TornBySaver ==
  acked # {} /\ file = Torn => \/ wpc = "close" /\ fresh["dtu"]
                               \/ zpc = "close" /\ fresh["zigbee"]
PendingSaved ==
  /\ Saving(wpc) /\ wop.cmd = "relay" =>
       Pending \in Among(wcopy.controllercmd)
  /\ wpc \in {"read", "cfgopen", "cfgclose"} => wop.cmd # "relay"

(* Two streams on the file are a race. *)
MixedRaces == mixed => raced

LossInv ==
  /\ TypeOK
  /\ MixedRaces /\ PendingSaved
  /\ ~raced => /\ SafeInFile /\ SafeInDtu /\ SafeInZigbee /\ SafeInWalk
               /\ TornBySaver

-----------------------------------------------------------------------------
(* Lemmas on the array of pending commands. *)

(* A command is among those of an array when an entry has it. *)
LEMMA AmongIs ==
  ASSUME NEW q, NEW t
  PROVE  t \in Among(q) <=>
           \E i \in DOMAIN q : \E j \in DOMAIN q[i].cmd : q[i].cmd[j] = t
  BY DEF Among

(* Where the elements of a longer sequence are. *)
LEMMA AppendAt ==
  ASSUME NEW S, NEW s \in Seq(S), NEW e \in S
  PROVE  /\ \A j \in DOMAIN s :
              j \in DOMAIN Append(s, e) /\ Append(s, e)[j] = s[j]
         /\ Len(s) + 1 \in DOMAIN Append(s, e)
         /\ Append(s, e)[Len(s) + 1] = e
<1>1. Len(s) \in Nat /\ DOMAIN s = 1..Len(s) BY LenProperties
<1>2. /\ Append(s, e) \in Seq(S) /\ Len(Append(s, e)) = Len(s) + 1
      /\ \A j \in 1..Len(s) : Append(s, e)[j] = s[j]
      /\ Append(s, e)[Len(s) + 1] = e
  BY AppendProperties
<1>3. DOMAIN Append(s, e) = 1..(Len(s) + 1) BY <1>2, LenProperties
<1> QED BY <1>1, <1>2, <1>3

LEMMA ConcatAt ==
  ASSUME NEW S, NEW s \in Seq(S), NEW r \in Seq(S)
  PROVE  /\ \A j \in DOMAIN s : j \in DOMAIN (s \o r) /\ (s \o r)[j] = s[j]
         /\ \A j \in DOMAIN r : /\ Len(s) + j \in DOMAIN (s \o r)
                                /\ (s \o r)[Len(s) + j] = r[j]
<1>1. /\ Len(s) \in Nat /\ DOMAIN s = 1..Len(s)
      /\ Len(r) \in Nat /\ DOMAIN r = 1..Len(r)
  BY LenProperties
<1>2. /\ s \o r \in Seq(S) /\ Len(s \o r) = Len(s) + Len(r)
      /\ \A i \in 1..(Len(s) + Len(r)) :
           (s \o r)[i] = IF i <= Len(s) THEN s[i] ELSE r[i - Len(s)]
  BY ConcatProperties
<1>3. DOMAIN (s \o r) = 1..(Len(s) + Len(r)) BY <1>2, LenProperties
<1>4. ASSUME NEW j \in DOMAIN r
      PROVE  /\ Len(s) + j \in 1..(Len(s) + Len(r))
             /\ ~(Len(s) + j <= Len(s)) /\ (Len(s) + j) - Len(s) = j
  BY <1>1
<1>5. ASSUME NEW j \in DOMAIN s
      PROVE  j \in 1..(Len(s) + Len(r)) /\ j <= Len(s)
  BY <1>1
<1> QED BY <1>2, <1>3, <1>4, <1>5

(* Where there is no entry there is no command. *)
LEMMA EmptyAmong ==
  ASSUME NEW t
  PROVE  t \notin Among(<<>>) /\ t \notin Among(<<NoEntry>>)
  BY AmongIs DEF NoEntry

(* Appending a command keeps those that wait, and it waits with them. *)
LEMMA AddCommandKeeps ==
  ASSUME NEW q \in Seq(Entry), NEW c \in Controllers, NEW t \in Command,
         NEW u, u \in Among(q) \/ u = t
  PROVE  u \in Among(AddCommand(q, c, t))
<1> DEFINE r == AddCommand(q, c, t)
<1>a. DOMAIN q = 1..Len(q) /\ Len(q) \in Nat BY LenProperties
<1>b. \A i \in DOMAIN q : q[i] \in Entry BY ElementOfSeq, <1>a
<1>1. CASE \E i \in DOMAIN q : q[i].id = c
  <2>1. r = [i \in DOMAIN q |->
               IF q[i].id = c THEN [q[i] EXCEPT !.cmd = Append(@, t)]
                              ELSE q[i]]
    BY <1>1 DEF AddCommand
  <2>2. ASSUME NEW i \in DOMAIN q, q[i].id = c
        PROVE  /\ r[i].cmd = Append(q[i].cmd, t)
               /\ q[i].cmd \in Seq(Command)
    BY <2>1, <2>2, <1>b DEF Entry
  <2>3. ASSUME NEW i \in DOMAIN q, q[i].id # c PROVE r[i] = q[i]
    BY <2>1, <2>3
  <2>4. ASSUME NEW i \in DOMAIN q, NEW j \in DOMAIN q[i].cmd
        PROVE  j \in DOMAIN r[i].cmd /\ r[i].cmd[j] = q[i].cmd[j]
    <3>1. CASE q[i].id = c
      BY <3>1, <2>2, AppendAt
    <3>2. CASE q[i].id # c BY <3>2, <2>3
    <3> QED BY <3>1, <3>2
  <2>5. CASE u \in Among(q)
    <3>1. PICK i \in DOMAIN q : \E j \in DOMAIN q[i].cmd : q[i].cmd[j] = u
      BY <2>5, AmongIs
    <3>2. i \in DOMAIN r /\ \E j \in DOMAIN r[i].cmd : r[i].cmd[j] = u
      BY <3>1, <2>1, <2>4
    <3> QED BY <3>2, AmongIs
  <2>6. CASE u = t
    <3>1. PICK i \in DOMAIN q : q[i].id = c BY <1>1
    <3>2. /\ Len(q[i].cmd) + 1 \in DOMAIN r[i].cmd
          /\ r[i].cmd[Len(q[i].cmd) + 1] = t
      BY <3>1, <2>2, AppendAt
    <3>3. i \in DOMAIN r BY <2>1
    <3> QED BY <2>6, <3>2, <3>3, AmongIs
  <2> QED BY <2>5, <2>6
<1>2. CASE ~\E i \in DOMAIN q : q[i].id = c
  <2> DEFINE e == [id |-> c, cmd |-> <<t>>]
  <2>1. r = Append(q, e) BY <1>2 DEF AddCommand
  <2>2. /\ DOMAIN r = 1..(Len(q) + 1) /\ r[Len(q) + 1] = e
        /\ \A i \in 1..Len(q) : r[i] = q[i]
    <3>1. <<t>> \in Seq(Command) OBVIOUS
    <3>2. e \in Entry BY <3>1 DEF Entry
    <3> QED BY <2>1, <3>2, AppendProperties, LenProperties
  <2>3. CASE u \in Among(q)
    <3>1. PICK i \in DOMAIN q : \E j \in DOMAIN q[i].cmd : q[i].cmd[j] = u
      BY <2>3, AmongIs
    <3>2. i \in DOMAIN r /\ r[i] = q[i] BY <1>a, <2>2
    <3> QED BY <3>1, <3>2, AmongIs
  <2>4. CASE u = t
    <3>1. Len(q) + 1 \in DOMAIN r BY <1>a, <2>2
    <3>2. 1 \in DOMAIN e.cmd /\ e.cmd[1] = t OBVIOUS
    <3> QED BY <2>2, <2>4, <3>1, <3>2, AmongIs
  <2> QED BY <2>3, <2>4
<1> QED BY <1>1, <1>2

(* Taking an entry off an array loses no command. *)
LEMMA HeadTailAmong ==
  ASSUME NEW q \in Seq(Entry), q # <<>>, NEW t \in Among(q)
  PROVE  t \in Among(<<Head(q)>>) \/ t \in Among(Tail(q))
<1>1. /\ Len(q) \in Nat \ {0} /\ DOMAIN q = 1..Len(q)
      /\ Head(q) = q[1] /\ DOMAIN Tail(q) = 1..(Len(q) - 1)
      /\ \A i \in 1..(Len(q) - 1) : Tail(q)[i] = q[i + 1]
  BY EmptySeq, LenProperties, HeadTailProperties
<1>2. PICK i \in DOMAIN q : \E j \in DOMAIN q[i].cmd : q[i].cmd[j] = t
  BY AmongIs
<1>3. CASE i = 1
  <2>1. 1 \in DOMAIN <<Head(q)>> /\ <<Head(q)>>[1] = q[i] BY <1>1, <1>3
  <2> QED BY <1>2, <2>1, AmongIs
<1>4. CASE i # 1
  <2>1. i - 1 \in DOMAIN Tail(q) /\ Tail(q)[i - 1] = q[i] BY <1>1, <1>4
  <2> QED BY <1>2, <2>1, AmongIs
<1> QED BY <1>3, <1>4

(* What is sent has been executed, and what was executed stays so. *)
LEMMA SendExecutes ==
  ASSUME TypeOK, Write, NEW t, Executed(t) \/ t \in Among(<<zentry>>)
  PROVE  Executed(t)'
<1>a. zentry.cmd \in Seq(Command) BY EntryCmd DEF TypeOK
<1>b. executed \in [Controllers -> Seq(Command)] BY DEF TypeOK
<1>c. executed' = [executed EXCEPT ![zentry.id] = @ \o zentry.cmd]
  BY DEF Write
<1>1. ASSUME NEW c \in Controllers, NEW i \in DOMAIN executed[c]
      PROVE  i \in DOMAIN executed'[c] /\ executed'[c][i] = executed[c][i]
  <2>1. CASE c # zentry.id BY <2>1, <1>b, <1>c
  <2>2. CASE c = zentry.id
    <3>1. executed'[c] = executed[c] \o zentry.cmd BY <2>2, <1>b, <1>c
    <3>2. executed[c] \in Seq(Command) BY <1>b
    <3>3. \A j \in DOMAIN executed[c] :
            /\ j \in DOMAIN (executed[c] \o zentry.cmd)
            /\ (executed[c] \o zentry.cmd)[j] = executed[c][j]
      BY <1>a, <3>2, ConcatAt
    <3> QED BY <3>1, <3>3
  <2> QED BY <2>1, <2>2
<1>2. CASE Executed(t) BY <1>1, <1>2 DEF Executed
<1>3. CASE t \in Among(<<zentry>>)
  <2>1. PICK j \in DOMAIN zentry.cmd : zentry.cmd[j] = t BY <1>3, AmongIs
  <2>2. zentry.id \in Controllers
    BY <2>1 DEF TypeOK, Entry, NoEntry
  <2>3. PICK c \in Controllers : c = zentry.id BY <2>2
  <2>4. executed[c] \in Seq(Command) /\ executed'[c] = executed[c] \o zentry.cmd
    BY <2>3, <1>b, <1>c
  <2> DEFINE p == executed[c]
             q == zentry.cmd
  <2>5. p \in Seq(Command) /\ q \in Seq(Command) /\ j \in DOMAIN q
    BY <1>a, <2>1, <2>4
  <2> HIDE DEF p, q
  <2>6. Len(p) + j \in DOMAIN (p \o q) /\ (p \o q)[Len(p) + j] = q[j]
    BY <2>5, ConcatAt
  <2>7. /\ Len(executed[c]) + j \in DOMAIN executed'[c]
        /\ executed'[c][Len(executed[c]) + j] = t
    BY <2>1, <2>4, <2>6 DEF p, q
  <2> QED BY <2>7 DEF Executed
<1> QED BY <1>2, <1>3
-----------------------------------------------------------------------------
(* The steps. *)

(* A race is not forgotten by the threads. *)
LEMMA RacedStays == ASSUME Dtu \/ Zigbee, ~raced' PROVE ~raced
  BY DEF Dtu, RelayRead, ConfigStart, ConfigRead, DtuOpen, DtuClose, ConfigOpen,
         ConfigClose, DtuBoot, DefaultSave, Zigbee, ZigbeeBoot, DrainNext,
         DrainEnd, DrainIdle, SendEntry, SendAgain, Write, TurnOver, Answer,
         NoAnswer, PollNext, PollEnd, ZigbeeOpen, ZigbeeClose, OpenLocked,
         OpenUnlocked, Truncate, Close, ghostVars, sentVars

LEMMA MixedStep == ASSUME MixedRaces, [Next]_vars PROVE MixedRaces'
<1> USE DEF MixedRaces, fileVars, dtuVars, zigbeeVars, ghostVars, sentVars
<1>1. CASE Dtu
  BY <1>1 DEF Dtu, RelayRead, ConfigStart, ConfigRead, DtuOpen, DtuClose,
              ConfigOpen, ConfigClose, DtuBoot, DefaultSave, OpenLocked,
              OpenUnlocked, Truncate, Close
<1>2. CASE Zigbee
  BY <1>2 DEF Zigbee, ZigbeeBoot, DrainNext, DrainEnd, DrainIdle, TurnOver,
              SendEntry, SendAgain, Write, Answer, NoAnswer, PollNext, PollEnd,
              ZigbeeOpen, ZigbeeClose, OpenLocked, Truncate, Close
<1>3. CASE Spill \/ Restart BY <1>3 DEF Spill, Restart
<1>4. CASE UNCHANGED vars BY <1>4 DEF vars
<1> QED BY <1>1, <1>2, <1>3, <1>4 DEF Next

(* What a stream that was alone on the file leaves there. *)
LEMMA CleanClose ==
  ASSUME MixedRaces, NEW p, NEW root, Close(p, root), ~raced'
  PROVE  file' = root
  BY DEF MixedRaces, Close, Left

(* The DTU thread: its copy is made of the file as it is and, when it is   *)
(* saved without a race, becomes the file.                                 *)
LEMMA DtuLoss == ASSUME LossInv, Dtu PROVE LossInv'
<1>a. TypeOK /\ TypeOK' /\ MixedRaces'
  BY TypeStep, MixedStep DEF LossInv, Next
<1>b. UNCHANGED <<zcopy, cursor, zentry, zpc, executed>>
  BY DEF Dtu, RelayRead, ConfigStart, ConfigRead, DtuOpen, DtuClose, ConfigOpen,
         ConfigClose, DtuBoot, DefaultSave, zigbeeVars, ghostVars, sentVars
<1>c. \A t : Executed(t)' <=> Executed(t) BY <1>b DEF Executed
<1>d. fresh \in [Thread \union {"snapshot"} -> BOOLEAN]
  BY <1>a DEF TypeOK
<1> USE DEF fileVars, zigbeeVars, ghostVars, sentVars, Saving
<1>r. ~raced' => ~raced BY RacedStays
<1>z. UNCHANGED <<acked, fresh>> =>
        (SafeInZigbee => SafeInZigbee') /\ (SafeInWalk => SafeInWalk')
  BY <1>b, <1>c DEF SafeInZigbee, SafeInWalk, ToWalk, SafeIn
<1>1. ASSUME NEW c \in Controllers, RelayRead(c) PROVE LossInv'
  <2>1. CASE file = Torn
    BY <1>1, <1>a, <2>1 DEF RelayRead, LossInv, PendingSaved, Pending
  <2>2. CASE file # Torn
    <3> DEFINE t == <<issued + 1, c>>
    <3>1. file \in Root /\ file.controllercmd \in Seq(Entry)
      BY <1>a, <2>2 DEF TypeOK, Root
    <3>2. t \in Command BY <1>a, BoundsAssumption DEF TypeOK, Command
    <3>3. /\ wcopy'.controllercmd = AddCommand(file.controllercmd, c, t)
          /\ Pending' = t /\ UNCHANGED <<acked, file, raced>>
          /\ wpc' = "save" /\ wpc = "idle"
          /\ fresh' = [fresh EXCEPT !["dtu"] = TRUE]
      BY <1>1, <2>2, <3>1 DEF RelayRead, Pending, Root
    <3>4. \A u : u \in Among(file.controllercmd) \/ u = t =>
                u \in Among(wcopy'.controllercmd)
      BY <3>1, <3>2, <3>3, AddCommandKeeps
    <3>5. PendingSaved' BY <3>3, <3>4 DEF PendingSaved
    <3>6. /\ fresh'["zigbee"] = fresh["zigbee"]
          /\ fresh'["snapshot"] = fresh["snapshot"]
      BY <1>d, <3>3 DEF Thread
    <3>7. ASSUME ~raced
          PROVE  /\ SafeInFile' /\ SafeInDtu' /\ SafeInZigbee' /\ SafeInWalk'
                 /\ TornBySaver'
      <4>1. SafeInFile' BY <1>c, <3>3, <3>7 DEF LossInv, SafeInFile, SafeIn
      <4>2. SafeInDtu'
        BY <1>c, <2>2, <3>3, <3>4, <3>7
           DEF LossInv, SafeInFile, SafeInDtu, SafeIn
      <4>3. SafeInZigbee'
        BY <1>b, <1>c, <3>3, <3>6, <3>7 DEF LossInv, SafeInZigbee, SafeIn
      <4>4. SafeInWalk'
        BY <1>b, <1>c, <3>3, <3>6, <3>7 DEF LossInv, SafeInWalk, ToWalk
      <4>5. TornBySaver' BY <2>2, <3>3 DEF TornBySaver
      <4> QED BY <4>1, <4>2, <4>3, <4>4, <4>5
    <3> QED BY <1>a, <3>3, <3>5, <3>7 DEF LossInv
  <2> QED BY <2>1, <2>2
<1>2. CASE ConfigRead
  <2>1. CASE raced'
    <3>1. PendingSaved'
      BY <1>2, <2>1 DEF ConfigRead, LossInv, PendingSaved, AfterSave, NoRequest
    <3> QED BY <1>a, <2>1, <3>1 DEF LossInv
  <2>2. CASE ~raced'
    <3>1. /\ file # Torn /\ wcopy' \in Edited(file) /\ wpc' = "save"
          /\ fresh' = [fresh EXCEPT !["dtu"] = TRUE] /\ wpc = "read"
          /\ UNCHANGED <<wop, raced, file, acked, issued>>
      BY <1>2, <2>2 DEF ConfigRead
    <3>2. file \in Root /\ wop \in Request BY <1>a, <3>1 DEF TypeOK
    <3>3. wcopy'.controllercmd = file.controllercmd
      BY <3>1, <3>2, EditedKeeps
    <3>4. PendingSaved' BY <3>1 DEF LossInv, PendingSaved
    <3>5. /\ fresh'["zigbee"] = fresh["zigbee"]
          /\ fresh'["snapshot"] = fresh["snapshot"]
      BY <1>d, <3>1 DEF Thread
    <3>6. SafeInFile' BY <1>c, <2>2, <3>1 DEF LossInv, SafeInFile, SafeIn
    <3>7. SafeInDtu'
      BY <1>c, <2>2, <3>1, <3>3 DEF LossInv, SafeInFile, SafeInDtu, SafeIn
    <3>8. SafeInZigbee'
      BY <1>b, <1>c, <2>2, <3>1, <3>5 DEF LossInv, SafeInZigbee, SafeIn
    <3>9. SafeInWalk'
      BY <1>b, <1>c, <2>2, <3>1, <3>5 DEF LossInv, SafeInWalk, ToWalk
    <3>10. TornBySaver' BY <3>1 DEF TornBySaver
    <3> QED BY <1>a, <3>4, <3>6, <3>7, <3>8, <3>9, <3>10 DEF LossInv
  <2> QED BY <2>1, <2>2
<1>3. CASE DtuOpen
  <2>1. /\ wpc = "save" /\ wpc' = "close" /\ file' = Torn
        /\ raced' = (raced \/ ~fresh["dtu"] \/ mixed')
        /\ UNCHANGED <<fresh, acked, wop, wcopy, issued>>
    BY <1>3 DEF DtuOpen, OpenLocked, OpenUnlocked, Truncate
  <2>2. PendingSaved' BY <2>1 DEF LossInv, PendingSaved, Pending
  <2>3. ASSUME ~raced'
        PROVE  /\ SafeInFile' /\ SafeInDtu' /\ SafeInZigbee' /\ SafeInWalk'
               /\ TornBySaver'
    <3>1. ~raced /\ fresh["dtu"] BY <2>1, <2>3
    <3>2. SafeInFile' BY <2>1 DEF SafeInFile
    <3>3. SafeInDtu' BY <1>c, <2>1, <3>1 DEF LossInv, SafeInDtu, SafeIn
    <3>4. SafeInZigbee' /\ SafeInWalk' BY <1>z, <2>1, <3>1 DEF LossInv
    <3>5. TornBySaver' BY <2>1, <3>1 DEF TornBySaver
    <3> QED BY <3>2, <3>3, <3>4, <3>5
  <2> QED BY <1>a, <2>2, <2>3 DEF LossInv
<1>4. CASE DtuClose
  <2>1. /\ wpc = "close" /\ wpc' = AfterSave
        /\ raced' = (raced \/ ~fresh["dtu"])
        /\ fresh' = [fresh EXCEPT !["zigbee"] = FALSE, !["snapshot"] = FALSE]
        /\ acked' \subseteq acked \union {Pending}
        /\ wop.cmd # "relay" => acked' = acked
        /\ wop' = IF AfterSave = "idle" THEN NoRequest ELSE wop
    BY <1>4 DEF DtuClose, Close, Peer
  <2>2. PendingSaved' BY <2>1 DEF PendingSaved, AfterSave
  <2>3. ASSUME ~raced'
        PROVE  /\ SafeInFile' /\ SafeInDtu' /\ SafeInZigbee' /\ SafeInWalk'
               /\ TornBySaver'
    <3>0. file' = wcopy BY <1>4, <2>3, CleanClose DEF DtuClose, LossInv
    <3>1. ~raced /\ fresh["dtu"] BY <2>1, <2>3
    <3>2. ~fresh'["zigbee"] /\ ~fresh'["snapshot"] BY <1>d, <2>1 DEF Thread
    <3>3. SafeInFile'
      BY <1>c, <2>1, <3>0, <3>1
         DEF LossInv, SafeInFile, SafeInDtu, SafeIn, PendingSaved
    <3>4. ~Saving(wpc') BY <2>1 DEF AfterSave
    <3>5. wcopy # Torn BY <1>a, TornAssumption DEF TypeOK
    <3> QED BY <2>1, <3>0, <3>2, <3>3, <3>4, <3>5
            DEF SafeInDtu, SafeInZigbee, SafeInWalk, TornBySaver
  <2> QED BY <1>a, <2>2, <2>3 DEF LossInv
<1>5. CASE \/ ConfigStart \/ ConfigOpen \/ ConfigClose
           \/ DtuBoot \/ DefaultSave
  <2>1. /\ UNCHANGED <<file, acked, fresh, raced>>
        /\ wpc \notin {"save", "close"} /\ wpc' \notin {"save", "close"}
    BY <1>5 DEF ConfigStart, ConfigOpen, ConfigClose, DtuBoot, DefaultSave,
                AfterSave
  <2>2. PendingSaved'
    BY <1>5, <2>1 DEF ConfigStart, ConfigOpen, ConfigClose, DtuBoot,
                      DefaultSave, LossInv, PendingSaved, NoRequest
  <2>3. ASSUME ~raced
        PROVE  /\ SafeInFile' /\ SafeInDtu' /\ SafeInZigbee' /\ SafeInWalk'
               /\ TornBySaver'
    <3>1. SafeInFile' BY <1>c, <2>1, <2>3 DEF LossInv, SafeInFile, SafeIn
    <3>2. SafeInDtu' BY <2>1 DEF SafeInDtu
    <3>3. SafeInZigbee' /\ SafeInWalk' BY <1>z, <2>1, <2>3 DEF LossInv
    <3>4. TornBySaver' BY <1>b, <2>1, <2>3 DEF LossInv, TornBySaver
    <3> QED BY <3>1, <3>2, <3>3, <3>4
  <2> QED BY <1>a, <2>1, <2>2, <2>3 DEF LossInv
<1> QED BY <1>1, <1>2, <1>3, <1>4, <1>5 DEF Dtu

(* The Zigbee thread: a walk that began with the array of the file comes   *)
(* to every entry of it before the array is dropped.                       *)
LEMMA ZigbeeLoss == ASSUME LossInv, Zigbee PROVE LossInv'
<1>a. TypeOK /\ TypeOK' /\ MixedRaces'
  BY TypeStep, MixedStep DEF LossInv, Next
<1>b. UNCHANGED <<wpc, wop, wcopy, issued, acked>>
  BY DEF Zigbee, ZigbeeBoot, DrainNext, DrainEnd, DrainIdle, SendEntry,
         SendAgain, Write, TurnOver, Answer, NoAnswer, PollNext, PollEnd,
         ZigbeeOpen, ZigbeeClose, dtuVars, ghostVars, sentVars
<1>c. PendingSaved' BY <1>b DEF LossInv, PendingSaved, Pending
<1>d. fresh \in [Thread \union {"snapshot"} -> BOOLEAN]
  BY <1>a DEF TypeOK
<1>e. executed' = executed => \A t : Executed(t)' <=> Executed(t)
  BY DEF Executed
<1> USE DEF fileVars, dtuVars, ghostVars, sentVars, Saving
<1> DEFINE Kept == /\ SafeInFile' /\ SafeInDtu' /\ SafeInZigbee' /\ SafeInWalk'
                   /\ TornBySaver'
<1>r. ~raced' =>
        ~raced /\ SafeInFile /\ SafeInDtu /\ SafeInZigbee /\ SafeInWalk
               /\ TornBySaver
  BY RacedStays DEF LossInv
<1>f. ASSUME SafeInFile, file' = file, executed' = executed PROVE SafeInFile'
  BY <1>b, <1>e, <1>f DEF SafeInFile, SafeIn
<1>g. ASSUME SafeInDtu, fresh'["dtu"] = fresh["dtu"], executed' = executed
      PROVE  SafeInDtu'
  BY <1>b, <1>e, <1>g DEF SafeInDtu, SafeIn
<1>h. ASSUME SafeInWalk, fresh'["snapshot"] = fresh["snapshot"],
             executed' = executed, cursor' = cursor, zpc # "send"
      PROVE  SafeInWalk'
  BY <1>b, <1>e, <1>h DEF SafeInWalk, ToWalk
<1>i. ASSUME TornBySaver, file' = file, zpc # "close",
             fresh'["dtu"] = fresh["dtu"]
      PROVE  TornBySaver'
  BY <1>b, <1>i DEF TornBySaver
<1>1. ASSUME ZigbeeBoot, ~raced' PROVE Kept
  <2>1. /\ zpc = "boot" /\ zpc' = "save"
        /\ fresh' = [fresh EXCEPT !["zigbee"] = (acked = {} /\ wpc = "idle")]
        /\ UNCHANGED <<file, cursor, executed>>
    BY <1>1 DEF ZigbeeBoot
  <2>2. /\ fresh'["dtu"] = fresh["dtu"]
        /\ fresh'["snapshot"] = fresh["snapshot"]
        /\ fresh'["zigbee"] => acked = {}
    BY <1>d, <2>1 DEF Thread
  <2>3. SafeInZigbee' BY <1>b, <2>2 DEF SafeInZigbee
  <2> QED BY <1>1, <1>r, <1>f, <1>g, <1>h, <1>i, <2>1, <2>2, <2>3
<1>2. ASSUME DrainNext, ~raced' PROVE Kept
  <2>1. /\ zpc = "drain" /\ zpc' = "send" /\ Waiting # <<>> /\ Walk # <<>>
        /\ zentry' = Head(Walk)
        /\ cursor' = [walking |-> TRUE, rest |-> Tail(Walk)]
        /\ fresh' = [fresh EXCEPT !["snapshot"] = @ \/ ~cursor.walking]
        /\ UNCHANGED <<file, executed>>
    BY <1>2 DEF DrainNext
  <2>2. /\ fresh'["dtu"] = fresh["dtu"]
        /\ fresh'["snapshot"] = (fresh["snapshot"] \/ ~cursor.walking)
    BY <1>d, <2>1 DEF Thread
  <2>3. SafeInZigbee' BY <2>1 DEF SafeInZigbee
  <2>4. ASSUME NEW t \in acked, fresh'["snapshot"] PROVE ToWalk(t)'
    <3>1. t \in Among(Walk) \/ Executed(t)
      <4>1. CASE cursor.walking
        BY <1>r, <1>2, <2>1, <2>2, <2>4, <4>1 DEF SafeInWalk, ToWalk, Walk
      <4>2. CASE ~cursor.walking
        <5>1. file # Torn /\ Walk = file.controllercmd
          BY <2>1, <4>2 DEF Walk, Waiting
        <5> QED BY <1>r, <1>2, <2>4, <5>1 DEF SafeInFile, SafeIn
      <4> QED BY <4>1, <4>2
    <3>2. CASE Executed(t) BY <1>e, <2>1, <3>2 DEF ToWalk
    <3>3. CASE t \in Among(Walk)
      <4>1. Walk \in Seq(Entry) BY <1>a, WalkType
      <4>2. t \in Among(<<Head(Walk)>>) \/ t \in Among(Tail(Walk))
        BY <2>1, <3>3, <4>1, HeadTailAmong
      <4>3. t \in Among(<<zentry'>>) \/ t \in Among(cursor'.rest)
        BY <2>1, <4>2
      <4> QED BY <2>1, <4>3 DEF ToWalk
    <3> QED BY <3>1, <3>2, <3>3
  <2>5. SafeInWalk' BY <1>b, <2>4 DEF SafeInWalk
  <2> QED BY <1>2, <1>r, <1>f, <1>g, <1>i, <2>1, <2>2, <2>3, <2>5
<1>3. ASSUME DrainEnd, ~raced' PROVE Kept
  <2>1. /\ zpc = "drain" /\ zpc' = "save" /\ Waiting # <<>> /\ Walk = <<>>
        /\ cursor' = NoCursor
        /\ fresh' = [fresh EXCEPT !["zigbee"] = fresh["snapshot"]]
        /\ UNCHANGED <<file, executed>>
    BY <1>3 DEF DrainEnd, TurnOver
  <2>2. /\ fresh'["dtu"] = fresh["dtu"]
        /\ fresh'["zigbee"] = fresh["snapshot"]
    BY <1>d, <2>1 DEF Thread
  <2>3. cursor.walking /\ cursor.rest = <<>> BY <2>1 DEF Walk
  <2>4. ASSUME fresh["snapshot"], NEW t \in acked PROVE Executed(t)
    BY <1>r, <1>3, <2>1, <2>3, <2>4, EmptyAmong DEF SafeInWalk, ToWalk
  <2>5. SafeInZigbee'
    BY <1>b, <1>e, <2>1, <2>2, <2>4 DEF SafeInZigbee, SafeIn
  <2>6. SafeInWalk' BY <2>1 DEF SafeInWalk, NoCursor
  <2> QED BY <1>3, <1>r, <1>f, <1>g, <1>i, <2>1, <2>2, <2>5, <2>6
<1>4. ASSUME SendEntry \/ SendAgain, ~raced' PROVE Kept
  <2>1. /\ zpc \in {"send", "answer"} /\ zpc' = "answer" /\ Write
        /\ UNCHANGED <<file, fresh, cursor, acked>>
    BY <1>4 DEF SendEntry, SendAgain, Write
  <2>2. \A t : Executed(t) \/ t \in Among(<<zentry>>) => Executed(t)'
    BY <1>a, <2>1, SendExecutes
  <2>3. SafeInFile' BY <1>r, <1>4, <2>1, <2>2 DEF SafeInFile, SafeIn
  <2>4. SafeInDtu' BY <1>b, <1>r, <1>4, <2>1, <2>2 DEF SafeInDtu, SafeIn
  <2>5. SafeInZigbee' BY <2>1 DEF SafeInZigbee
  <2>6. SafeInWalk' BY <1>r, <1>4, <2>1, <2>2 DEF SafeInWalk, ToWalk
  <2> QED BY <1>4, <1>r, <1>i, <2>1, <2>3, <2>4, <2>5, <2>6
<1>5. ASSUME Answer, ~raced' PROVE Kept
  <2>1. /\ zpc = "answer" /\ zpc' = "save"
        /\ zcopy' \in Recorded(ReadOrEmpty)
        /\ fresh' = [fresh EXCEPT !["zigbee"] = (file # Torn)]
        /\ UNCHANGED <<file, cursor, executed>>
    BY <1>5 DEF Answer
  <2>2. /\ fresh'["dtu"] = fresh["dtu"]
        /\ fresh'["snapshot"] = fresh["snapshot"]
        /\ fresh'["zigbee"] = (file # Torn)
    BY <1>d, <2>1 DEF Thread
  <2>3. ASSUME file # Torn PROVE zcopy'.controllercmd = file.controllercmd
    <3>1. file \in Root /\ zcopy' \in Recorded(file)
      BY <1>a, <2>1, <2>3 DEF TypeOK, ReadOrEmpty
    <3> QED BY <3>1, RecordedKeeps
  <2>4. SafeInZigbee'
    BY <1>b, <1>e, <1>r, <1>5, <2>1, <2>2, <2>3
       DEF SafeInFile, SafeInZigbee, SafeIn
  <2> QED BY <1>5, <1>r, <1>f, <1>g, <1>h, <1>i, <2>1, <2>2, <2>4
<1>6. ASSUME ZigbeeOpen, ~raced' PROVE Kept
  <2>1. /\ zpc = "save" /\ zpc' = "close" /\ file' = Torn
        /\ raced' = (raced \/ ~fresh["zigbee"] \/ mixed')
        /\ UNCHANGED <<fresh, zcopy, cursor, executed>>
    BY <1>6 DEF ZigbeeOpen, OpenLocked, Truncate
  <2>2. fresh["zigbee"] BY <1>6, <2>1
  <2>3. SafeInFile' BY <2>1 DEF SafeInFile
  <2>4. SafeInZigbee' BY <1>b, <1>e, <1>r, <1>6, <2>1 DEF SafeInZigbee, SafeIn
  <2>5. TornBySaver' BY <2>1, <2>2 DEF TornBySaver
  <2> QED BY <1>6, <1>r, <1>g, <1>h, <2>1, <2>3, <2>4, <2>5
<1>7. ASSUME ZigbeeClose, ~raced' PROVE Kept
  <2>0. file' = zcopy BY <1>7, CleanClose DEF ZigbeeClose, LossInv
  <2>1. /\ zpc = "close" /\ zpc' = Resume
        /\ raced' = (raced \/ ~fresh["zigbee"])
        /\ fresh' = [fresh EXCEPT !["dtu"] = FALSE,
                                  !["snapshot"] = @ /\ TRUE]
        /\ UNCHANGED <<cursor, executed>>
    BY <1>7 DEF ZigbeeClose, Close, Peer
  <2>2. /\ ~fresh'["dtu"] /\ fresh'["snapshot"] = fresh["snapshot"]
        /\ fresh["zigbee"]
    BY <1>d, <1>7, <2>1 DEF Thread
  <2>3. SafeInFile'
    BY <1>b, <1>e, <1>r, <1>7, <2>0, <2>1, <2>2
       DEF SafeInFile, SafeInZigbee, SafeIn
  <2>4. SafeInDtu' BY <2>2 DEF SafeInDtu
  <2>5. SafeInZigbee' BY <2>1 DEF SafeInZigbee, Resume
  <2>6. zcopy # Torn BY <1>a, TornAssumption DEF TypeOK
  <2>7. TornBySaver' BY <2>0, <2>6 DEF TornBySaver
  <2> QED BY <1>7, <1>r, <1>h, <2>1, <2>2, <2>3, <2>4, <2>5, <2>7
<1>8. ASSUME DrainIdle \/ NoAnswer \/ PollNext \/ PollEnd, ~raced' PROVE Kept
  <2>1. /\ zpc \notin {"send", "save", "close"}
        /\ zpc' \notin {"send", "save", "close"}
        /\ UNCHANGED <<file, fresh, cursor, executed>>
    BY <1>8 DEF DrainIdle, TurnOver, NoAnswer, PollNext, PollEnd, Resume
  <2>2. SafeInZigbee' BY <2>1 DEF SafeInZigbee
  <2> QED BY <1>8, <1>r, <1>f, <1>g, <1>h, <1>i, <2>1, <2>2
<1>9. ~raced' => Kept
  BY <1>1, <1>2, <1>3, <1>4, <1>5, <1>6, <1>7, <1>8 DEF Zigbee
<1> QED BY <1>a, <1>c, <1>9 DEF LossInv

-----------------------------------------------------------------------------
(* The theorem. *)

LEMMA LossStep == LossInv /\ [Next]_vars => LossInv'
<1> SUFFICES ASSUME LossInv, [Next]_vars PROVE LossInv' OBVIOUS
<1>a. TypeOK' /\ MixedRaces' BY TypeStep, MixedStep DEF LossInv
<1>1. CASE Restart
  <2>1. /\ wpc' = "boot" /\ zpc' = "boot" /\ acked' = {} /\ cursor' = NoCursor
        /\ wop' = NoRequest
    BY <1>1 DEF Restart
  <2> QED BY <1>a, <2>1 DEF LossInv, PendingSaved, SafeInFile, SafeInDtu,
                            SafeInZigbee, SafeInWalk, TornBySaver, Saving
<1>2. CASE UNCHANGED vars
  <2>1. UNCHANGED <<file, wpc, wop, wcopy, zpc, zcopy, zentry, cursor, issued,
                    acked, executed, fresh, raced>>
    BY <1>2 DEF vars, fileVars, dtuVars, zigbeeVars, ghostVars, sentVars
  <2>2. \A t : Executed(t)' <=> Executed(t) BY <2>1 DEF Executed
  <2>3. PendingSaved' BY <2>1 DEF LossInv, PendingSaved, Pending
  <2>4. (SafeInFile => SafeInFile') /\ (SafeInDtu => SafeInDtu')
    BY <2>1, <2>2 DEF SafeInFile, SafeInDtu, SafeIn
  <2>5. (SafeInZigbee => SafeInZigbee') /\ (SafeInWalk => SafeInWalk')
    BY <2>1, <2>2 DEF SafeInZigbee, SafeInWalk, SafeIn, ToWalk
  <2>6. TornBySaver => TornBySaver' BY <2>1 DEF TornBySaver
  <2> QED BY <1>a, <2>1, <2>3, <2>4, <2>5, <2>6 DEF LossInv
<1>3. CASE Spill
  <2>1. raced' /\ UNCHANGED <<wpc, wop, wcopy, issued>>
    BY <1>3 DEF Spill, LossInv, MixedRaces, dtuVars, ghostVars
  <2>2. PendingSaved' BY <2>1 DEF LossInv, PendingSaved, Pending
  <2> QED BY <1>a, <2>1, <2>2 DEF LossInv
<1> QED BY <1>1, <1>2, <1>3, DtuLoss, ZigbeeLoss DEF Next

LEMMA LossInit == Init => LossInv
  BY TypeInit DEF Init, LossInv, MixedRaces, PendingSaved, SafeInFile,
                  SafeInDtu, SafeInZigbee, SafeInWalk, TornBySaver, Saving,
                  NoCursor

(* For any number of relay boxes, commands, polls and power cycles, and    *)
(* however the saves overlap: as long as no save has overwritten something *)
(* its writer had not read, every command that has been echoed to the web  *)
(* is still in the file, in a tree about to be saved, or executed          *)
(* (Save_Control_To_Json, Get_Controller_Json_Data).                       *)
THEOREM NothingLostWithoutRace == Spec => []NoLossWithoutRace
<1>1. Init => LossInv BY LossInit
<1>2. LossInv /\ [Next]_vars => LossInv' BY LossStep
<1>3. LossInv => NoLossWithoutRace
  <2> SUFFICES ASSUME LossInv, ~raced, NEW t \in acked PROVE Held(t)
    BY DEF NoLossWithoutRace
  <2>1. CASE file # Torn
    BY <2>1 DEF LossInv, SafeInFile, SafeIn, Executed, Held
  <2>2. CASE file = Torn
    <3>1. \/ wpc = "close" /\ fresh["dtu"]
          \/ zpc = "close" /\ fresh["zigbee"]
      BY <2>2 DEF LossInv, TornBySaver
    <3> QED BY <3>1 DEF LossInv, SafeInDtu, SafeInZigbee, SafeIn, Executed,
                        Held, Saving
  <2> QED BY <2>1, <2>2
<1> QED BY <1>1, <1>2, <1>3, PTL DEF Spec

-----------------------------------------------------------------------------
(* The collectors of the file and those of the configuration.              *)
(*                                                                         *)
(* A configuration command changes jsonroot before it changes the file.    *)
(* Until the tree it edits is the file, the two differ in the collector of *)
(* the command and in nothing else: whatever the Zigbee thread reads and   *)
(* saves meanwhile.  The file a power cycle leaves says nothing until the  *)
(* Zigbee thread has rebuilt it.                                           *)

ListedIn(r) == {k \in Collectors : r.collector[k].listed}

Serving == zpc \in {"drain", "send", "answer", "poll"}

(* jsonroot has been edited, the file has not. *)
EditPending ==
  \/ wop.cmd = "set_dpinfo" /\ wpc \in {"read", "save", "close"}
  \/ /\ wop.cmd = "del_dpinfo"
     /\ wpc \in {"cfgopen", "cfgclose", "read", "save", "close"}
InEdit == IF EditPending THEN {wop.id} ELSE {}

Agrees(r) == /\ "collector" \in r.arrays
             /\ ListedIn(r) \ InEdit = jsonroot \ InEdit

FileAgrees == Serving /\ file # Torn => Agrees(file)
ZigbeeAgrees == Saving(zpc) /\ fresh["zigbee"] => Agrees(zcopy)
DtuAgrees ==
  Serving /\ Saving(wpc) /\ fresh["dtu"] =>
    "collector" \in wcopy.arrays /\ ListedIn(wcopy) = jsonroot

RequestKept ==
  /\ wpc \in {"boot", "defopen", "idle"} => wop = NoRequest
  /\ /\ wpc \notin {"boot", "defopen", "cfgopen", "cfgclose"}
     /\ wop.cmd \notin {"set_dpinfo", "set_dpcontrol"}
     => config = jsonroot
  /\ wop.cmd = "set_dpinfo" => wop.id \in jsonroot
  /\ wop.cmd = "del_dpinfo" => wop.id \notin jsonroot

BootOrder == wpc \in {"boot", "defopen"} => zpc = "boot"

SyncInv ==
  /\ TypeOK
  /\ MixedRaces /\ RequestKept /\ BootOrder
  /\ ~raced => FileAgrees /\ ZigbeeAgrees /\ DtuAgrees
(* What is configured is what the boot of the Zigbee thread lists. *)
LEMMA FromConfigLists ==
  ASSUME NEW ids \in SUBSET Collectors
  PROVE  /\ "collector" \in FromConfig(ids).arrays
         /\ ListedIn(FromConfig(ids)) = ids
  BY DEF FromConfig, ListedIn, Configured, Unlisted

(* The answer of a device lists nothing new when there is a list. *)
LEMMA RecordedLists ==
  ASSUME NEW root \in Root, "collector" \in root.arrays,
         NEW new \in Recorded(root)
  PROVE  "collector" \in new.arrays /\ ListedIn(new) = ListedIn(root)
<1>1. ASSUME NEW k \in Collectors, new = RecordCollector(root, k)
      PROVE  "collector" \in new.arrays /\ ListedIn(new) = ListedIn(root)
  BY <1>1 DEF RecordCollector, Root, Probe, ListedIn
<1>2. ASSUME NEW c \in Controllers,
             new = RecordTransformer(root, c) \/ new = RecordController(root, c)
      PROVE  "collector" \in new.arrays /\ new.collector = root.collector
  BY <1>2 DEF RecordTransformer, RecordController, Root
<1> QED BY <1>1, <1>2 DEF Recorded, ListedIn

(* A configuration handler changes the collector of its command only. *)
LEMMA EditedLists ==
  ASSUME NEW root \in Root, wop \in Request, "collector" \in root.arrays,
         NEW new \in Edited(root)
  PROVE  /\ "collector" \in new.arrays
         /\ wop.cmd = "set_dpinfo" =>
              ListedIn(new) = ListedIn(root) \union {wop.id}
         /\ wop.cmd = "del_dpinfo" =>
              ListedIn(new) = ListedIn(root) \ {wop.id}
         /\ wop.cmd \notin {"set_dpinfo", "del_dpinfo"} =>
              ListedIn(new) = ListedIn(root)
<1>1. CASE wop.cmd = "set_dpinfo"
  <2>1. new = [root EXCEPT !.collector[wop.id] = Configured]
    BY <1>1 DEF Edited
  <2>2. wop.id \in Collectors BY <1>1 DEF Request
  <2> QED BY <1>1, <2>1, <2>2 DEF Root, Configured, ListedIn
<1>2. CASE wop.cmd = "del_dpinfo"
  <2>1. new = [root EXCEPT !.collector[wop.id] = Unlisted]
    BY <1>2 DEF Edited
  <2>2. wop.id \in Collectors BY <1>2 DEF Request
  <2> QED BY <1>2, <2>1, <2>2 DEF Root, Unlisted, ListedIn
<1>3. CASE wop.cmd \notin {"set_dpinfo", "del_dpinfo"}
  <2>1. \/ new = root
        \/ \E S : new = [root EXCEPT !.controller = S]
    BY <1>3 DEF Edited
  <2>2. new.arrays = root.arrays /\ new.collector = root.collector
    BY <2>1 DEF Root
  <2> QED BY <1>3, <2>2 DEF ListedIn
<1> QED BY <1>1, <1>2, <1>3

LEMMA RequestStep == ASSUME TypeOK, RequestKept, Dtu PROVE RequestKept'
<1>1. ASSUME NEW c \in Controllers, RelayRead(c) PROVE RequestKept'
  BY <1>1 DEF RelayRead, RequestKept, NoRequest
<1>2. CASE ConfigStart
  BY <1>2 DEF ConfigStart, RequestKept, NoRequest, TypeOK
<1>3. CASE ConfigRead
  BY <1>3 DEF ConfigRead, RequestKept, AfterSave, NoRequest
<1>4. CASE DtuOpen
  BY <1>4 DEF DtuOpen, RequestKept
<1>5. CASE DtuClose
  BY <1>5 DEF DtuClose, RequestKept, AfterSave, NoRequest
<1>6. CASE ConfigOpen
  BY <1>6 DEF ConfigOpen, RequestKept
<1>7. CASE ConfigClose
  BY <1>7 DEF ConfigClose, RequestKept, AfterSave, NoRequest
<1>8. CASE DtuBoot
  BY <1>8 DEF DtuBoot, RequestKept, NoRequest
<1>9. CASE DefaultSave
  BY <1>9 DEF DefaultSave, RequestKept, NoRequest
<1> QED BY <1>1, <1>2, <1>3, <1>4, <1>5, <1>6, <1>7, <1>8, <1>9 DEF Dtu

(* The DTU thread: the tree it edits becomes the configuration's, and the  *)
(* file's when it is saved without a race.                                 *)
LEMMA DtuSync == ASSUME SyncInv, Dtu PROVE SyncInv'
<1>a. TypeOK /\ TypeOK' /\ MixedRaces'
  BY TypeStep, MixedStep DEF SyncInv, Next
<1>b. UNCHANGED <<zcopy, zpc>>
  BY DEF Dtu, RelayRead, ConfigStart, ConfigRead, DtuOpen, DtuClose, ConfigOpen,
         ConfigClose, DtuBoot, DefaultSave, zigbeeVars, ghostVars, sentVars
<1>c. RequestKept /\ RequestKept' BY <1>a, RequestStep DEF SyncInv
<1>d. fresh \in [Thread \union {"snapshot"} -> BOOLEAN]
  BY <1>a DEF TypeOK
<1>r. ~raced' => ~raced /\ FileAgrees /\ ZigbeeAgrees /\ DtuAgrees
  BY RacedStays DEF SyncInv
<1> DEFINE Kept == FileAgrees' /\ ZigbeeAgrees' /\ DtuAgrees'
<1> USE DEF fileVars, zigbeeVars, ghostVars, sentVars, Saving
<1>k. ASSUME \A r : Agrees(r) => Agrees(r)', fresh'["zigbee"] = fresh["zigbee"],
             ~raced'
      PROVE  /\ ZigbeeAgrees'
             /\ file' = file => FileAgrees'
  BY <1>b, <1>k, <1>r DEF ZigbeeAgrees, FileAgrees, Serving
<1>1. ASSUME NEW c \in Controllers, RelayRead(c), ~raced' PROVE Kept
  <2>1. /\ file # Torn /\ wpc = "idle" /\ wpc' = "save"
        /\ wop' = [cmd |-> "relay", id |-> c]
        /\ wcopy' = [file EXCEPT !.controllercmd =
                                   AddCommand(@, c, <<issued + 1, c>>)]
        /\ fresh' = [fresh EXCEPT !["dtu"] = TRUE]
        /\ UNCHANGED <<file, jsonroot>>
    BY <1>1 DEF RelayRead
  <2>2. file \in Root BY <1>a, <2>1 DEF TypeOK
  <2>3. InEdit = {} /\ InEdit' = {}
    BY <2>1 DEF InEdit, EditPending
  <2>4. wcopy'.collector = file.collector /\ wcopy'.arrays = file.arrays
    BY <2>1, <2>2 DEF Root
  <2>5. DtuAgrees'
    BY <1>b, <1>1, <1>r, <2>1, <2>3, <2>4
       DEF DtuAgrees, FileAgrees, Serving, Agrees, ListedIn
  <2>6. \A r : Agrees(r) => Agrees(r)' BY <2>1, <2>3 DEF Agrees
  <2>7. fresh'["zigbee"] = fresh["zigbee"] BY <1>d, <2>1 DEF Thread
  <2> QED BY <1>1, <1>k, <2>1, <2>5, <2>6, <2>7
<1>2. ASSUME ConfigStart, ~raced' PROVE Kept
  <2>1. wpc = "idle" /\ wop = NoRequest
    BY <1>2, <1>c DEF ConfigStart, RequestKept
  <2>2. UNCHANGED <<file, fresh>> /\ wpc' \in {"read", "cfgopen"}
    BY <1>2 DEF ConfigStart
  <2>3. InEdit = {} BY <2>1 DEF InEdit, EditPending, NoRequest
  <2>4. jsonroot' \ InEdit' = jsonroot \ InEdit'
    BY <1>2 DEF ConfigStart, InEdit, EditPending
  <2>5. \A r : Agrees(r) => Agrees(r)' BY <2>3, <2>4 DEF Agrees, ListedIn
  <2>6. DtuAgrees' BY <2>2 DEF DtuAgrees
  <2> QED BY <1>2, <1>k, <2>2, <2>5, <2>6
<1>3. ASSUME ConfigRead, ~raced' PROVE Kept
  <2>1. /\ file # Torn /\ wcopy' \in Edited(file)
        /\ wpc = "read" /\ wpc' = "save"
        /\ fresh' = [fresh EXCEPT !["dtu"] = TRUE]
        /\ UNCHANGED <<wop, file, jsonroot>>
    BY <1>3 DEF ConfigRead
  <2>2. file \in Root /\ wop \in Request BY <1>a, <2>1 DEF TypeOK
  <2>3. InEdit' = InEdit BY <2>1 DEF InEdit, EditPending
  <2>4. ASSUME Serving
        PROVE  "collector" \in wcopy'.arrays /\ ListedIn(wcopy') = jsonroot
    <3>1. "collector" \in file.arrays /\ ListedIn(file) \ InEdit = jsonroot \ InEdit
      BY <1>3, <1>r, <2>1, <2>4 DEF FileAgrees, Agrees
    <3>2. CASE wop.cmd = "set_dpinfo"
      <4>1. InEdit = {wop.id} /\ wop.id \in jsonroot
        BY <1>c, <2>1, <3>2 DEF InEdit, EditPending, RequestKept
      <4>2. ListedIn(wcopy') = ListedIn(file) \union {wop.id}
        BY <2>1, <2>2, <3>1, <3>2, EditedLists
      <4> QED BY <2>1, <2>2, <3>1, <4>1, <4>2, EditedLists
    <3>3. CASE wop.cmd = "del_dpinfo"
      <4>1. InEdit = {wop.id} /\ wop.id \notin jsonroot
        BY <1>c, <2>1, <3>3 DEF InEdit, EditPending, RequestKept
      <4>2. ListedIn(wcopy') = ListedIn(file) \ {wop.id}
        BY <2>1, <2>2, <3>1, <3>3, EditedLists
      <4> QED BY <2>1, <2>2, <3>1, <4>1, <4>2, EditedLists
    <3>4. CASE wop.cmd \notin {"set_dpinfo", "del_dpinfo"}
      <4>1. InEdit = {} BY <3>4 DEF InEdit, EditPending
      <4>2. ListedIn(wcopy') = ListedIn(file)
        BY <2>1, <2>2, <3>1, <3>4, EditedLists
      <4> QED BY <2>1, <2>2, <3>1, <4>1, <4>2, EditedLists
    <3> QED BY <3>2, <3>3, <3>4
  <2>5. DtuAgrees' BY <1>b, <2>1, <2>4 DEF DtuAgrees, Serving, ListedIn
  <2>6. \A r : Agrees(r) => Agrees(r)' BY <2>1, <2>3 DEF Agrees, ListedIn
  <2>7. fresh'["zigbee"] = fresh["zigbee"] BY <1>d, <2>1 DEF Thread
  <2> QED BY <1>3, <1>k, <2>1, <2>5, <2>6, <2>7
<1>4. ASSUME DtuOpen, ~raced' PROVE Kept
  <2>1. /\ wpc = "save" /\ wpc' = "close" /\ file' = Torn
        /\ UNCHANGED <<fresh, wop, wcopy, jsonroot>>
    BY <1>4 DEF DtuOpen, OpenLocked, OpenUnlocked, Truncate
  <2>2. InEdit' = InEdit BY <2>1 DEF InEdit, EditPending
  <2>3. \A r : Agrees(r) => Agrees(r)' BY <2>1, <2>2 DEF Agrees, ListedIn
  <2>4. FileAgrees' BY <2>1 DEF FileAgrees
  <2>5. DtuAgrees'
    BY <1>4, <1>b, <1>r, <2>1 DEF DtuAgrees, Serving, ListedIn
  <2> QED BY <1>4, <1>k, <2>1, <2>3, <2>4, <2>5
<1>5. ASSUME DtuClose, ~raced' PROVE Kept
  <2>0. file' = wcopy BY <1>5, CleanClose DEF DtuClose, SyncInv
  <2>1. /\ wpc = "close" /\ wpc' = AfterSave
        /\ raced' = (raced \/ ~fresh["dtu"])
        /\ fresh' = [fresh EXCEPT !["zigbee"] = FALSE, !["snapshot"] = FALSE]
        /\ wop' = IF AfterSave = "idle" THEN NoRequest ELSE wop
        /\ UNCHANGED jsonroot
    BY <1>5 DEF DtuClose, Close, Peer
  <2>2. fresh["dtu"] /\ ~fresh'["zigbee"] BY <1>5, <1>d, <2>1 DEF Thread
  <2>3. InEdit' = {}
    BY <2>1 DEF InEdit, EditPending, AfterSave, NoRequest
  <2>4. FileAgrees'
    BY <1>5, <1>b, <1>r, <2>0, <2>1, <2>2, <2>3
       DEF FileAgrees, DtuAgrees, Agrees, Serving, ListedIn
  <2>5. ZigbeeAgrees' BY <2>2 DEF ZigbeeAgrees
  <2>6. DtuAgrees' BY <2>1 DEF DtuAgrees, AfterSave
  <2> QED BY <2>4, <2>5, <2>6
<1>6. ASSUME ConfigOpen \/ ConfigClose, ~raced' PROVE Kept
  <2>1. /\ UNCHANGED <<file, fresh, jsonroot>>
        /\ wpc \in {"cfgopen", "cfgclose"}
        /\ wpc' \in {"cfgclose", "read", "idle"}
        /\ wop.cmd = "del_dpinfo" => wpc' # "idle" /\ wop' = wop
        /\ wop.cmd # "del_dpinfo" => wop'.cmd # "del_dpinfo"
        /\ wop.cmd \in {"set_dpinfo", "set_dpcontrol"} => wpc' # "read"
        /\ wop.cmd # "set_dpinfo" => wop'.cmd # "set_dpinfo"
    BY <1>6 DEF ConfigOpen, ConfigClose, AfterSave, NoRequest
  <2>2. InEdit' = InEdit BY <2>1 DEF InEdit, EditPending
  <2>3. \A r : Agrees(r) => Agrees(r)' BY <2>1, <2>2 DEF Agrees, ListedIn
  <2>4. DtuAgrees' BY <2>1 DEF DtuAgrees
  <2> QED BY <1>6, <1>k, <2>1, <2>3, <2>4
<1>7. ASSUME DtuBoot \/ DefaultSave PROVE Kept
  <2>1. wpc \in {"boot", "defopen"} /\ zpc = "boot"
    BY <1>7 DEF DtuBoot, DefaultSave, SyncInv, BootOrder
  <2> QED BY <1>b, <2>1 DEF FileAgrees, ZigbeeAgrees, DtuAgrees, Serving
<1>8. BootOrder'
  BY <1>b DEF SyncInv, BootOrder, Dtu, RelayRead, ConfigStart, ConfigRead,
              DtuOpen, DtuClose, ConfigOpen, ConfigClose, DtuBoot, DefaultSave,
              AfterSave
<1> QED BY <1>a, <1>c, <1>1, <1>2, <1>3, <1>4, <1>5, <1>6, <1>7, <1>8
        DEF Dtu, SyncInv

(* The Zigbee thread: it saves the list it has read, or the one it makes   *)
(* of the configuration.                                                   *)
LEMMA ZigbeeSync == ASSUME SyncInv, Zigbee PROVE SyncInv'
<1>a. TypeOK /\ TypeOK' /\ MixedRaces'
  BY TypeStep, MixedStep DEF SyncInv, Next
<1>b. UNCHANGED <<wpc, wop, wcopy, jsonroot, config>>
  BY DEF Zigbee, ZigbeeBoot, DrainNext, DrainEnd, DrainIdle, SendEntry,
         SendAgain, Write, TurnOver, Answer, NoAnswer, PollNext, PollEnd,
         ZigbeeOpen, ZigbeeClose, dtuVars, ghostVars, sentVars
<1>c. RequestKept' BY <1>b DEF SyncInv, RequestKept
<1>d. fresh \in [Thread \union {"snapshot"} -> BOOLEAN]
  BY <1>a DEF TypeOK
<1>e. InEdit' = InEdit BY <1>b DEF InEdit, EditPending
<1>f. \A r : Agrees(r)' <=> Agrees(r) BY <1>b, <1>e DEF Agrees, ListedIn
<1>r. ~raced' => ~raced /\ FileAgrees /\ ZigbeeAgrees /\ DtuAgrees
  BY RacedStays DEF SyncInv
<1> DEFINE Kept == FileAgrees' /\ ZigbeeAgrees' /\ DtuAgrees'
<1> USE DEF fileVars, dtuVars, ghostVars, sentVars, Saving
<1>g. ASSUME Serving, FileAgrees, DtuAgrees, file' = file,
             fresh'["dtu"] = fresh["dtu"]
      PROVE  FileAgrees' /\ DtuAgrees'
  BY <1>b, <1>f, <1>g DEF FileAgrees, DtuAgrees, ListedIn
<1>1. ASSUME ZigbeeBoot, ~raced' PROVE Kept
  <2>1. /\ zpc = "boot" /\ zpc' = "save"
        /\ zcopy' = FromConfig(config) /\ config # Torn
        /\ fresh' = [fresh EXCEPT !["zigbee"] = (acked = {} /\ wpc = "idle")]
    BY <1>1 DEF ZigbeeBoot
  <2>2. ASSUME fresh'["zigbee"] PROVE Agrees(zcopy')
    <3>1. wpc = "idle" BY <1>d, <2>1, <2>2 DEF Thread
    <3>2. wop = NoRequest /\ config = jsonroot
      BY <3>1 DEF SyncInv, RequestKept, NoRequest
    <3>3. jsonroot \in SUBSET Collectors BY <1>a DEF TypeOK
    <3>4. /\ "collector" \in zcopy'.arrays
          /\ ListedIn(zcopy') = jsonroot
      BY <2>1, <3>2, <3>3, FromConfigLists
    <3> QED BY <3>4 DEF Agrees
  <2>3. ZigbeeAgrees' BY <1>f, <2>2 DEF ZigbeeAgrees
  <2> QED BY <2>1, <2>3 DEF FileAgrees, DtuAgrees, Serving
<1>2. ASSUME DrainNext, ~raced' PROVE Kept
  <2>1. /\ Serving /\ zpc' = "send" /\ file' = file
        /\ fresh'["dtu"] = fresh["dtu"]
    BY <1>2, <1>d DEF DrainNext, Serving, Thread
  <2> QED BY <1>2, <1>g, <1>r, <2>1 DEF ZigbeeAgrees
<1>3. ASSUME DrainEnd, ~raced' PROVE Kept
  <2>1. /\ Serving /\ zpc' = "save" /\ file' = file /\ file # Torn
        /\ fresh'["dtu"] = fresh["dtu"]
        /\ zcopy' = [file EXCEPT !.controllercmd = <<>>]
    BY <1>3, <1>d DEF DrainEnd, Serving, Thread, Waiting
  <2>2. zcopy'.collector = file.collector /\ zcopy'.arrays = file.arrays
    BY <1>a, <2>1 DEF TypeOK, Root
  <2>3. Agrees(zcopy')
    BY <1>3, <1>r, <2>1, <2>2 DEF FileAgrees, Agrees, ListedIn
  <2>4. ZigbeeAgrees' BY <1>f, <2>3 DEF ZigbeeAgrees
  <2> QED BY <1>3, <1>g, <1>r, <2>1, <2>4
<1>4. ASSUME Answer, ~raced' PROVE Kept
  <2>1. /\ Serving /\ zpc' = "save" /\ file' = file
        /\ zcopy' \in Recorded(ReadOrEmpty)
        /\ fresh'["dtu"] = fresh["dtu"] /\ fresh'["zigbee"] = (file # Torn)
    BY <1>4, <1>d DEF Answer, Serving, Thread
  <2>2. ASSUME file # Torn PROVE Agrees(zcopy')
    <3>1. file \in Root /\ zcopy' \in Recorded(file)
      BY <1>a, <2>1, <2>2 DEF TypeOK, ReadOrEmpty
    <3>2. Agrees(file) BY <1>4, <1>r, <2>1, <2>2 DEF FileAgrees
    <3>3. /\ "collector" \in zcopy'.arrays
          /\ ListedIn(zcopy') = ListedIn(file)
      BY <3>1, <3>2, RecordedLists DEF Agrees
    <3> QED BY <3>2, <3>3 DEF Agrees
  <2>3. ZigbeeAgrees' BY <1>f, <2>1, <2>2 DEF ZigbeeAgrees
  <2> QED BY <1>4, <1>g, <1>r, <2>1, <2>3
<1>5. ASSUME ZigbeeOpen, ~raced' PROVE Kept
  <2>1. /\ zpc = "save" /\ zpc' = "close" /\ UNCHANGED <<fresh, zcopy>>
    BY <1>5 DEF ZigbeeOpen, OpenLocked, Truncate
  <2>2. ZigbeeAgrees' BY <1>5, <1>f, <1>r, <2>1 DEF ZigbeeAgrees
  <2> QED BY <2>1, <2>2 DEF FileAgrees, DtuAgrees, Serving
<1>6. ASSUME ZigbeeClose, ~raced' PROVE Kept
  <2>0. file' = zcopy BY <1>6, CleanClose DEF ZigbeeClose, SyncInv
  <2>1. /\ zpc = "close" /\ zpc' \in {"poll", "drain"}
        /\ raced' = (raced \/ ~fresh["zigbee"])
        /\ fresh' = [fresh EXCEPT !["dtu"] = FALSE, !["snapshot"] = @ /\ TRUE]
    BY <1>6 DEF ZigbeeClose, Close, Peer, Resume
  <2>2. ~fresh'["dtu"] /\ fresh["zigbee"] BY <1>6, <1>d, <2>1 DEF Thread
  <2>3. FileAgrees'
    BY <1>6, <1>f, <1>r, <2>0, <2>1, <2>2 DEF FileAgrees, ZigbeeAgrees
  <2> QED BY <2>1, <2>2, <2>3 DEF ZigbeeAgrees, DtuAgrees
<1>7. ASSUME \/ SendEntry \/ SendAgain \/ DrainIdle \/ NoAnswer
             \/ PollNext \/ PollEnd,
             ~raced'
      PROVE  Kept
  <2>1. /\ Serving /\ zpc' \in {"answer", "poll", "drain"}
        /\ UNCHANGED <<file, fresh>>
    BY <1>7 DEF SendEntry, SendAgain, Write, DrainIdle, TurnOver, NoAnswer,
                PollNext, PollEnd, Resume, Serving
  <2> QED BY <1>7, <1>g, <1>r, <2>1 DEF ZigbeeAgrees
<1>8. BootOrder'
  BY <1>b DEF SyncInv, BootOrder, Zigbee, ZigbeeBoot, DrainNext, DrainEnd,
              DrainIdle, SendEntry, SendAgain, Write, TurnOver, Answer,
              NoAnswer, PollNext, PollEnd, ZigbeeOpen, ZigbeeClose
<1>9. ~raced' => Kept
  BY <1>1, <1>2, <1>3, <1>4, <1>5, <1>6, <1>7 DEF Zigbee
<1> QED BY <1>a, <1>c, <1>8, <1>9 DEF SyncInv

LEMMA SyncStep == SyncInv /\ [Next]_vars => SyncInv'
<1> SUFFICES ASSUME SyncInv, [Next]_vars PROVE SyncInv' OBVIOUS
<1>a. TypeOK' /\ MixedRaces' BY TypeStep, MixedStep DEF SyncInv
<1>1. CASE Restart
  <2>1. /\ wpc' = "boot" /\ zpc' = "boot" /\ wop' = NoRequest
    BY <1>1 DEF Restart
  <2> QED BY <1>a, <2>1 DEF SyncInv, RequestKept, BootOrder, NoRequest,
                            FileAgrees, ZigbeeAgrees, DtuAgrees, Serving, Saving
<1>2. CASE UNCHANGED vars
  <2>1. UNCHANGED <<file, jsonroot, config, wpc, wop, wcopy, zpc, zcopy, fresh,
                    raced>>
    BY <1>2 DEF vars, fileVars, dtuVars, zigbeeVars, ghostVars, sentVars
  <2>2. RequestKept' /\ BootOrder'
    BY <2>1 DEF SyncInv, RequestKept, BootOrder
  <2>3. \A r : Agrees(r)' <=> Agrees(r)
    BY <2>1 DEF Agrees, InEdit, EditPending, ListedIn
  <2>4. /\ FileAgrees => FileAgrees'
        /\ ZigbeeAgrees => ZigbeeAgrees'
        /\ DtuAgrees => DtuAgrees'
    BY <2>1, <2>3 DEF FileAgrees, ZigbeeAgrees, DtuAgrees, Serving, Saving,
                      ListedIn
  <2> QED BY <1>a, <2>1, <2>2, <2>4 DEF SyncInv
<1>3. CASE Spill
  <2>1. raced' /\ UNCHANGED <<wpc, wop, jsonroot, config, zpc>>
    BY <1>3 DEF Spill, SyncInv, MixedRaces, dtuVars, zigbeeVars, ghostVars
  <2>2. RequestKept' /\ BootOrder'
    BY <2>1 DEF SyncInv, RequestKept, BootOrder
  <2> QED BY <1>a, <2>1, <2>2 DEF SyncInv
<1> QED BY <1>1, <1>2, <1>3, DtuSync, ZigbeeSync DEF Next

LEMMA SyncInit == Init => SyncInv
  BY TypeInit DEF Init, SyncInv, MixedRaces, RequestKept, BootOrder, NoRequest,
                  FileAgrees, ZigbeeAgrees, DtuAgrees, Serving, Saving

(* For any set of collectors and any number of commands, polls and power   *)
(* cycles: as long as no save has overwritten what its writer had not      *)
(* read, the collectors that are polled are those of the configuration     *)
(* whenever the DTU thread is between two requests and the Zigbee thread   *)
(* between two saves (Create_Sharemem_Json,                                *)
(* cjson_from_config_to_sharemem).                                         *)
THEOREM CollectorsKeptInSync == Spec => []StateInSync
<1>1. Init => SyncInv BY SyncInit
<1>2. SyncInv /\ [Next]_vars => SyncInv' BY SyncStep
<1>3. SyncInv => StateInSync
  <2> SUFFICES ASSUME SyncInv, ~raced, file # Torn, wpc = "idle",
                      zpc \in {"drain", "send", "answer", "poll"}
               PROVE  {k \in Collectors : file.collector[k].listed} = jsonroot
    BY DEF StateInSync, CollectorsInSync, SyncInv
  <2>1. wop = NoRequest BY DEF SyncInv, RequestKept
  <2>2. InEdit = {} BY <2>1 DEF InEdit, EditPending, NoRequest
  <2> QED BY <2>2 DEF SyncInv, FileAgrees, Serving, Agrees, ListedIn
<1> QED BY <1>1, <1>2, <1>3, PTL DEF Spec
-----------------------------------------------------------------------------
(* The mailbox.  Three things are needed to see that a write to a relay    *)
(* box is a delivery: that an entry holds what waits for its box and       *)
(* nothing else, in order (WaitsIn); that the entries a walk has yet to    *)
(* come to do so although the DTU thread may have added to the file        *)
(* meanwhile (Ready); and that no number of a command is used twice, also  *)
(* not after a race or a power cycle (Known).                              *)

Those(e) == {e.cmd[j] : j \in DOMAIN e.cmd}
Ascending(s) == \A i, j \in DOMAIN s : i < j => s[i][1] < s[j][1]

(* One entry for a box, the commands in an entry in their order. *)
Tidy(q) ==
  /\ \A i, j \in DOMAIN q : q[i].id = q[j].id => i = j
  /\ \A i \in DOMAIN q : q[i].cmd # <<>> /\ Ascending(q[i].cmd)

(* The commands up to the one that is being read or was read last. *)
Numbered(n) == {t \in Command : t[1] <= n}
Relaying == Saving(wpc) /\ wop.cmd = "relay"
Old == IF Relaying THEN issued - 1 ELSE issued

Known ==
  /\ acked \subseteq Numbered(Old)
  /\ \A t : Executed(t) => t \in Numbered(Old)
  /\ file # Torn => Among(file.controllercmd) \subseteq Numbered(Old)
  /\ Among(zcopy.controllercmd) \subseteq Numbered(Old)
  /\ Among(cursor.rest) \subseteq Numbered(Old)
  /\ Among(<<zentry>>) \subseteq Numbered(Old)
  /\ Among(wcopy.controllercmd) \subseteq Numbered(issued)

(* What waits in an array: until a walk begins, none of it is executed. *)
WaitsIn(q, S) ==
  /\ Tidy(q)
  /\ Among(q) \subseteq S
  /\ ~cursor.walking => \A t \in Among(q) : ~Executed(t)

FileWaits == Serving /\ file # Torn => WaitsIn(file.controllercmd, acked)
ZigbeeWaits ==
  Saving(zpc) /\ fresh["zigbee"] => WaitsIn(zcopy.controllercmd, acked)
DtuWaits ==
  Serving /\ Saving(wpc) /\ fresh["dtu"] =>
    WaitsIn(wcopy.controllercmd,
            IF Relaying THEN acked \union {Pending} ELSE acked)

(* All that waits for the box of an entry is in it, or younger. *)
Ready(e) ==
  /\ e.cmd # <<>> /\ Ascending(e.cmd)
  /\ \A t \in Those(e) : t \in acked /\ ~Executed(t)
  /\ \A t \in Those(e) : \A u \in acked \ Those(e) :
       u[2] = e.id /\ ~Executed(u) => t[1] < u[1]

WalkReady ==
  /\ cursor.walking =>
       /\ \A i \in DOMAIN cursor.rest : Ready(cursor.rest[i])
       /\ \A i, j \in DOMAIN cursor.rest :
            cursor.rest[i].id = cursor.rest[j].id => i = j
  /\ zpc = "send" =>
       /\ Ready(zentry)
       /\ \A i \in DOMAIN cursor.rest : cursor.rest[i].id # zentry.id

WalkPlace ==
  /\ zpc = "send" => cursor.walking
  /\ zpc = "boot" => ~cursor.walking
  /\ zpc \in {"boot", "poll"} => zentry = NoEntry
  /\ zpc = "answer" /\ zentry # NoEntry => zwrites > 0

(* What may be repeated has been written. *)
Written == zwrites > 0 => \A t \in Among(<<zentry>>) : Executed(t)

Waits == FileWaits /\ ZigbeeWaits /\ DtuWaits /\ WalkReady

MailInv ==
  /\ LossInv /\ TargetInv /\ Known /\ WalkPlace /\ Written
  /\ ~raced => Waits

-----------------------------------------------------------------------------
(* Lemmas on the order of the pending commands. *)

(* The array r is q with t in one of its entries, or in one behind them. *)
OneMore(r, q, c, t) ==
  \/ /\ DOMAIN r = DOMAIN q
     /\ \A i \in DOMAIN q :
          /\ r[i].id = q[i].id
          /\ r[i].cmd = q[i].cmd \/ r[i].cmd = Append(q[i].cmd, t)
  \/ /\ DOMAIN r = DOMAIN q \union {Len(q) + 1}
     /\ Len(q) + 1 \notin DOMAIN q
     /\ \A i \in DOMAIN q : r[i] = q[i] /\ q[i].id # c
     /\ r[Len(q) + 1].id = c /\ r[Len(q) + 1].cmd = <<t>>

(* What AddCommand returns, entry by entry. *)
LEMMA AddCommandEntries ==
  ASSUME NEW q \in Seq(Entry), NEW c \in Controllers, NEW t \in Command
  PROVE  OneMore(AddCommand(q, c, t), q, c, t)
<1> DEFINE r == AddCommand(q, c, t)
<1>a. DOMAIN q = 1..Len(q) /\ Len(q) \in Nat BY LenProperties
<1>b. \A i \in DOMAIN q : q[i] \in Entry BY ElementOfSeq, <1>a
<1>1. CASE \E i \in DOMAIN q : q[i].id = c
  <2>1. r = [i \in DOMAIN q |->
               IF q[i].id = c THEN [q[i] EXCEPT !.cmd = Append(@, t)]
                              ELSE q[i]]
    BY <1>1 DEF AddCommand
  <2>2. ASSUME NEW i \in DOMAIN q
        PROVE  /\ r[i].id = q[i].id
               /\ r[i].cmd = q[i].cmd \/ r[i].cmd = Append(q[i].cmd, t)
    BY <2>1, <1>b DEF Entry
  <2>3. DOMAIN r = DOMAIN q BY <2>1
  <2> HIDE DEF r
  <2>4. OneMore(r, q, c, t) BY <2>2, <2>3 DEF OneMore
  <2> QED BY <2>4 DEF r
<1>2. CASE ~\E i \in DOMAIN q : q[i].id = c
  <2> DEFINE e == [id |-> c, cmd |-> <<t>>]
  <2>1. r = Append(q, e) BY <1>2 DEF AddCommand
  <2>2. e \in Entry BY DEF Entry
  <2>3. /\ DOMAIN r = 1..(Len(q) + 1) /\ r[Len(q) + 1] = e
        /\ \A i \in 1..Len(q) : r[i] = q[i]
    BY <2>1, <2>2, AppendProperties, LenProperties
  <2>4. /\ 1..(Len(q) + 1) = (1..Len(q)) \union {Len(q) + 1}
        /\ Len(q) + 1 \notin 1..Len(q)
    BY <1>a
  <2>5. e.id = c /\ e.cmd = <<t>> OBVIOUS
  <2> HIDE DEF r, e
  <2>6. OneMore(r, q, c, t) BY <1>2, <1>a, <2>3, <2>4, <2>5 DEF OneMore
  <2> QED BY <2>6 DEF r
<1> QED BY <1>1, <1>2

(* There is nothing in a longer sequence but what was appended. *)
LEMMA AppendOnly ==
  ASSUME NEW S, NEW s \in Seq(S), NEW e \in S
  PROVE  /\ \A j \in DOMAIN Append(s, e) :
              \/ j \in DOMAIN s /\ Append(s, e)[j] = s[j]
              \/ j = Len(s) + 1 /\ Append(s, e)[j] = e
         /\ DOMAIN s \subseteq 1..Len(s) /\ Len(s) \in Nat
         /\ Append(s, e) # <<>>
<1>1. Len(s) \in Nat /\ DOMAIN s = 1..Len(s) BY LenProperties
<1>2. /\ Append(s, e) \in Seq(S) /\ Len(Append(s, e)) = Len(s) + 1
      /\ \A j \in 1..Len(s) : Append(s, e)[j] = s[j]
      /\ Append(s, e)[Len(s) + 1] = e
  BY AppendProperties
<1>3. DOMAIN Append(s, e) = 1..(Len(s) + 1) BY <1>2, LenProperties
<1>4. Append(s, e) # <<>> BY <1>1, <1>2, EmptySeq
<1> QED BY <1>1, <1>2, <1>3, <1>4

LEMMA AddCommandAmong ==
  ASSUME NEW q \in Seq(Entry), NEW c \in Controllers, NEW t \in Command,
         NEW r, r = AddCommand(q, c, t), NEW u \in Among(r)
  PROVE  u \in Among(q) \/ u = t
<1>a. DOMAIN q = 1..Len(q) BY LenProperties
<1>b. ASSUME NEW i \in DOMAIN q PROVE q[i].cmd \in Seq(Command)
  <2>1. q[i] \in Entry BY ElementOfSeq, <1>a
  <2> QED BY <2>1 DEF Entry
<1>e. OneMore(r, q, c, t) BY AddCommandEntries
<1>1. PICK i \in DOMAIN r : \E j \in DOMAIN r[i].cmd : r[i].cmd[j] = u
  BY AmongIs
<1>2. PICK j \in DOMAIN r[i].cmd : r[i].cmd[j] = u BY <1>1
<1>3. CASE i \in DOMAIN q /\ r[i].cmd = q[i].cmd
  BY <1>2, <1>3, AmongIs
<1>4. CASE i \in DOMAIN q /\ r[i].cmd = Append(q[i].cmd, t)
  <2>1. \/ j \in DOMAIN q[i].cmd /\ r[i].cmd[j] = q[i].cmd[j]
        \/ r[i].cmd[j] = t
    BY <1>b, <1>2, <1>4, AppendOnly
  <2> QED BY <1>2, <1>4, <2>1, AmongIs
<1>5. CASE r[i].cmd = <<t>> BY <1>2, <1>5
<1>6. \/ i \in DOMAIN q /\ r[i].cmd = q[i].cmd
      \/ i \in DOMAIN q /\ r[i].cmd = Append(q[i].cmd, t)
      \/ r[i].cmd = <<t>>
  BY <1>1, <1>e DEF OneMore
<1> QED BY <1>3, <1>4, <1>5, <1>6

(* The youngest command is added at the end of its entry. *)
LEMMA AddCommandTidy ==
  ASSUME NEW q \in Seq(Entry), NEW c \in Controllers, NEW t \in Command,
         Tidy(q), \A u \in Among(q) : u[1] < t[1],
         NEW r, r = AddCommand(q, c, t)
  PROVE  Tidy(r)
<1>a. DOMAIN q = 1..Len(q) BY LenProperties
<1>b. ASSUME NEW i \in DOMAIN q PROVE q[i].cmd \in Seq(Command)
  <2>1. q[i] \in Entry BY ElementOfSeq, <1>a
  <2> QED BY <2>1 DEF Entry
<1>e. OneMore(r, q, c, t) BY AddCommandEntries
<1>1. ASSUME NEW i \in DOMAIN q PROVE Append(q[i].cmd, t) # <<>>
  BY <1>1, <1>b, AppendOnly
<1>2. ASSUME NEW i \in DOMAIN q PROVE Ascending(Append(q[i].cmd, t))
  <2> DEFINE s == q[i].cmd
             a == Append(s, t)
  <2>1. s \in Seq(Command) BY <1>b
  <2>2. Ascending(s) BY DEF Tidy
  <2>3. \A j \in DOMAIN s : s[j][1] < t[1] BY AmongIs
  <2> HIDE DEF s
  <2>4. /\ \A j \in DOMAIN a :
              \/ j \in DOMAIN s /\ a[j] = s[j]
              \/ j = Len(s) + 1 /\ a[j] = t
        /\ DOMAIN s \subseteq 1..Len(s) /\ Len(s) \in Nat
    BY <2>1, AppendOnly
  <2>5. ASSUME NEW j \in DOMAIN a, NEW k \in DOMAIN a, j < k
        PROVE  a[j][1] < a[k][1]
    <3>1. j \in DOMAIN s /\ a[j] = s[j] BY <2>4, <2>5
    <3> QED BY <2>2, <2>3, <2>4, <2>5, <3>1 DEF Ascending
  <2> QED BY <2>5 DEF Ascending, s
<1>3. Ascending(<<t>>) /\ <<t>> # <<>> BY DEF Ascending
<1>4. ASSUME NEW i \in DOMAIN r PROVE r[i].cmd # <<>> /\ Ascending(r[i].cmd)
  <2>1. \/ i \in DOMAIN q /\ r[i].cmd = q[i].cmd
        \/ i \in DOMAIN q /\ r[i].cmd = Append(q[i].cmd, t)
        \/ r[i].cmd = <<t>>
    BY <1>4, <1>e DEF OneMore
  <2> QED BY <1>1, <1>2, <1>3, <2>1 DEF Tidy
<1>5. ASSUME NEW i \in DOMAIN r, NEW j \in DOMAIN r, r[i].id = r[j].id
      PROVE  i = j
  BY <1>5, <1>e DEF Tidy, OneMore
<1> QED BY <1>4, <1>5 DEF Tidy

(* The entry a walk takes next, and those behind it. *)
LEMMA RestEntries ==
  ASSUME NEW q \in Seq(Entry), q # <<>>
  PROVE  /\ 1 \in DOMAIN q /\ Head(q) = q[1]
         /\ \A i \in DOMAIN Tail(q) :
              i + 1 \in DOMAIN q /\ Tail(q)[i] = q[i + 1] /\ i + 1 # 1
         /\ \A i, j \in DOMAIN Tail(q) : i + 1 = j + 1 => i = j
<1>1. /\ Len(q) \in Nat \ {0} /\ DOMAIN q = 1..Len(q)
      /\ Head(q) = q[1] /\ DOMAIN Tail(q) = 1..(Len(q) - 1)
      /\ \A i \in 1..(Len(q) - 1) : Tail(q)[i] = q[i + 1]
  BY EmptySeq, LenProperties, HeadTailProperties
<1> QED BY <1>1

LEMMA RestAmong ==
  ASSUME NEW q \in Seq(Entry), q # <<>>
  PROVE  Among(<<Head(q)>>) \union Among(Tail(q)) \subseteq Among(q)
<1>1. ASSUME NEW t \in Among(<<Head(q)>>) PROVE t \in Among(q)
  <2>1. \E j \in DOMAIN Head(q).cmd : Head(q).cmd[j] = t BY AmongIs
  <2> QED BY <2>1, RestEntries, AmongIs
<1>2. ASSUME NEW t \in Among(Tail(q)) PROVE t \in Among(q)
  <2>1. PICK i \in DOMAIN Tail(q) :
          \E j \in DOMAIN Tail(q)[i].cmd : Tail(q)[i].cmd[j] = t
    BY AmongIs
  <2> QED BY <2>1, RestEntries, AmongIs
<1> QED BY <1>1, <1>2

(* What has been executed after a write to a relay box. *)
LEMMA ExecutedBySend ==
  ASSUME TypeOK, Write, NEW t
  PROVE  Executed(t)' <=> Executed(t) \/ t \in Among(<<zentry>>)
<1>1. zentry.cmd \in Seq(Command) /\ executed \in [Controllers -> Seq(Command)]
  BY EntryCmd DEF TypeOK
<1>2. executed' = [executed EXCEPT ![zentry.id] = @ \o zentry.cmd]
  BY DEF Write
<1>3. ASSUME Executed(t)' PROVE Executed(t) \/ t \in Among(<<zentry>>)
  <2>0. PICK c \in Controllers :
          \E n \in DOMAIN executed'[c] : executed'[c][n] = t
    BY <1>3 DEF Executed
  <2>1. PICK i \in DOMAIN executed'[c] : executed'[c][i] = t BY <2>0
  <2>2. CASE c # zentry.id BY <1>1, <1>2, <2>1, <2>2 DEF Executed
  <2>3. CASE c = zentry.id
    <3> DEFINE p == executed[c]
               q == zentry.cmd
    <3>1. p \in Seq(Command) /\ q \in Seq(Command) BY <1>1
    <3>2. executed'[c] = p \o q BY <1>1, <1>2, <2>3
    <3>3. i \in DOMAIN (p \o q) /\ (p \o q)[i] = t BY <2>1, <3>2
    <3>4. (\E k \in DOMAIN p : p[k] = t) \/ (\E k \in DOMAIN q : q[k] = t)
      <4> HIDE DEF p, q
      <4>1. /\ Len(p) \in Nat /\ DOMAIN p = 1..Len(p)
            /\ Len(q) \in Nat /\ DOMAIN q = 1..Len(q)
            /\ p \o q \in Seq(Command) /\ Len(p \o q) = Len(p) + Len(q)
            /\ \A k \in 1..(Len(p) + Len(q)) :
                 (p \o q)[k] = IF k <= Len(p) THEN p[k] ELSE q[k - Len(p)]
        BY <3>1, LenProperties, ConcatProperties
      <4>2. DOMAIN (p \o q) = 1..(Len(p) + Len(q)) BY <4>1, LenProperties
      <4>3. CASE i <= Len(p) BY <3>3, <4>1, <4>2, <4>3
      <4>4. CASE ~(i <= Len(p))
        <5>1. i - Len(p) \in 1..Len(q) BY <3>3, <4>1, <4>2, <4>4
        <5> QED BY <3>3, <4>1, <4>2, <4>4, <5>1
      <4> QED BY <4>3, <4>4
    <3> QED BY <3>4, AmongIs DEF Executed
  <2> QED BY <2>2, <2>3
<1> QED BY <1>3, SendExecutes

-----------------------------------------------------------------------------
(* The numbers of the commands. *)

LEMMA NumberedGrows ==
  ASSUME NEW m \in Int, NEW n \in Int, m <= n
  PROVE  Numbered(m) \subseteq Numbered(n)
  BY DEF Numbered, Command

(* Trees, walks and entries that hold no command. *)
LEMMA NothingThere ==
  /\ Among(<<>>) = {} /\ Among(<<NoEntry>>) = {}
  /\ Among(EmptyRoot.controllercmd) = {} /\ Among(NoCursor.rest) = {}
  /\ \A ids : Among(FromConfig(ids).controllercmd) = {}
<1>1. Among(<<>>) = {} /\ Among(<<NoEntry>>) = {} BY EmptyAmong
<1>2. /\ EmptyRoot.controllercmd = <<>> /\ NoCursor.rest = <<>>
      /\ \A ids : FromConfig(ids).controllercmd = <<>>
  BY DEF EmptyRoot, NoCursor, FromConfig
<1> QED BY <1>1, <1>2

(* The DTU thread numbers the commands as they come. *)
LEMMA KnownDtu == ASSUME TypeOK, PendingSaved, Known, Dtu PROVE Known'
<1> USE DEF fileVars, zigbeeVars, ghostVars, sentVars
<1>a. TypeOK' BY TypeStep DEF Next
<1>b. issued \in Nat /\ issued' \in Nat /\ wop \in Request
  BY <1>a, BoundsAssumption DEF TypeOK
<1>c. UNCHANGED <<executed, zcopy, zentry, cursor>>
  BY DEF Dtu, RelayRead, ConfigStart, ConfigRead, DtuOpen, DtuClose, ConfigOpen,
         ConfigClose, DtuBoot, DefaultSave
<1>d. \A t : Executed(t)' <=> Executed(t) BY <1>c DEF Executed
<1>e. Old \in Int /\ Old <= issued /\ Old' \in Int /\ Old' <= issued'
  <2>1. Old = issued \/ Old = issued - 1 BY DEF Old
  <2>2. Old' = issued' \/ Old' = issued' - 1 BY DEF Old
  <2> QED BY <1>b, <2>1, <2>2
<1>k. ASSUME Old <= Old', acked' \subseteq Numbered(Old'),
             file' # Torn =>
               Among(file'.controllercmd) \subseteq Numbered(Old'),
             Among(wcopy'.controllercmd) \subseteq Numbered(issued')
      PROVE  Known'
  <2>1. Numbered(Old) \subseteq Numbered(Old') BY <1>e, <1>k, NumberedGrows
  <2> QED BY <1>c, <1>d, <1>k, <2>1 DEF Known
<1>l. ASSUME Old <= Old' PROVE Numbered(Old) \subseteq Numbered(Old')
  BY <1>e, <1>l, NumberedGrows
<1>1. ASSUME NEW c \in Controllers, RelayRead(c) PROVE Known'
  <2> DEFINE t == <<issued + 1, c>>
  <2>1. /\ t \in Numbered(issued') /\ t \in Command
        /\ issued' = issued + 1 /\ Old = issued /\ file' = file
    BY <1>1, <1>b DEF RelayRead, Numbered, Command, Old, Relaying, Saving
  <2> HIDE DEF t
  <2>2. CASE file = Torn
    <3>1. Old' = issued' /\ acked' = acked \union {t} /\ wcopy' = wcopy
      BY <1>1, <1>b, <2>2 DEF RelayRead, Old, Relaying, Saving, t
    <3>2. Numbered(Old) \subseteq Numbered(Old') BY <1>b, <1>l, <2>1, <3>1
    <3> QED BY <1>b, <1>k, <2>1, <2>2, <3>1, <3>2 DEF Known
  <2>3. CASE file # Torn
    <3>1. Old' = Old /\ acked' = acked
      BY <1>1, <1>b, <2>1, <2>3 DEF RelayRead, Old, Relaying, Saving
    <3>2. file \in Root /\ file.controllercmd \in Seq(Entry)
      BY <2>3 DEF TypeOK, Root
    <3>3. wcopy'.controllercmd = AddCommand(file.controllercmd, c, t)
      BY <1>1, <2>3, <3>2 DEF RelayRead, Root, t
    <3>4. Among(wcopy'.controllercmd) \subseteq Among(file.controllercmd) \union {t}
      BY <2>1, <3>2, <3>3, AddCommandAmong
    <3>5. Numbered(Old) \subseteq Numbered(issued') BY <1>b, <2>1, NumberedGrows
    <3> QED BY <1>b, <1>e, <1>k, <2>1, <2>3, <3>1, <3>4, <3>5 DEF Known
  <2> QED BY <2>2, <2>3
<1>2. CASE DtuClose
  <2>0. /\ file' \in {wcopy, file, Torn} /\ wcopy' = EmptyRoot
        /\ issued' = issued /\ Old' = issued
    BY <1>2 DEF DtuClose, Close, Left, Old, Relaying, Saving, AfterSave
  <2>a. Old \in Int /\ Old <= issued BY <1>b DEF Old
  <2>b. Numbered(Old) \subseteq Numbered(issued) BY <1>b, <2>a, NumberedGrows
  <2>1. /\ wcopy' = EmptyRoot /\ issued' = issued /\ Old' = issued
        /\ file' # Torn => Among(file'.controllercmd) \subseteq Numbered(issued)
    BY <2>0, <2>b DEF Known
  <2>2. CASE wop.cmd = "relay"
    <3>1. acked' = acked \union {Pending} BY <1>2, <2>2 DEF DtuClose
    <3>2. Pending \in Numbered(issued)
      BY <1>b, <2>2 DEF Pending, Numbered, Command, Request
    <3> QED BY <1>e, <1>k, <1>l, <2>1, <3>1, <3>2, NothingThere DEF Known
  <2>3. CASE wop.cmd # "relay"
    <3>1. acked' = acked BY <1>2, <2>3 DEF DtuClose
    <3> QED BY <1>e, <1>k, <1>l, <2>1, <3>1, NothingThere DEF Known
  <2> QED BY <2>2, <2>3
<1>3. CASE ConfigRead
  <2>1. Old' = Old /\ Old = issued /\ issued' = issued /\ acked' = acked
          /\ file' = file
    BY <1>3 DEF ConfigRead, Old, Relaying, Saving, AfterSave, PendingSaved,
                NoRequest
  <2>2. \/ wcopy' = wcopy
        \/ file \in Root /\ wcopy' \in Edited(file)
    BY <1>3 DEF ConfigRead, TypeOK
  <2>3. Among(wcopy'.controllercmd) \subseteq Numbered(issued)
    BY <1>b, <1>3, <2>1, <2>2, EditedKeeps DEF Known, ConfigRead
  <2> QED BY <1>e, <1>k, <2>1, <2>3 DEF Known
<1>4. CASE DtuOpen
  <2>1. Old' = Old /\ issued' = issued /\ acked' = acked /\ wcopy' = wcopy
          /\ file' = Torn
    BY <1>4 DEF DtuOpen, OpenLocked, OpenUnlocked, Truncate, Old, Relaying,
                Saving
  <2> QED BY <1>e, <1>k, <2>1 DEF Known
<1>5. CASE ConfigStart \/ ConfigOpen \/ ConfigClose \/ DtuBoot \/ DefaultSave
  <2>1. issued' = issued /\ acked' = acked /\ wcopy' = wcopy /\ file' = file
    BY <1>5 DEF ConfigStart, ConfigOpen, ConfigClose, DtuBoot, DefaultSave
  <2>2. ~Saving(wpc) /\ ~Saving(wpc')
    BY <1>5 DEF ConfigStart, ConfigOpen, ConfigClose, DtuBoot, DefaultSave,
                Saving
  <2>3. Old' = Old BY <2>1, <2>2 DEF Old, Relaying
  <2> QED BY <1>e, <1>k, <2>1, <2>3 DEF Known
<1> QED BY <1>1, <1>2, <1>3, <1>4, <1>5 DEF Dtu

(* The Zigbee thread has its commands from the file. *)
LEMMA KnownZigbee == ASSUME TypeOK, Known, Zigbee PROVE Known'
<1> USE DEF fileVars, dtuVars, ghostVars, sentVars
<1>a. UNCHANGED <<acked, wcopy, wpc, wop, issued>>
  BY DEF Zigbee, ZigbeeBoot, DrainNext, DrainEnd, DrainIdle, SendEntry,
         SendAgain, Write, TurnOver, Answer, NoAnswer, PollNext, PollEnd,
         ZigbeeOpen, ZigbeeClose
<1>b. Old' = Old /\ issued' = issued BY <1>a DEF Old, Relaying
<1> DEFINE N == Numbered(Old)
<1>k. ASSUME \A t : Executed(t)' => t \in N,
             file' # Torn => Among(file'.controllercmd) \subseteq N,
             Among(zcopy'.controllercmd) \subseteq N,
             Among(cursor'.rest) \subseteq N,
             Among(<<zentry'>>) \subseteq N
      PROVE  Known'
  BY <1>a, <1>b, <1>k DEF Known
<1>c. ASSUME executed' = executed PROVE \A t : Executed(t)' => t \in N
  BY <1>c DEF Executed, Known
<1>d. Among(Waiting) \subseteq N /\ Among(Walk) \subseteq N
  BY NothingThere DEF Waiting, Walk, Known
<1> HIDE DEF N
<1>1. CASE ZigbeeBoot
  <2>1. \/ zcopy' = zcopy
        \/ zcopy' = FromConfig(config)
    BY <1>1 DEF ZigbeeBoot
  <2>2. Among(zcopy'.controllercmd) \subseteq N
    BY <2>1, NothingThere DEF Known, N
  <2>3. UNCHANGED <<file, executed, cursor, zentry>> BY <1>1 DEF ZigbeeBoot
  <2> QED BY <1>c, <1>k, <2>2, <2>3 DEF Known, N
<1>2. CASE DrainNext
  <2>1. UNCHANGED <<file, executed, zcopy>> BY <1>2 DEF DrainNext
  <2>2. zentry' = Head(Walk) /\ cursor'.rest = Tail(Walk) /\ Walk # <<>>
    BY <1>2 DEF DrainNext
  <2>3. Among(<<zentry'>>) \subseteq N /\ Among(cursor'.rest) \subseteq N
    BY <1>d, <2>2, WalkType, RestAmong
  <2> QED BY <1>c, <1>k, <2>1, <2>3 DEF Known, N
<1>3. CASE DrainEnd
  <2>1. UNCHANGED <<file, executed>> /\ cursor' = NoCursor /\ zentry' = NoEntry
    BY <1>3 DEF DrainEnd, TurnOver
  <2>2. file \in Root BY <1>3 DEF DrainEnd, Waiting, TypeOK
  <2>3. zcopy'.controllercmd = <<>> BY <1>3, <2>2 DEF DrainEnd, Root
  <2> QED BY <1>c, <1>k, <2>1, <2>3, NothingThere DEF Known, N
<1>4. CASE DrainIdle
  <2>1. UNCHANGED <<file, executed, zcopy, cursor>> /\ zentry' = NoEntry
    BY <1>4 DEF DrainIdle, TurnOver
  <2> QED BY <1>c, <1>k, <2>1, NothingThere DEF Known, N
<1>5. CASE SendEntry \/ SendAgain
  <2>1. Write /\ UNCHANGED <<file, zcopy, cursor, zentry>>
    BY <1>5 DEF SendEntry, SendAgain, Write
  <2>2. \A t : Executed(t)' => t \in N BY <2>1, ExecutedBySend DEF Known, N
  <2> QED BY <1>k, <2>1, <2>2 DEF Known, N
<1>6. CASE Answer
  <2>1. UNCHANGED <<file, executed, cursor, zentry>> BY <1>6 DEF Answer
  <2>2. ReadOrEmpty \in Root BY EmptyRootType DEF ReadOrEmpty, TypeOK
  <2>3. Among(ReadOrEmpty.controllercmd) \subseteq N
    BY NothingThere DEF ReadOrEmpty, Known, N
  <2>4. Among(zcopy'.controllercmd) \subseteq N
    BY <1>6, <2>2, <2>3, RecordedKeeps DEF Answer
  <2> QED BY <1>c, <1>k, <2>1, <2>4 DEF Known, N
<1>7. CASE NoAnswer \/ PollNext \/ PollEnd
  <2>1. UNCHANGED <<file, executed, zcopy, cursor, zentry>>
    BY <1>7 DEF NoAnswer, PollNext, PollEnd
  <2> QED BY <1>c, <1>k, <2>1 DEF Known, N
<1>8. CASE ZigbeeOpen
  <2>1. UNCHANGED <<executed, zcopy, cursor, zentry>> /\ file' = Torn
    BY <1>8 DEF ZigbeeOpen, OpenLocked, Truncate
  <2> QED BY <1>c, <1>k, <2>1 DEF Known, N
<1>9. CASE ZigbeeClose
  <2>1. /\ UNCHANGED <<executed, cursor, zentry>>
        /\ file' \in {zcopy, file, Torn} /\ zcopy' = EmptyRoot
    BY <1>9 DEF ZigbeeClose, Close, Left
  <2> QED BY <1>c, <1>k, <2>1, NothingThere DEF Known, N
<1> QED BY <1>1, <1>2, <1>3, <1>4, <1>5, <1>6, <1>7, <1>8, <1>9 DEF Zigbee

(* A power cycle does not start the numbers again. *)
LEMMA KnownRestart == ASSUME TypeOK, Known, Restart PROVE Known'
<1>1. issued \in Nat BY BoundsAssumption DEF TypeOK
<1>2. Old' = issued /\ Old \in Int /\ Old <= issued
  BY <1>1 DEF Restart, Old, Relaying, Saving
<1>3. Numbered(Old) \subseteq Numbered(Old') BY <1>1, <1>2, NumberedGrows
<1>4. \A t : Executed(t)' <=> Executed(t) BY DEF Restart, Executed
<1> QED BY <1>3, <1>4, NothingThere DEF Restart, Known

-----------------------------------------------------------------------------
(* What waits in the file, in the private trees and in the walk. *)

(* A walk is under way when an entry is sent, and none is at a start; and  *)
(* when an answer is waited for, an entry has been written or a device has *)
(* been asked.                                                             *)
LEMMA WalkPlaceStep == ASSUME WalkPlace, TypeOK, [Next]_vars PROVE WalkPlace'
<1> USE DEF fileVars, dtuVars, zigbeeVars, ghostVars, sentVars
<1>1. CASE Dtu
  <2>1. UNCHANGED <<zpc, cursor, zentry, zwrites>>
    BY <1>1 DEF Dtu, RelayRead, ConfigStart, ConfigRead, DtuOpen, DtuClose,
                ConfigOpen, ConfigClose, DtuBoot, DefaultSave
  <2> QED BY <2>1 DEF WalkPlace
<1>2. CASE DrainNext BY <1>2 DEF DrainNext, WalkPlace
<1>3. CASE SendEntry \/ SendAgain
  <2>0. zwrites \in Nat BY BoundsAssumption DEF TypeOK
  <2>a. zwrites' = zwrites + 1 BY <1>3 DEF SendEntry, SendAgain, Write
  <2>b. zpc' = "answer" BY <1>3 DEF SendEntry, SendAgain
  <2>1. zwrites' = zwrites + 1 /\ zwrites \in Nat /\ zpc' = "answer"
    BY <2>0, <2>a, <2>b
  <2>2. zwrites' > 0 BY <2>1
  <2> QED BY <2>1, <2>2 DEF WalkPlace
<1>4. CASE DrainEnd \/ DrainIdle
  BY <1>4 DEF DrainEnd, DrainIdle, TurnOver, WalkPlace
<1>5. CASE NoAnswer \/ ZigbeeClose
  BY <1>5 DEF NoAnswer, ZigbeeClose, Resume, WalkPlace
<1>6. CASE PollNext BY <1>6 DEF PollNext, WalkPlace
<1>7. CASE PollEnd \/ Answer \/ ZigbeeOpen \/ ZigbeeBoot
  BY <1>7 DEF PollEnd, Answer, ZigbeeOpen, ZigbeeBoot, WalkPlace
<1>8. CASE Restart BY <1>8 DEF Restart, WalkPlace, NoCursor
<1>9. CASE UNCHANGED vars \/ Spill BY <1>9 DEF vars, Spill, WalkPlace
<1> QED BY <1>1, <1>2, <1>3, <1>4, <1>5, <1>6, <1>7, <1>8, <1>9
       DEF Next, Zigbee

LEMMA WrittenStep == ASSUME Written, TypeOK, [Next]_vars PROVE Written'
<1> USE DEF fileVars, dtuVars, zigbeeVars, ghostVars, sentVars
<1>1. CASE SendEntry \/ SendAgain
  <2>1. Write /\ zentry' = zentry BY <1>1 DEF SendEntry, SendAgain, Write
  <2>2. \A t \in Among(<<zentry>>) : Executed(t)' BY <2>1, SendExecutes
  <2> QED BY <2>1, <2>2 DEF Written
<1>2. CASE UNCHANGED <<zwrites, zentry, executed>>
  BY <1>2 DEF Written, Executed
<1>3. CASE zwrites' = 0 BY <1>3 DEF Written
<1>4. CASE Dtu
  BY <1>2, <1>4
     DEF Dtu, RelayRead, ConfigStart, ConfigRead, DtuOpen, DtuClose, ConfigOpen,
         ConfigClose, DtuBoot, DefaultSave
<1>5. CASE DrainNext \/ DrainEnd \/ DrainIdle
  BY <1>3, <1>5 DEF DrainNext, DrainEnd, DrainIdle, TurnOver, TypeOK
<1>6. CASE \/ ZigbeeBoot \/ Answer \/ NoAnswer \/ PollNext \/ PollEnd
           \/ ZigbeeOpen \/ ZigbeeClose
  BY <1>2, <1>3, <1>6

        DEF ZigbeeBoot, Answer, NoAnswer, PollNext, PollEnd, ZigbeeOpen,
            ZigbeeClose
<1>7. CASE Restart BY <1>3, <1>7 DEF Restart
<1>8. CASE Spill \/ UNCHANGED vars BY <1>2, <1>8 DEF Spill, vars
<1> QED BY <1>1, <1>4, <1>5, <1>6, <1>7, <1>8 DEF Next, Zigbee

(* An empty array has nothing that waits. *)
LEMMA NothingWaits ==
  ASSUME NEW S PROVE WaitsIn(<<>>, S) /\ WaitsIn(<<>>, S)'
<1>1. Tidy(<<>>) BY DEF Tidy
<1> QED BY <1>1, NothingThere DEF WaitsIn

(* The DTU thread adds what is younger than all that waits. *)
LEMMA DtuWaitsStep == ASSUME MailInv, Dtu, ~raced' PROVE Waits'
<1> USE DEF fileVars, zigbeeVars, ghostVars, sentVars
<1>a. TypeOK /\ TypeOK' /\ PendingSaved
  BY TypeStep DEF MailInv, LossInv, Next
<1>b. /\ Known /\ FileWaits /\ ZigbeeWaits /\ DtuWaits /\ WalkReady
      /\ issued \in Nat /\ wop \in Request
  BY <1>a, RacedStays, BoundsAssumption DEF MailInv, Waits, TypeOK
<1>c. UNCHANGED <<executed, zcopy, zentry, cursor, zpc>>
  BY DEF Dtu, RelayRead, ConfigStart, ConfigRead, DtuOpen, DtuClose, ConfigOpen,
         ConfigClose, DtuBoot, DefaultSave
<1>d. \A t : Executed(t)' <=> Executed(t) BY <1>c DEF Executed
<1>e. Serving' = Serving BY <1>c DEF Serving
<1>f. \A q, S : WaitsIn(q, S)' <=> WaitsIn(q, S) BY <1>c, <1>d DEF WaitsIn
<1>g. ASSUME acked' = acked PROVE WalkReady'
  <2>1. \A e : Ready(e)' <=> Ready(e) BY <1>d, <1>g DEF Ready
  <2> QED BY <1>b, <1>c, <2>1 DEF WalkReady
<1>h. ASSUME UNCHANGED <<file, acked>> PROVE FileWaits'
  BY <1>b, <1>c, <1>d, <1>e, <1>h DEF FileWaits, WaitsIn
<1>i. ASSUME acked' = acked, fresh'["zigbee"] = fresh["zigbee"]
      PROVE  ZigbeeWaits'
  BY <1>b, <1>c, <1>d, <1>i DEF ZigbeeWaits, WaitsIn, Saving
<1>j. [fresh EXCEPT !["dtu"] = TRUE]["zigbee"] = fresh["zigbee"]
  BY <1>a DEF TypeOK, Thread
<1>1. ASSUME NEW c \in Controllers, RelayRead(c) PROVE Waits'
  <2> DEFINE t == <<issued + 1, c>>
             q == file.controllercmd
  <2>0. /\ file # Torn /\ UNCHANGED <<file, acked>>
        /\ wpc' = "save" /\ wop' = [cmd |-> "relay", id |-> c]
        /\ issued' = issued + 1 /\ fresh'["zigbee"] = fresh["zigbee"]
    BY <1>1, <1>j DEF RelayRead
  <2>1. /\ file # Torn /\ UNCHANGED <<file, acked>>
        /\ Relaying' /\ Pending' = t /\ fresh'["zigbee"] = fresh["zigbee"]
    BY <2>0 DEF Relaying, Saving, Pending
  <2>2. ASSUME Serving PROVE WaitsIn(wcopy'.controllercmd, acked \union {t})
    <3>a. file \in Root BY <1>a, <2>1 DEF TypeOK
    <3>b. q \in Seq(Entry) BY <3>a DEF Root
    <3>c. t \in Command BY <1>b DEF Command
    <3>1. file \in Root /\ q \in Seq(Entry) /\ t \in Command
      BY <3>a, <3>b, <3>c
    <3>2. wcopy'.controllercmd = AddCommand(q, c, t)
      BY <1>1, <2>1, <3>1 DEF RelayRead, Root
    <3>3. WaitsIn(q, acked) BY <1>b, <2>1, <2>2 DEF FileWaits
    <3>4. Old = issued /\ t[1] = issued + 1
      BY <1>1 DEF RelayRead, Old, Relaying, Saving
    <3>5. \A u : u \in acked \/ Executed(u) => u[1] < t[1]
      BY <1>b, <3>4 DEF Known, Numbered, Command
    <3> HIDE DEF q, t
    <3>6. Tidy(wcopy'.controllercmd)
      BY <3>1, <3>2, <3>3, <3>5, AddCommandTidy DEF WaitsIn
    <3>7. Among(wcopy'.controllercmd) \subseteq Among(q) \union {t}
      BY <3>1, <3>2, AddCommandAmong
    <3>8. t[1] \in Nat BY <3>1 DEF Command
    <3>9. ~Executed(t) BY <3>5, <3>8
    <3> QED BY <3>3, <3>6, <3>7, <3>9 DEF WaitsIn
  <2> HIDE DEF t, q
  <2>3. DtuWaits' BY <1>e, <1>f, <2>1, <2>2 DEF DtuWaits
  <2> QED BY <1>g, <1>h, <1>i, <2>1, <2>3 DEF Waits
<1>2. CASE DtuClose
  <2>0. file' = wcopy BY <1>2, CleanClose DEF DtuClose, MailInv, LossInv
  <2>1. /\ file' = wcopy /\ fresh["dtu"] /\ ~fresh'["zigbee"]
        /\ wpc = "close" /\ ~Saving(wpc')
        /\ acked' = IF Relaying THEN acked \union {Pending} ELSE acked
    BY <1>2, <1>a, <2>0 DEF DtuClose, Close, Peer, Saving, Relaying, AfterSave,
                            TypeOK, Thread
  <2>2. DtuWaits' /\ ZigbeeWaits' BY <2>1 DEF DtuWaits, ZigbeeWaits
  <2>3. Serving => WaitsIn(wcopy.controllercmd, acked')
    BY <1>b, <2>1 DEF DtuWaits, Saving
  <2>4. FileWaits'
    BY <1>c, <1>d, <1>e, <2>1, <2>3 DEF FileWaits, WaitsIn
  <2>5. CASE ~Relaying BY <1>g, <2>1, <2>2, <2>4, <2>5 DEF Waits
  <2>6. CASE Relaying
    <3>1. acked' = acked \union {Pending} /\ Pending[1] = issued
      BY <2>1, <2>6 DEF Pending
    <3>2. \A u \in acked : u[1] < issued
      BY <1>b, <2>6 DEF Known, Old, Numbered, Command
    <3>3. \A e : Ready(e) => Ready(e)'
      BY <1>d, <3>1, <3>2 DEF Ready
    <3>4. WalkReady' BY <1>b, <1>c, <3>3 DEF WalkReady
    <3> QED BY <2>2, <2>4, <3>4 DEF Waits
  <2> QED BY <2>5, <2>6
<1>3. CASE ConfigRead
  <2>1. /\ file # Torn /\ UNCHANGED <<file, acked>> /\ wcopy' \in Edited(file)
        /\ fresh'["zigbee"] = fresh["zigbee"] /\ ~Relaying'
    BY <1>3, <1>a, <1>j DEF ConfigRead, PendingSaved, Relaying
  <2>2. file \in Root BY <1>a, <2>1 DEF TypeOK
  <2>3. wcopy'.controllercmd = file.controllercmd
    BY <1>b, <2>1, <2>2, EditedKeeps
  <2>4. DtuWaits'
    BY <1>b, <1>c, <1>d, <1>e, <2>1, <2>3 DEF DtuWaits, FileWaits, WaitsIn
  <2> QED BY <1>g, <1>h, <1>i, <2>1, <2>4 DEF Waits
<1>4. CASE DtuOpen
  <2>1. /\ file' = Torn /\ UNCHANGED <<acked, wcopy, fresh, wop, issued>>
        /\ Saving(wpc) /\ Saving(wpc')
    BY <1>4 DEF DtuOpen, OpenLocked, OpenUnlocked, Truncate, Saving
  <2>2. Relaying' = Relaying /\ Pending' = Pending
    BY <2>1 DEF Relaying, Pending
  <2>3. DtuWaits'
    BY <1>b, <1>c, <1>d, <1>e, <2>1, <2>2 DEF DtuWaits, WaitsIn
  <2>4. FileWaits' BY <2>1 DEF FileWaits
  <2> QED BY <1>g, <1>i, <2>1, <2>3, <2>4 DEF Waits
<1>5. CASE ConfigStart \/ ConfigOpen \/ ConfigClose \/ DtuBoot \/ DefaultSave
  <2>1. UNCHANGED <<file, acked, fresh>> /\ ~Saving(wpc')
    BY <1>5 DEF ConfigStart, ConfigOpen, ConfigClose, DtuBoot, DefaultSave,
                Saving
  <2>2. DtuWaits' BY <2>1 DEF DtuWaits
  <2> QED BY <1>g, <1>h, <1>i, <2>1, <2>2 DEF Waits
<1> QED BY <1>1, <1>2, <1>3, <1>4, <1>5 DEF Dtu

(* The entries of an array that nobody has taken yet are ready.  The       *)
(* echoed commands of a box that are not executed are in the file          *)
(* (SafeInFile), there in an entry of that box (OnTarget), and the box has *)
(* one entry only (Tidy).                                                  *)
LEMMA FileReady ==
  ASSUME MailInv, ~raced, Serving, file # Torn, ~cursor.walking,
         NEW i \in DOMAIN file.controllercmd
  PROVE  Ready(file.controllercmd[i])
<1> DEFINE q == file.controllercmd
<1>1. WaitsIn(q, acked) BY DEF MailInv, Waits, FileWaits
<1>2. \A u \in acked : u \in Among(q) \/ Executed(u)
  BY DEF MailInv, LossInv, SafeInFile, SafeIn
<1>3. OnTarget(q) BY DEF MailInv, TargetInv
<1> HIDE DEF q
<1>i. i \in DOMAIN q BY DEF q
<1>4. q[i].cmd # <<>> /\ Ascending(q[i].cmd) BY <1>i, <1>1 DEF WaitsIn, Tidy
<1>5. ASSUME NEW t \in Those(q[i]) PROVE t \in acked /\ ~Executed(t)
  <2>1. t \in Among(q) BY <1>i, <1>5, AmongIs DEF Those
  <2> QED BY <1>1, <2>1 DEF WaitsIn
<1>6. ASSUME NEW u \in acked \ Those(q[i]), u[2] = q[i].id
      PROVE  Executed(u)
  <2>1. SUFFICES ASSUME u \in Among(q) PROVE FALSE BY <1>2
  <2>2. PICK k \in DOMAIN q : \E j \in DOMAIN q[k].cmd : q[k].cmd[j] = u
    BY <2>1, AmongIs
  <2>3. u[2] = q[k].id BY <1>3, <2>2 DEF OnTarget
  <2>4. k = i BY <1>i, <1>1, <1>6, <2>3 DEF WaitsIn, Tidy
  <2> QED BY <1>6, <2>2, <2>4 DEF Those
<1>7. Ready(q[i]) BY <1>4, <1>5, <1>6 DEF Ready
<1> QED BY <1>7 DEF q

(* The Zigbee thread walks what is ready and deletes it when it is done.   *)
LEMMA ZigbeeWaitsStep == ASSUME MailInv, Zigbee, ~raced' PROVE Waits'
<1> USE DEF fileVars, dtuVars, ghostVars, sentVars
<1>a. TypeOK /\ TypeOK' BY TypeStep DEF MailInv, LossInv, Next
<1>b. /\ ~raced /\ FileWaits /\ ZigbeeWaits /\ DtuWaits /\ WalkReady
      /\ WalkPlace /\ Written
  BY RacedStays DEF MailInv, Waits
<1>c. UNCHANGED <<acked, wcopy, wpc, wop, issued>>
  BY DEF Zigbee, ZigbeeBoot, DrainNext, DrainEnd, DrainIdle, SendEntry,
         SendAgain, Write, TurnOver, Answer, NoAnswer, PollNext, PollEnd,
         ZigbeeOpen, ZigbeeClose
<1>d. Relaying' = Relaying /\ Pending' = Pending
  BY <1>c DEF Relaying, Pending
<1>e. ASSUME executed' = executed PROVE \A t : Executed(t)' <=> Executed(t)
  BY <1>e DEF Executed
<1>f. ASSUME UNCHANGED <<executed, cursor>>, zpc' # "send" PROVE WalkReady'
  <2>1. \A e : Ready(e)' <=> Ready(e) BY <1>c, <1>e, <1>f DEF Ready
  <2> QED BY <1>b, <1>f, <2>1 DEF WalkReady
<1>g. ASSUME Serving, UNCHANGED <<executed, cursor>>, fresh'["dtu"] = fresh["dtu"]
      PROVE  DtuWaits'
  <2>1. \A t : Executed(t)' <=> Executed(t) BY <1>e, <1>g
  <2> QED BY <1>b, <1>c, <1>d, <1>g, <2>1 DEF DtuWaits, WaitsIn
<1>h. \A p, q \in Thread \union {"snapshot"}, v \in BOOLEAN :
        p # q => [fresh EXCEPT ![p] = v][q] = fresh[q]
  BY <1>a DEF TypeOK
<1>i. {"zigbee", "dtu", "snapshot"} = Thread \union {"snapshot"} BY DEF Thread
<1>1. CASE ZigbeeBoot
  <2>1. /\ zcopy' = FromConfig(config) /\ UNCHANGED <<executed, cursor>>
        /\ zpc' = "save"
    BY <1>1 DEF ZigbeeBoot
  <2>2. zcopy'.controllercmd = <<>> BY <2>1 DEF FromConfig
  <2>3. ZigbeeWaits' BY <2>2, NothingWaits DEF ZigbeeWaits
  <2>4. ~Serving' BY <2>1 DEF Serving
  <2> QED BY <1>f, <2>1, <2>3, <2>4 DEF Waits, FileWaits, DtuWaits
<1>2. CASE DrainNext
  <2>1. /\ UNCHANGED <<file, executed>> /\ Serving /\ Serving'
        /\ zpc' = "send" /\ cursor'.walking /\ ~Saving(zpc')
        /\ zentry' = Head(Walk) /\ cursor'.rest = Tail(Walk) /\ Walk # <<>>
        /\ Waiting # <<>>
    BY <1>2 DEF DrainNext, Serving, Saving
  <2>2. fresh'["dtu"] = fresh["dtu"]
    BY <1>2, <1>a DEF DrainNext, TypeOK, Thread
  <2>3. \A t : Executed(t)' <=> Executed(t) BY <1>e, <2>1
  <2>4. FileWaits'
    BY <1>b, <1>c, <2>1 DEF FileWaits, WaitsIn
  <2>5. ZigbeeWaits' BY <2>1 DEF ZigbeeWaits
  <2>6. DtuWaits'
    BY <1>b, <1>c, <1>d, <2>1, <2>2 DEF DtuWaits, WaitsIn
  <2>7. /\ \A i \in DOMAIN Walk : Ready(Walk[i])
        /\ \A i, j \in DOMAIN Walk : Walk[i].id = Walk[j].id => i = j
    <3>1. CASE cursor.walking BY <1>b, <3>1 DEF Walk, WalkReady
    <3>2. CASE ~cursor.walking
      <4>1. file # Torn /\ Walk = file.controllercmd
        BY <2>1, <3>2 DEF Walk, Waiting
      <4>2. Tidy(file.controllercmd) BY <1>b, <2>1, <4>1 DEF FileWaits, WaitsIn
      <4>3. \A i \in DOMAIN file.controllercmd : Ready(file.controllercmd[i])
        BY <1>b, <2>1, <3>2, <4>1, FileReady
      <4> QED BY <4>1, <4>2, <4>3 DEF Tidy
    <3> QED BY <3>1, <3>2
  <2>8. /\ 1 \in DOMAIN Walk /\ zentry' = Walk[1]
        /\ \A i \in DOMAIN cursor'.rest :
              i + 1 \in DOMAIN Walk /\ cursor'.rest[i] = Walk[i + 1] /\ i + 1 # 1
        /\ \A i, j \in DOMAIN cursor'.rest : i + 1 = j + 1 => i = j
    BY <1>a, <2>1, WalkType, RestEntries
  <2>9. \A e : Ready(e)' <=> Ready(e) BY <1>c, <2>3 DEF Ready
  <2>10. WalkReady' BY <2>7, <2>8, <2>9 DEF WalkReady
  <2> QED BY <2>4, <2>5, <2>6, <2>10 DEF Waits
<1>3. CASE DrainEnd
  <2>1. cursor' = NoCursor /\ zpc' = "save" BY <1>3 DEF DrainEnd
  <2>2. file \in Root BY <1>3, <1>a DEF DrainEnd, Waiting, TypeOK
  <2>3. zcopy'.controllercmd = <<>> BY <1>3, <2>2 DEF DrainEnd, Root
  <2>4. ZigbeeWaits' BY <2>3, NothingWaits DEF ZigbeeWaits
  <2>5. ~Serving' BY <2>1 DEF Serving
  <2>6. WalkReady' BY <2>1 DEF WalkReady, NoCursor
  <2> QED BY <2>4, <2>5, <2>6 DEF Waits, FileWaits, DtuWaits
<1>4. CASE DrainIdle \/ NoAnswer \/ PollNext \/ PollEnd
  <2>1. /\ UNCHANGED <<file, executed, cursor, fresh>> /\ Serving /\ Serving'
        /\ zpc' # "send" /\ ~Saving(zpc')
    BY <1>4 DEF DrainIdle, TurnOver, NoAnswer, PollNext, PollEnd, Resume,
                Serving, Saving
  <2>2. \A t : Executed(t)' <=> Executed(t) BY <1>e, <2>1
  <2>3. FileWaits' BY <1>b, <1>c, <2>1, <2>2 DEF FileWaits, WaitsIn
  <2>4. ZigbeeWaits' BY <2>1 DEF ZigbeeWaits
  <2> QED BY <1>f, <1>g, <2>1, <2>3, <2>4 DEF Waits
<1>5. CASE SendEntry
  <2>1. /\ UNCHANGED <<file, cursor, fresh>> /\ Serving /\ Serving'
        /\ zpc = "send" /\ zpc' = "answer" /\ ~Saving(zpc') /\ cursor.walking
    BY <1>5, <1>b DEF SendEntry, Write, Serving, Saving, WalkPlace
  <2>2. FileWaits' BY <1>b, <1>c, <2>1 DEF FileWaits, WaitsIn
  <2>3. ZigbeeWaits' BY <2>1 DEF ZigbeeWaits
  <2>4. DtuWaits' BY <1>b, <1>c, <1>d, <2>1 DEF DtuWaits, WaitsIn
  <2>5. \A t : Executed(t)' <=> Executed(t) \/ t \in Among(<<zentry>>)
    BY <1>5, <1>a, ExecutedBySend DEF SendEntry
  <2>6. \A t \in Among(<<zentry>>) : t[2] = zentry.id
    <3>1. OnTarget(<<zentry>>) BY DEF MailInv, TargetInv
    <3> QED BY <3>1, AmongIs DEF OnTarget
  <2>7. ASSUME NEW i \in DOMAIN cursor.rest PROVE Ready(cursor.rest[i])'
    <3> DEFINE e == cursor.rest[i]
    <3>1. Ready(e) /\ e.id # zentry.id BY <1>b, <2>1 DEF WalkReady
    <3>2. OnTarget(cursor.rest) BY DEF MailInv, TargetInv
    <3>3. \A t \in Those(e) : t[2] = e.id BY <3>2 DEF OnTarget, Those
    <3>4. e' = e BY <2>1
    <3> HIDE DEF e
    <3>5. \A t \in Those(e) : ~Executed(t)' BY <2>5, <2>6, <3>1, <3>3 DEF Ready
    <3>6. Ready(e)' BY <1>c, <2>5, <3>1, <3>4, <3>5 DEF Ready
    <3> QED BY <3>6 DEF e
  <2>8. WalkReady' BY <1>b, <2>1, <2>7 DEF WalkReady
  <2> QED BY <2>2, <2>3, <2>4, <2>8 DEF Waits
<1>6. CASE Answer
  <2>1. /\ UNCHANGED <<executed, cursor>> /\ zpc' = "save" /\ Serving
        /\ ~Serving' /\ fresh'["zigbee"] = (file # Torn)
    BY <1>6, <1>a DEF Answer, Serving, TypeOK, Thread
  <2>2. ASSUME file # Torn PROVE zcopy'.controllercmd = file.controllercmd
    BY <1>6, <1>a, <2>2, RecordedKeeps DEF Answer, ReadOrEmpty, TypeOK
  <2>3. \A t : Executed(t)' <=> Executed(t) BY <1>e, <2>1
  <2>4. ZigbeeWaits'
    BY <1>b, <1>c, <2>1, <2>2, <2>3 DEF ZigbeeWaits, FileWaits, WaitsIn
  <2> QED BY <1>f, <2>1, <2>4 DEF Waits, FileWaits, DtuWaits
<1>7. CASE ZigbeeOpen
  <2>1. /\ UNCHANGED <<executed, cursor, fresh, zcopy>> /\ file' = Torn
        /\ ~Serving' /\ Saving(zpc) /\ zpc' # "send"
    BY <1>7 DEF ZigbeeOpen, OpenLocked, Truncate, Serving, Saving
  <2>2. \A t : Executed(t)' <=> Executed(t) BY <1>e, <2>1
  <2>3. ZigbeeWaits' BY <1>b, <1>c, <2>1, <2>2 DEF ZigbeeWaits, WaitsIn
  <2> QED BY <1>f, <2>1, <2>3 DEF Waits, FileWaits, DtuWaits
<1>8. CASE ZigbeeClose
  <2>0. file' = zcopy BY <1>8, CleanClose DEF ZigbeeClose, MailInv, LossInv
  <2>1. /\ UNCHANGED <<executed, cursor>> /\ file' = zcopy /\ fresh["zigbee"]
        /\ ~fresh'["dtu"] /\ Saving(zpc) /\ ~Saving(zpc') /\ zpc' # "send"
    BY <1>8, <1>a, <2>0
       DEF ZigbeeClose, Close, Peer, Saving, Resume, TypeOK, Thread
  <2>2. \A t : Executed(t)' <=> Executed(t) BY <1>e, <2>1
  <2>3. FileWaits'
    BY <1>b, <1>c, <2>1, <2>2 DEF FileWaits, ZigbeeWaits, WaitsIn
  <2>4. ZigbeeWaits' /\ DtuWaits' BY <2>1 DEF ZigbeeWaits, DtuWaits
  <2> QED BY <1>f, <2>1, <2>3, <2>4 DEF Waits
<1>9. CASE SendAgain
  <2>1. /\ Write /\ UNCHANGED <<file, cursor, fresh>> /\ Serving /\ Serving'
        /\ zpc' # "send" /\ ~Saving(zpc') /\ zwrites > 0
    BY <1>9, <1>b DEF SendAgain, Write, Serving, Saving, WalkPlace
  <2>2. \A t : Executed(t)' <=> Executed(t)
    BY <1>a, <1>b, <2>1, ExecutedBySend DEF Written
  <2>3. FileWaits' BY <1>b, <1>c, <2>1, <2>2 DEF FileWaits, WaitsIn
  <2>4. ZigbeeWaits' BY <2>1 DEF ZigbeeWaits
  <2>5. DtuWaits' BY <1>b, <1>c, <1>d, <2>1, <2>2 DEF DtuWaits, WaitsIn
  <2>6. \A e : Ready(e)' <=> Ready(e) BY <1>c, <2>2 DEF Ready
  <2>7. WalkReady' BY <1>b, <2>1, <2>6 DEF WalkReady
  <2> QED BY <2>3, <2>4, <2>5, <2>7 DEF Waits
<1> QED BY <1>1, <1>2, <1>3, <1>4, <1>5, <1>6, <1>7, <1>8, <1>9 DEF Zigbee

(* The invariant of the mailbox holds from the start and is kept. *)
LEMMA MailInit == Init => MailInv
<1> SUFFICES ASSUME Init PROVE MailInv OBVIOUS
<1>1. LossInv /\ TargetInv BY LossInit, TargetInit
<1>2. \A t : ~Executed(t) BY DEF Init, Executed
<1>3. Known BY <1>2, NothingThere DEF Init, Known
<1>4. WalkPlace /\ Written BY DEF Init, WalkPlace, Written, NoCursor
<1>5. Waits
  BY DEF Init, Waits, FileWaits, ZigbeeWaits, DtuWaits, WalkReady, Serving,
         Saving, NoCursor
<1> QED BY <1>1, <1>3, <1>4, <1>5 DEF MailInv

LEMMA MailInvStep == MailInv /\ [Next]_vars => MailInv'
<1> SUFFICES ASSUME MailInv, [Next]_vars PROVE MailInv' OBVIOUS
<1>a. LossInv' /\ TargetInv' /\ WalkPlace' /\ Written'
  BY LossStep, TargetStep, WalkPlaceStep, WrittenStep DEF MailInv, LossInv
<1>b. TypeOK /\ PendingSaved /\ Known BY DEF MailInv, LossInv
<1>1. CASE Dtu BY <1>a, <1>b, <1>1, KnownDtu, DtuWaitsStep DEF MailInv
<1>2. CASE Zigbee BY <1>a, <1>b, <1>2, KnownZigbee, ZigbeeWaitsStep DEF MailInv
<1>3. CASE Restart
  <2>1. Known' BY <1>b, <1>3, KnownRestart
  <2>2. Waits'
    BY <1>3 DEF Restart, Waits, FileWaits, ZigbeeWaits, DtuWaits, WalkReady,
                Serving, Saving, NoCursor
  <2> QED BY <1>a, <2>1, <2>2 DEF MailInv
<1>4. CASE UNCHANGED vars
  <2> USE <1>4 DEF vars, fileVars, dtuVars, zigbeeVars, ghostVars, sentVars
  <2>1. \A t : Executed(t)' <=> Executed(t) BY DEF Executed
  <2>2. \A q, S : WaitsIn(q, S)' <=> WaitsIn(q, S) BY <2>1 DEF WaitsIn
  <2>3. \A e : Ready(e)' <=> Ready(e) BY <2>1 DEF Ready
  <2>4. Old' = Old /\ Relaying' = Relaying /\ Pending' = Pending
          /\ Serving' = Serving
    BY DEF Old, Relaying, Pending, Serving
  <2>5. Known' BY <1>b, <2>1, <2>4 DEF Known
  <2>6. FileWaits' = FileWaits
    BY <2>1, <2>4 DEF FileWaits, WaitsIn
  <2>7. ZigbeeWaits' = ZigbeeWaits BY <2>1 DEF ZigbeeWaits, WaitsIn
  <2>8. DtuWaits' = DtuWaits BY <2>1, <2>4 DEF DtuWaits, WaitsIn
  <2>9. WalkReady' = WalkReady BY <2>3 DEF WalkReady
  <2> QED BY <1>a, <2>5, <2>6, <2>7, <2>8, <2>9 DEF MailInv, Waits
<1>5. CASE Spill
  <2>1. /\ raced' /\ file' = Torn
        /\ UNCHANGED <<wcopy, zcopy, cursor, zentry, executed, acked, issued,
                       wpc, wop>>
    BY <1>5 DEF Spill, MailInv, LossInv, MixedRaces, dtuVars, zigbeeVars,
                ghostVars, sentVars
  <2>2. (\A t : Executed(t)' <=> Executed(t)) /\ Old' = Old
    BY <2>1 DEF Executed, Old, Relaying
  <2>3. Known' BY <1>b, <2>1, <2>2 DEF Known
  <2> QED BY <1>a, <2>1, <2>3 DEF MailInv
<1> QED BY <1>1, <1>2, <1>3, <1>4, <1>5 DEF Next

-----------------------------------------------------------------------------
(* The steps of the mailbox. *)

(* The commands of an entry in their order are its sequence. *)
LEMMA AscendingInOrder ==
  ASSUME NEW s \in Seq(Command), Ascending(s),
         NEW S, S = {s[j] : j \in DOMAIN s}
  PROVE  s \in Mail!InOrder(S)
<1>1. Len(s) \in Nat /\ DOMAIN s = 1..Len(s) BY LenProperties
<1>2. s \in [1..Len(s) -> S] BY <1>1
<1>3. \A i, j \in 1..Len(s) : i # j => s[i] # s[j]
  <2>1. \A i \in 1..Len(s) : s[i] \in Command BY <1>1, ElementOfSeq
  <2>2. \A i, j \in 1..Len(s) : i < j => s[i][1] < s[j][1] BY <1>1 DEF Ascending
  <2>3. \A i \in 1..Len(s) : s[i][1] \in Nat BY <2>1 DEF Command
  <2>4. \A i, j \in 1..Len(s) : i < j => s[i] # s[j] BY <2>2, <2>3
  <2>5. \A i, j \in 1..Len(s) : i # j => i < j \/ j < i OBVIOUS
  <2> QED BY <2>4, <2>5
<1>4. ExistsBijection(1..Len(s), S)
  <2>1. IsInjective(s) BY <1>1, <1>3 DEF IsInjective
  <2>2. \A t \in S : \E j \in 1..Len(s) : s[j] = t BY <1>1
  <2>3. s \in Bijection(1..Len(s), S)
    BY <1>2, <2>1, <2>2 DEF Bijection, Injection, Surjection
  <2> QED BY <2>3 DEF ExistsBijection
<1>5. IsFiniteSet(1..Len(s)) /\ Cardinality(1..Len(s)) = Len(s)
  BY <1>1, FS_Interval
<1>6. Cardinality(S) = Len(s) BY <1>4, <1>5, FS_Bijection
<1>7. Mail!Cardinality(S) = Cardinality(S)
  BY DEF Mail!Cardinality, Cardinality, Mail!IsFiniteSet, IsFiniteSet
<1> QED BY <1>1, <1>2, <1>6, <1>7 DEF Mail!InOrder, Ascending

Message == IF zwrites = 0 THEN NoEntry ELSE zentry

(* The write of a merged entry to its relay box delivers the oldest of     *)
(* what waits for the box.                                                 *)
LEMMA SendDelivers ==
  ASSUME MailInv, SendEntry, ~raced PROVE \E c \in Controllers : Mail!Deliver(c)
<1> DEFINE c == zentry.id
           S == Those(zentry)
<1>1. Ready(zentry) /\ zentry \in Entry
  BY DEF MailInv, LossInv, TypeOK, Waits, WalkReady, SendEntry
<1>2. c \in Controllers /\ zentry.cmd \in Seq(Command) BY <1>1 DEF Entry
<1>3. \A t \in S : t[2] = c
  <2>1. OnTarget(<<zentry>>) BY DEF MailInv, TargetInv
  <2> QED BY <2>1 DEF OnTarget, Those
<1>4. \A u : u \in Mail!Delivered(c) => Executed(u)
  BY <1>2 DEF Mail!Delivered, Executed
<1>5. \A u : Executed(u) /\ u[2] = c => u \in Mail!Delivered(c)
  <2>1. CommandsOnTarget BY DEF MailInv, TargetInv
  <2> QED BY <2>1 DEF CommandsOnTarget, Mail!Delivered, Executed
<1>6. S # {}
  <2>1. zentry.cmd # <<>> BY <1>1 DEF Ready
  <2>2. 1 \in DOMAIN zentry.cmd
    BY <1>2, <2>1, EmptySeq, LenProperties
  <2> QED BY <2>2 DEF Those
<1>7. zentry.cmd \in Mail!InOrder(S)
  <2>1. Ascending(zentry.cmd) BY <1>1 DEF Ready
  <2> QED BY <1>2, <2>1, AscendingInOrder DEF Those
<1>8. S \in SUBSET Mail!Undelivered(c)
  <2>1. \A t \in S : t \in acked /\ ~Executed(t) BY <1>1 DEF Ready
  <2> QED BY <1>3, <1>4, <2>1 DEF Mail!Undelivered
<1>9. \A t \in S : \A u \in Mail!Undelivered(c) \ S : t[1] < u[1]
  <2>1. ASSUME NEW u \in Mail!Undelivered(c) \ S
        PROVE  u \in acked \ S /\ u[2] = c /\ ~Executed(u)
    BY <1>5, <2>1 DEF Mail!Undelivered
  <2> QED BY <1>1, <2>1 DEF Ready
<1>10. /\ executed' = [executed EXCEPT ![c] = @ \o zentry.cmd]
       /\ UNCHANGED <<acked, raced, zentry>> /\ zwrites = 0 /\ zwrites' = 1
  BY DEF SendEntry, Write, MailInv, LossInv, TypeOK
<1>11. Message' = [id |-> c, cmd |-> zentry.cmd]
  BY <1>1, <1>10 DEF Message, Entry
<1> HIDE DEF c, S
<1>12. Mail!Deliver(c)
  BY <1>6, <1>7, <1>8, <1>9, <1>10, <1>11 DEF Mail!Deliver, Message
<1> QED BY <1>2, <1>12 DEF c

(* Another write of it repeats the message. *)
LEMMA SendAgainRepeats ==
  ASSUME MailInv, SendAgain, ~raced PROVE Mail!Repeat
<1>1. /\ zwrites \in 1..(MaxWrites - 1) /\ zwrites' = zwrites + 1
      /\ zwrites' # 0
      /\ executed' = [executed EXCEPT ![zentry.id] = @ \o zentry.cmd]
      /\ UNCHANGED <<acked, raced, zentry>>
  BY BoundsAssumption
     DEF SendAgain, Write, MailInv, LossInv, TypeOK, WalkPlace
<1>2. Message = zentry /\ Message' = zentry BY <1>1 DEF Message
<1> QED BY <1>1, <1>2 DEF Mail!Repeat, Message

(* Every step is one of the mailbox or leaves it alone. *)
LEMMA MailStep ==
  ASSUME MailInv, MailInv', [Next]_vars PROVE [Mail!Next]_(Mail!vars)
<1> USE DEF fileVars, dtuVars, zigbeeVars, ghostVars, sentVars
<1>a. raced \in BOOLEAN /\ raced' \in BOOLEAN
  BY DEF MailInv, LossInv, TypeOK
<1>1. CASE raced' BY <1>1 DEF Mail!Next, Mail!Break
<1>2. CASE Dtu /\ ~raced'
  <2>1. ~raced /\ executed' = executed
    BY <1>2, RacedStays
       DEF Dtu, RelayRead, ConfigStart, ConfigRead, DtuOpen, DtuClose,
           ConfigOpen, ConfigClose, DtuBoot, DefaultSave
  <2>2. raced' = raced BY <1>a, <1>2, <2>1
  <2>m. zwrites' = zwrites /\ Message' = Message
    BY <1>2
       DEF Dtu, RelayRead, ConfigStart, ConfigRead, DtuOpen, DtuClose,
           ConfigOpen, ConfigClose, DtuBoot, DefaultSave, Message
  <2>3. CASE acked' = acked
    BY <2>1, <2>2, <2>3, <2>m DEF Mail!vars, Message
  <2>4. CASE acked' # acked
    <3>1. DtuClose /\ wop.cmd = "relay" /\ acked' = acked \union {Pending}
      BY <1>2, <2>4
         DEF Dtu, RelayRead, ConfigStart, ConfigRead, DtuOpen, DtuClose,
             ConfigOpen, ConfigClose, DtuBoot, DefaultSave
    <3>2. Old = issued - 1 /\ issued \in Nat
      BY <3>1, BoundsAssumption
         DEF DtuClose, Old, Relaying, Saving, MailInv, LossInv, TypeOK
    <3>3. \A u \in acked : u[1] < issued
      BY <3>2 DEF MailInv, Known, Numbered, Command
    <3>4. Pending[1] = issued BY DEF Pending
    <3>5. Mail!Acknowledge
      BY <2>1, <2>2, <2>4, <2>m, <3>1, <3>3, <3>4
         DEF Mail!Acknowledge, Message
    <3> QED BY <3>5 DEF Mail!Next
  <2> QED BY <2>3, <2>4
<1>3. CASE Zigbee /\ ~raced'
  <2>1. ~raced /\ acked' = acked
    BY <1>3, RacedStays
       DEF Zigbee, ZigbeeBoot, DrainNext, DrainEnd, DrainIdle, TurnOver,
           SendEntry, SendAgain, Write, Answer, NoAnswer, PollNext, PollEnd,
           ZigbeeOpen, ZigbeeClose
  <2>2. raced' = raced BY <1>a, <1>3, <2>1
  <2>3. CASE SendEntry BY <2>1, <2>3, SendDelivers DEF Mail!Next
  <2>4. CASE SendAgain BY <2>1, <2>4, SendAgainRepeats DEF Mail!Next
  <2>5. CASE Answer \/ NoAnswer
    <3>1. executed' = executed /\ zwrites' = 0
      BY <2>5 DEF Answer, NoAnswer
    <3>2. Message' = Mail!Nothing
      BY <3>1 DEF Message, NoEntry, Mail!Nothing
    <3>3. Mail!Settle BY <2>1, <2>2, <3>1, <3>2 DEF Mail!Settle, Message
    <3> QED BY <3>3 DEF Mail!Next
  <2>6. CASE \/ ZigbeeBoot \/ DrainNext \/ DrainEnd \/ DrainIdle
             \/ PollNext \/ PollEnd \/ ZigbeeOpen \/ ZigbeeClose
    <3>1. executed' = executed /\ zwrites' = zwrites /\ zwrites = 0
      BY <2>6
         DEF ZigbeeBoot, DrainNext, DrainEnd, DrainIdle, TurnOver, PollNext,
             PollEnd, ZigbeeOpen, ZigbeeClose, MailInv, LossInv, TypeOK
    <3>2. Message' = Message BY <3>1 DEF Message
    <3> QED BY <2>1, <2>2, <3>1, <3>2 DEF Mail!vars, Message
  <2> QED BY <1>3, <2>3, <2>4, <2>5, <2>6 DEF Zigbee
<1>4. CASE Restart
  <2>1. Message' = Mail!Nothing
    BY <1>4 DEF Restart, Message, NoEntry, Mail!Nothing
  <2>2. Mail!PowerCycle BY <1>4, <2>1 DEF Restart, Mail!PowerCycle, Message
  <2> QED BY <2>2 DEF Mail!Next
<1>5. CASE Spill /\ ~raced'
  BY <1>5 DEF Spill, MailInv, LossInv, MixedRaces
<1>6. CASE UNCHANGED vars
  <2>1. Message' = Message BY <1>6 DEF vars, Message
  <2> QED BY <1>6, <2>1 DEF vars, Mail!vars, Message
<1> QED BY <1>1, <1>2, <1>3, <1>4, <1>5, <1>6 DEF Next

(* The safety half of what sharemem.json promises the web: however its     *)
(* reads, saves and walks interleave, with any number of commands, boxes,  *)
(* polls and power cycles, an echoed relay command goes to its box in one  *)
(* message, after every older one that waits; the message is repeated only *)
(* before any other is sent, and nothing is sent that was not echoed       *)
(* (Save_Control_To_Json, Get_Controller_Json_Data, and Send_Function with *)
(* its three writes), until a save overwrites what its writer has not      *)
(* read.                                                                   *)
THEOREM MailboxSafely == Spec => Mail!Safety
<1>1. Init => Mail!Init
  <2> SUFFICES ASSUME Init PROVE Mail!Init OBVIOUS
  <2>1. Message = Mail!Nothing BY DEF Init, Message, NoEntry, Mail!Nothing
  <2> QED BY <2>1 DEF Init, Mail!Init, Message
<1>2. Init => MailInv BY MailInit
<1>3. MailInv /\ [Next]_vars => MailInv' BY MailInvStep
<1>4. MailInv /\ MailInv' /\ [Next]_vars => [Mail!Next]_(Mail!vars) BY MailStep
<1> QED BY <1>1, <1>2, <1>3, <1>4, PTL DEF Spec, Mail!Safety

=============================================================================
