------------------------------ MODULE ShareMem ------------------------------
(***************************************************************************)
(* sharemem.json, the file through which the DTU thread (the web side) and *)
(* the Zigbee thread (the device side) of the gateway talk to each other.  *)
(*                                                                         *)
(* Every operation on the file is a read-modify-write: GetJsonObject       *)
(* parses the file into a private tree, the operation edits the tree, and  *)
(* SaveJsonToFile truncates the file (fopen "w+") and prints the tree into *)
(* it.  pthread_mutex_this covers the save only, never the read, and four  *)
(* DTU handlers save without it, so that two streams may be open on the    *)
(* file at once.  The relay commands of the web travel in the              *)
(* "controllercmd" array: the DTU thread appends, the Zigbee thread walks  *)
(* a snapshot of the array, writes each entry to its relay box, again as   *)
(* long as nothing answers, and deletes the array of the file it reads     *)
(* when the walk is over.                                                  *)
(***************************************************************************)
EXTENDS Naturals, Sequences, FiniteSets

CONSTANTS
  Collectors,    \* ids of the data collectors (config "a2", sharemem "id")
  Controllers,   \* ids of the relay boxes (config "conid", sharemem "id")
  Torn,          \* what a reader sees while a writer is between fopen and fclose
  MaxCommands,   \* bound: relay commands the web sends
  MaxConfigs,    \* bound: configuration commands the web sends
  MaxPolls,      \* devices polled in one turn of the Zigbee loop
  MaxWrites,     \* writes of one message before it is given up: 3
  MaxRestarts    \* bound: power cycles

ASSUME BoundsAssumption ==
  /\ MaxCommands \in Nat /\ MaxConfigs \in Nat
  /\ MaxPolls \in Nat /\ MaxRestarts \in Nat /\ MaxWrites \in Nat \ {0}

VARIABLES
  file,       \* content of sharemem.json, or Torn
  mixed,      \* two streams have been open on it since it was opened alone
  lock,       \* pthread_mutex_this: "free", "dtu" or "zigbee"
  jsonroot,   \* collectors of the DTU thread's in-memory configuration
  config,     \* collectors of configinfo.json, or Torn
  wpc, wop, wcopy,             \* DTU thread: place, request, private tree
  zpc, zcopy, zentry, zpolls,  \* Zigbee thread: place, tree, entry, polls left
  zwrites,    \* writes of the entry in this call of Send_Function
  cursor,     \* json_temp / next_controller_id of Get_Controller_Json_Data
  issued, configs, restarts,   \* how often the environment has acted
  (* ghosts *)
  acked,      \* commands whose echo the DTU thread has sent to the web
  executed,   \* commands written to each relay box, repeated as they were
  served,     \* relay boxes written to in this turn of the loop
  fresh,      \* whose private tree still matches the file
  raced       \* some save has overwritten what its writer never read

fileVars == <<file, mixed, lock>>
dtuVars == <<jsonroot, config, wpc, wop, wcopy, issued, configs>>
zigbeeVars == <<zpc, zcopy, zentry, zpolls, zwrites, cursor>>
sentVars == <<executed, served>>
ghostVars == <<acked, sentVars, fresh, raced>>
vars == <<fileVars, dtuVars, zigbeeVars, restarts, ghostVars>>

-----------------------------------------------------------------------------
(* The data.  A relay command is numbered by its arrival and carries the   *)
(* relay box it is for; an entry of "controllercmd" merges the commands    *)
(* that wait for one box.  An absent "controllercmd" key is <<>>: the code *)
(* never stores an empty array.                                            *)

Command == Nat \X Controllers
Entry == [id : Controllers, cmd : Seq(Command)]
Probe == [listed : BOOLEAN, typed : BOOLEAN, data : BOOLEAN]
Unlisted == [listed |-> FALSE, typed |-> FALSE, data |-> FALSE]

Root ==
  [arrays : SUBSET {"collector", "transformer", "controller"},
   collector : [Collectors -> Probe],
   transformer : SUBSET Controllers,
   controller : SUBSET Controllers,
   controllercmd : Seq(Entry)]

(* A half-written file cannot be parsed. *)
ASSUME TornAssumption == Torn \notin Root /\ \A S \in SUBSET Collectors : Torn # S

(* The entry of a collector as configured: its types, no measurement yet. *)
Configured == [listed |-> TRUE, typed |-> TRUE, data |-> FALSE]

(* cJSON_CreateObject: what Create_Sharemem_Json starts from when the file *)
(* cannot be parsed.                                                       *)
EmptyRoot ==
  [arrays |-> {}, collector |-> [k \in Collectors |-> Unlisted],
   transformer |-> {}, controller |-> {}, controllercmd |-> <<>>]

(* cjson_from_config_to_sharemem: one typed, data-less entry per           *)
(* configured collector, the relay boxes twice, no pending command.        *)
FromConfig(ids) ==
  [arrays |-> {"collector", "transformer", "controller"},
   collector |-> [k \in Collectors |->
                    IF k \in ids THEN Configured ELSE Unlisted],
   transformer |-> Controllers, controller |-> Controllers,
   controllercmd |-> <<>>]

(* Mutants of AddCommand: the command replaces those that wait, or is      *)
(* merged into the first entry whatever its box.                           *)
AddCommandReplacing(q, c, t) ==
  IF \E i \in DOMAIN q : q[i].id = c
  THEN [i \in DOMAIN q |->
          IF q[i].id = c THEN [q[i] EXCEPT !.cmd = <<t>>] ELSE q[i]]
  ELSE Append(q, [id |-> c, cmd |-> <<t>>])

AddCommandToFirst(q, c, t) ==
  IF q # <<>> THEN [q EXCEPT ![1].cmd = Append(@, t)]
              ELSE <<[id |-> c, cmd |-> <<t>>]>>

(* Save_Control_To_Json: append to the entry of the box, or a new entry.   *)
AddCommand(q, c, t) ==
  IF \E i \in DOMAIN q : q[i].id = c
  THEN [i \in DOMAIN q |->
          IF q[i].id = c THEN [q[i] EXCEPT !.cmd = Append(@, t)] ELSE q[i]]
  ELSE Append(q, [id |-> c, cmd |-> <<t>>])

(* Mutant of RecordCollector: a collector that is not listed is added.     *)
RecordAnyCollector(root, k) ==
  [root EXCEPT !.arrays = @ \union {"collector"},
               !.collector[k] = [@ EXCEPT !.listed = TRUE, !.data = TRUE]]

(* Create_Sharemem_Json: the answer of a device, by the command byte of    *)
(* its frame.  A collector that is not listed is ignored unless the whole  *)
(* array is missing; relay boxes are added when they are not listed.       *)
RecordCollector(root, k) ==
  IF "collector" \notin root.arrays
  THEN [root EXCEPT !.arrays = @ \union {"collector"},
                    !.collector[k] = [listed |-> TRUE, typed |-> FALSE,
                                        data |-> TRUE]]
  ELSE IF root.collector[k].listed
       THEN [root EXCEPT !.collector[k].data = TRUE]
       ELSE root

RecordTransformer(root, c) ==
  [root EXCEPT !.arrays = @ \union {"transformer"},
               !.transformer = @ \union {c}]

RecordController(root, c) ==
  [root EXCEPT !.arrays = @ \union {"controller"},
               !.controller = @ \union {c}]

(* What an answer of the Zigbee bus can turn root into. *)
Recorded(root) ==
  {RecordCollector(root, k) : k \in Collectors}
    \union {RecordTransformer(root, c) : c \in Controllers}
    \union {RecordController(root, c) : c \in Controllers}

(* GetJsonObject, as Create_Sharemem_Json uses it. *)
ReadOrEmpty == IF file = Torn THEN EmptyRoot ELSE file

-----------------------------------------------------------------------------
(* Saving.  `fresh` and `raced` only record what happened: a private tree  *)
(* goes stale when the other thread saves, and a save of a stale tree is   *)
(* a race.  "snapshot" stands for the array the Zigbee thread is walking.  *)

Thread == {"dtu", "zigbee"}
Peer(p) == IF p = "dtu" THEN "zigbee" ELSE "dtu"
StreamOpen(p) == IF p = "dtu" THEN wpc = "close" ELSE zpc = "close"

(* fopen "w+" *)
Truncate(p) ==
  /\ file' = Torn
  /\ mixed' = StreamOpen(Peer(p))
  /\ raced' = (raced \/ ~fresh[p] \/ mixed')
  /\ UNCHANGED fresh

(* Mutant of OpenLocked: the lock is not waited for. *)
OpenTryLock(p) == lock' = p /\ Truncate(p)

(* pthread_mutex_lock and fopen, and fopen alone *)
OpenLocked(p) == lock = "free" /\ lock' = p /\ Truncate(p)

OpenUnlocked(p) == UNCHANGED lock /\ Truncate(p)

(* What the fclose of a stream leaves.  Alone, the text that was printed.  *)
(* Of two streams each writes from its own offset, whole blocks when it    *)
(* prints and the rest when it is closed: what counts is the text that     *)
(* reaches the beginning of the file, for cJSON_Parse stops behind it.  It *)
(* is this one, the one the other stream left (it was short, and closed    *)
(* when the blocks of this one were out), or begins with the one and goes  *)
(* on with the other.                                                      *)
Left(root) == IF mixed THEN {root, file, Torn} ELSE {root}

(* fclose and, if it was taken, the unlock *)
Close(p, root) ==
  /\ file' \in Left(root) /\ UNCHANGED mixed
  /\ lock' = IF lock = p THEN "free" ELSE lock
  /\ raced' = (raced \/ ~fresh[p])
  /\ fresh' = [fresh EXCEPT ![Peer(p)] = FALSE,
                            !["snapshot"] = @ /\ p # "dtu"]

(* fprintf of a text longer than the buffer of the stream, into a file     *)
(* that another stream has written to meanwhile.                           *)
Spill ==
  /\ mixed /\ \E p \in Thread : StreamOpen(p)
  /\ file' = Torn
  /\ UNCHANGED <<mixed, lock, dtuVars, zigbeeVars, restarts, ghostVars>>

-----------------------------------------------------------------------------
(* The DTU thread: Recv_Function on the frames of the web.                 *)

Request ==
  [cmd : {"none"}, id : {"none"}]
    \union [cmd : {"relay", "set_dpcontrol"}, id : Controllers]
    \union [cmd : {"del_dpcontrol"}, id : Controllers \union {"none"}]
    \union [cmd : {"set_dpinfo", "del_dpinfo"}, id : Collectors]
NoRequest == [cmd |-> "none", id |-> "none"]
Pending == <<issued, wop.id>>

(* CMD_CONTROL_RELAY.  The frame is echoed to the web whether or not       *)
(* Save_Control_To_Json could read the file.                               *)
RelayRead(c) ==
  /\ wpc = "idle" /\ issued < MaxCommands
  /\ issued' = issued + 1
  /\ IF file = Torn
     THEN /\ acked' = acked \union {<<issued + 1, c>>}
          /\ raced' = TRUE
          /\ UNCHANGED <<wpc, wop, wcopy, fresh>>
     ELSE /\ wop' = [cmd |-> "relay", id |-> c]
          /\ wcopy' = [file EXCEPT !.controllercmd =
                                     AddCommand(@, c, <<issued + 1, c>>)]
          /\ wpc' = "save"
          /\ fresh' = [fresh EXCEPT !["dtu"] = TRUE]
          /\ UNCHANGED <<acked, raced>>
  /\ UNCHANGED <<fileVars, jsonroot, config, configs, zigbeeVars, restarts,
                 sentVars>>

(* A configuration command changes jsonroot first.  CMD_DEL_DPINFO and     *)
(* CMD_DEL_DPCONTROL save configinfo.json before they turn to sharemem,    *)
(* the two CMD_SET after it.                                               *)
ConfigStart ==
  /\ wpc = "idle" /\ configs < MaxConfigs
  /\ configs' = configs + 1
  /\ \/ \E k \in Collectors :
          \/ /\ wop' = [cmd |-> "set_dpinfo", id |-> k]
             /\ jsonroot' = jsonroot \union {k}
             /\ wpc' = "read"
          \/ /\ wop' = [cmd |-> "del_dpinfo", id |-> k]
             /\ jsonroot' = jsonroot \ {k}
             /\ wpc' = "cfgopen"
     \/ \E c \in Controllers :
          \/ wop' = [cmd |-> "set_dpcontrol", id |-> c] /\ wpc' = "read"
          \/ wop' = [cmd |-> "del_dpcontrol", id |-> c] /\ wpc' = "cfgopen"
     \/ wop' = [cmd |-> "del_dpcontrol", id |-> "none"] /\ wpc' = "cfgopen"
  /\ (wop'.cmd \in {"set_dpcontrol", "del_dpcontrol"} => UNCHANGED jsonroot)
  /\ UNCHANGED <<fileVars, config, wcopy, issued, zigbeeVars, restarts,
                 ghostVars>>

(* The trees a configuration handler may make of the one it read.  The     *)
(* delete-all form (id 0, here "none") removes while it iterates, so every *)
(* second entry survives; which ones depends on the order of the array.    *)
Edited(root) ==
  CASE wop.cmd = "set_dpinfo" ->
         {[root EXCEPT !.collector[wop.id] = Configured]}
    [] wop.cmd = "del_dpinfo" ->
         {[root EXCEPT !.collector[wop.id] = Unlisted]}
    [] wop.cmd = "set_dpcontrol" ->
         {root, [root EXCEPT !.controller = @ \union {wop.id}]}
    [] wop.cmd = "del_dpcontrol" /\ wop.id # "none" ->
         {[root EXCEPT !.controller = @ \ {wop.id}]}
    [] OTHER ->
         {[root EXCEPT !.controller = @ \ gone] :
            gone \in {S \in SUBSET root.controller :
                        Cardinality(S) = (Cardinality(root.controller) + 1) \div 2}}

(* The array a configuration handler insists on: without it the handler    *)
(* logs an error and leaves sharemem.json alone.                           *)
EditedArray == IF wop.cmd \in {"set_dpinfo", "del_dpinfo"}
               THEN "collector" ELSE "controller"

AfterSave == IF wop.cmd \in {"set_dpinfo", "set_dpcontrol"}
             THEN "cfgopen" ELSE "idle"

ConfigRead ==
  /\ wpc = "read"
  /\ IF file = Torn \/ EditedArray \notin file.arrays
     THEN /\ wpc' = AfterSave
          /\ wop' = IF AfterSave = "idle" THEN NoRequest ELSE wop
          /\ raced' = TRUE
          /\ UNCHANGED <<wcopy, fresh>>
     ELSE /\ wcopy' \in Edited(file)
          /\ wpc' = "save"
          /\ fresh' = [fresh EXCEPT !["dtu"] = TRUE]
          /\ UNCHANGED <<wop, raced>>
  /\ UNCHANGED <<fileVars, jsonroot, config, issued, configs, zigbeeVars,
                 restarts, acked, sentVars>>

(* Save_Control_To_Json locks around its save, the four configuration      *)
(* handlers do not.                                                        *)
DtuOpen ==
  /\ wpc = "save"
  /\ IF wop.cmd = "relay" THEN OpenLocked("dtu") ELSE OpenUnlocked("dtu")
  /\ wpc' = "close"
  /\ UNCHANGED <<jsonroot, config, wop, wcopy, issued, configs, zigbeeVars,
                 restarts, acked, sentVars>>

DtuClose ==
  /\ wpc = "close"
  /\ Close("dtu", wcopy)
  /\ wcopy' = EmptyRoot
  /\ wpc' = AfterSave
  /\ wop' = IF AfterSave = "idle" THEN NoRequest ELSE wop
  /\ acked' = IF wop.cmd = "relay" THEN acked \union {Pending} ELSE acked
  /\ UNCHANGED <<jsonroot, config, issued, configs, zigbeeVars, restarts,
                 sentVars>>

(* SaveJsonToFile(jsonroot, JSON_CONFIG_FILE), never under the lock. *)
ConfigOpen ==
  /\ wpc = "cfgopen"
  /\ config' = Torn
  /\ wpc' = "cfgclose"
  /\ UNCHANGED <<fileVars, jsonroot, wop, wcopy, issued, configs, zigbeeVars,
                 restarts, ghostVars>>

ConfigClose ==
  /\ wpc = "cfgclose"
  /\ config' = jsonroot
  /\ IF AfterSave = "idle"
     THEN wpc' = "read" /\ UNCHANGED wop
     ELSE wpc' = "idle" /\ wop' = NoRequest
  /\ UNCHANGED <<fileVars, jsonroot, wcopy, issued, configs, zigbeeVars,
                 restarts, ghostVars>>

(* Start of the thread: without a readable configinfo.json a default one,  *)
(* with no collector in it, is made (Create_Pkgs) and saved.               *)
DtuBoot ==
  /\ wpc = "boot"
  /\ IF config = Torn
     THEN jsonroot' = {} /\ wpc' = "defopen"
     ELSE jsonroot' = config /\ wpc' = "idle"
  /\ UNCHANGED <<fileVars, config, wop, wcopy, issued, configs, zigbeeVars,
                 restarts, ghostVars>>

DefaultSave ==
  /\ wpc = "defopen"
  /\ config' = jsonroot
  /\ wpc' = "idle"
  /\ UNCHANGED <<fileVars, jsonroot, wop, wcopy, issued, configs, zigbeeVars,
                 restarts, ghostVars>>

Dtu ==
  \/ \E c \in Controllers : RelayRead(c)
  \/ ConfigStart \/ ConfigRead \/ DtuOpen \/ DtuClose
  \/ ConfigOpen \/ ConfigClose \/ DtuBoot \/ DefaultSave

-----------------------------------------------------------------------------
(* The Zigbee thread.                                                      *)

NoCursor == [walking |-> FALSE, rest |-> <<>>]
NoEntry == [id |-> "none", cmd |-> <<>>]

(* cjson_from_config_to_sharemem.  main starts this thread a second after  *)
(* the DTU thread, so a default configuration has been written by then.    *)
ZigbeeBoot ==
  /\ zpc = "boot" /\ wpc \notin {"boot", "defopen"}
  /\ IF config = Torn
     THEN zpc' = "drain" /\ raced' = TRUE /\ UNCHANGED <<zcopy, fresh>>
     ELSE /\ zcopy' = FromConfig(config)
          /\ zpc' = "save"
          /\ fresh' = [fresh EXCEPT !["zigbee"] = (acked = {} /\ wpc = "idle")]
          /\ UNCHANGED raced
  /\ UNCHANGED <<fileVars, dtuVars, zentry, zpolls, zwrites, cursor, restarts,
                 acked, sentVars>>

(* The array GetJsonObject finds; no file, no array and no entry are alike. *)
Waiting == IF file = Torn THEN <<>> ELSE file.controllercmd

(* Mutant of Walk: the next entry is that of the file, not the snapshot's. *)
WalkAnew == Waiting

Walk == IF cursor.walking THEN cursor.rest ELSE Waiting

(* Get_Controller_Json_Data returns 1: the next entry of the snapshot. *)
DrainNext ==
  /\ zpc = "drain" /\ Waiting # <<>> /\ Walk # <<>>
  /\ zentry' = Head(Walk)
  /\ cursor' = [walking |-> TRUE, rest |-> Tail(Walk)]
  /\ fresh' = [fresh EXCEPT !["snapshot"] = @ \/ ~cursor.walking]
  /\ zpc' = "send"
  /\ UNCHANGED <<fileVars, dtuVars, zcopy, zpolls, zwrites, restarts, acked,
                 sentVars, raced>>

(* Any other result ends the loop of this turn: the polls come next. *)
TurnOver ==
  /\ zentry' = NoEntry
  /\ zpolls' = MaxPolls
  /\ served' = {}
  /\ UNCHANGED <<zwrites, executed>>

(* Mutant of DrainEnd: the walk ends, the array stays. *)
DrainEndKeeping ==
  /\ zpc = "drain" /\ Waiting # <<>> /\ Walk = <<>>
  /\ cursor' = NoCursor
  /\ TurnOver
  /\ zpc' = "poll"
  /\ UNCHANGED <<fileVars, dtuVars, zcopy, restarts, acked, fresh, raced>>

(* Get_Controller_Json_Data at the end of the walk: it drops the whole     *)
(* array of the file it has just read, not of the snapshot it walked.      *)
DrainEnd ==
  /\ zpc = "drain" /\ Waiting # <<>> /\ Walk = <<>>
  /\ cursor' = NoCursor
  /\ zcopy' = [file EXCEPT !.controllercmd = <<>>]
  /\ fresh' = [fresh EXCEPT !["zigbee"] = fresh["snapshot"]]
  /\ TurnOver
  /\ zpc' = "save"
  /\ UNCHANGED <<fileVars, dtuVars, restarts, acked, raced>>

(* Get_Controller_Json_Data returns -1 with nothing to do; the walk, if    *)
(* one is under way, is resumed by a later call.                           *)
DrainIdle ==
  /\ zpc = "drain" /\ Waiting = <<>>
  /\ TurnOver
  /\ zpc' = "poll"
  /\ UNCHANGED <<fileVars, dtuVars, zcopy, cursor, restarts, acked, fresh, raced>>

(* write(fd, Buf_Send, ...): the merged entry, to its relay box. *)
Write ==
  /\ executed' = [executed EXCEPT ![zentry.id] = @ \o zentry.cmd]
  /\ zwrites' = zwrites + 1
  /\ UNCHANGED <<fileVars, dtuVars, zcopy, zentry, zpolls, cursor, restarts,
                 acked, fresh, raced>>

(* Send_Function *)
SendEntry ==
  /\ zpc = "send"
  /\ Write
  /\ served' = served \union {zentry.id}
  /\ zpc' = "answer"

(* goto write_fd_again, after 500 empty reads.  The question of a poll is  *)
(* repeated as well, which leaves no trace here.                           *)
SendAgain ==
  /\ zpc = "answer" /\ zentry # NoEntry /\ zwrites < MaxWrites
  /\ Write
  /\ UNCHANGED <<zpc, served>>

(* Where the thread goes after an answer has been dealt with. *)
Resume == IF zentry = NoEntry THEN "poll" ELSE "drain"

(* Create_Sharemem_Json on an answer; Send_Function accepts the answer of  *)
(* any device, whichever it asked.                                         *)
Answer ==
  /\ zpc = "answer"
  /\ zcopy' \in Recorded(ReadOrEmpty)
  /\ fresh' = [fresh EXCEPT !["zigbee"] = (file # Torn)]
  /\ zwrites' = 0
  /\ zpc' = "save"
  /\ UNCHANGED <<fileVars, dtuVars, zentry, zpolls, cursor, restarts, acked,
                 sentVars, raced>>

(* Send_Function gives up after the last write. *)
NoAnswer ==
  /\ zpc = "answer" /\ zwrites \in {0, MaxWrites}
  /\ zwrites' = 0
  /\ zpc' = Resume
  /\ UNCHANGED <<fileVars, dtuVars, zcopy, zentry, zpolls, cursor, restarts,
                 ghostVars>>

PollNext ==
  /\ zpc = "poll" /\ zpolls > 0
  /\ zpolls' = zpolls - 1
  /\ zpc' = "answer"
  /\ UNCHANGED <<fileVars, dtuVars, zcopy, zentry, zwrites, cursor, restarts,
                 ghostVars>>

PollEnd ==
  /\ zpc = "poll" /\ zpolls = 0
  /\ zpc' = "drain"
  /\ UNCHANGED <<fileVars, dtuVars, zcopy, zentry, zpolls, zwrites, cursor,
                 restarts, ghostVars>>

ZigbeeOpen ==
  /\ zpc = "save"
  /\ OpenLocked("zigbee")
  /\ zpc' = "close"
  /\ UNCHANGED <<dtuVars, zcopy, zentry, zpolls, zwrites, cursor, restarts,
                 acked, sentVars>>

ZigbeeClose ==
  /\ zpc = "close"
  /\ Close("zigbee", zcopy)
  /\ zcopy' = EmptyRoot
  /\ zpc' = Resume
  /\ UNCHANGED <<dtuVars, zentry, zpolls, zwrites, cursor, restarts, acked,
                 sentVars>>

Zigbee ==
  \/ ZigbeeBoot \/ DrainNext \/ DrainEnd \/ DrainIdle
  \/ SendEntry \/ SendAgain \/ Answer \/ NoAnswer \/ PollNext \/ PollEnd
  \/ ZigbeeOpen \/ ZigbeeClose

-----------------------------------------------------------------------------
(* A power cycle loses both threads, the lock and jsonroot; the two files  *)
(* stay as they are, torn if a save was under way.  What was acknowledged  *)
(* before it is given up: the boot of the Zigbee thread rebuilds the file. *)
Restart ==
  /\ restarts < MaxRestarts
  /\ restarts' = restarts + 1
  /\ lock' = "free" /\ mixed' = FALSE
  /\ wpc' = "boot" /\ wop' = NoRequest /\ wcopy' = EmptyRoot
  /\ zpc' = "boot" /\ zcopy' = EmptyRoot /\ zentry' = NoEntry
  /\ zpolls' = 0 /\ zwrites' = 0 /\ cursor' = NoCursor
  /\ acked' = {} /\ served' = {} /\ raced' = FALSE
  /\ fresh' = [p \in Thread \union {"snapshot"} |-> FALSE]
  /\ UNCHANGED <<file, jsonroot, config, issued, configs, executed>>

Init ==
  /\ file = Torn /\ mixed = FALSE /\ lock = "free"
  /\ config = Collectors /\ jsonroot = Collectors
  /\ wpc = "boot" /\ wop = NoRequest /\ wcopy = EmptyRoot
  /\ zpc = "boot" /\ zcopy = EmptyRoot /\ zentry = NoEntry /\ zpolls = 0
  /\ zwrites = 0 /\ cursor = NoCursor
  /\ issued = 0 /\ configs = 0 /\ restarts = 0
  /\ acked = {} /\ raced = FALSE
  /\ executed = [c \in Controllers |-> <<>>] /\ served = {}
  /\ fresh = [p \in Thread \union {"snapshot"} |-> FALSE]

Next == Dtu \/ Zigbee \/ Spill \/ Restart

(* Both threads are endless loops of the same process; nothing makes the   *)
(* web send a frame, a text overflow its buffer or the power fail.         *)
DtuProgress == ConfigRead \/ DtuOpen \/ DtuClose \/ ConfigOpen \/ ConfigClose
                 \/ DtuBoot \/ DefaultSave
Fairness == WF_vars(DtuProgress) /\ WF_vars(Zigbee)

Spec == Init /\ [][Next]_vars /\ Fairness

-----------------------------------------------------------------------------
(* Properties. *)

Places == {"boot", "idle", "read", "save", "close", "cfgopen", "cfgclose",
           "defopen"}
ZPlaces == {"boot", "drain", "send", "answer", "poll", "save", "close"}

(* The trees of both threads and of the file are well formed, and the      *)
(* counters stay in their ranges.                                          *)
TypeOK ==
  /\ file \in Root \union {Torn}
  /\ mixed \in BOOLEAN /\ lock \in Thread \union {"free"}
  /\ jsonroot \in SUBSET Collectors
  /\ config \in (SUBSET Collectors) \union {Torn}
  /\ wpc \in Places /\ wop \in Request /\ wcopy \in Root
  /\ zpc \in ZPlaces /\ zcopy \in Root
  /\ zentry \in Entry \union {NoEntry} /\ zpolls \in 0..MaxPolls
  /\ zwrites \in 0..MaxWrites
  /\ (zpc # "answer" => zwrites = 0) /\ (zpc = "send" => zentry \in Entry)
  /\ cursor \in [walking : BOOLEAN, rest : Seq(Entry)]
  /\ issued \in 0..MaxCommands /\ configs \in 0..MaxConfigs
  /\ restarts \in 0..MaxRestarts
  /\ acked \in SUBSET Command
  /\ executed \in [Controllers -> Seq(Command)]
  /\ served \in SUBSET Controllers
  /\ fresh \in [Thread \union {"snapshot"} -> BOOLEAN]
  /\ raced \in BOOLEAN

Among(q) == UNION {{q[i].cmd[j] : j \in DOMAIN q[i].cmd} : i \in DOMAIN q}
Saving(pc) == pc \in {"save", "close"}

(* Where a command can still be found. *)
Held(t) ==
  \/ file # Torn /\ t \in Among(file.controllercmd)
  \/ Saving(wpc) /\ t \in Among(wcopy.controllercmd)
  \/ Saving(zpc) /\ t \in Among(zcopy.controllercmd)
  \/ t \in Among(cursor.rest) \/ t \in Among(<<zentry>>)
  \/ \E c \in Controllers : \E i \in DOMAIN executed[c] : executed[c][i] = t

(* A relay command the web has had an answer to is never lost while no     *)
(* save has overwritten something its writer had not read                  *)
(* (Save_Control_To_Json, Get_Controller_Json_Data).                       *)
NoLossWithoutRace == ~raced => \A t \in acked : Held(t)

(* However saves interleave, a relay box only ever gets commands that were *)
(* addressed to it, although entries are merged by id and rewritten by     *)
(* both threads.                                                           *)
CommandsOnTarget ==
  \A c \in Controllers : \A i \in DOMAIN executed[c] : executed[c][i][2] = c

(* Between two requests of the web, and without a race, the polled list of *)
(* collectors is the configured one, also after a restart: the answer of a *)
(* collector that has been deleted meanwhile does not bring it back        *)
(* (Create_Sharemem_Json, cjson_from_config_to_sharemem).                  *)
CollectorsInSync ==
  (/\ ~raced /\ file # Torn
   /\ wpc = "idle" /\ zpc \in {"drain", "send", "answer", "poll"})
     => {k \in Collectors : file.collector[k].listed} = jsonroot
StateInSync == TypeOK /\ CollectorsInSync

(* As long as the web only switches relays, whatever the polls bring and   *)
(* wherever the power is cut: once the boot has rebuilt the file it can be *)
(* parsed whenever nobody is saving, for both saves take the mutex         *)
(* (Save_Control_To_Json, Create_Sharemem_Json, Get_Controller_Json_Data). *)
Settled == zpc \in {"drain", "send", "answer", "poll"} /\ wpc # "close"
RelaysLeaveReadable == (configs = 0 /\ Settled) => file # Torn

(* Whichever way saves overlap, the file can be parsed once the last of    *)
(* them has closed it: what pthread_mutex_this is for.                     *)
SavingNow == wpc = "close" \/ zpc = "close"
LastSaverLeavesReadable ==
  [][(SavingNow /\ ~SavingNow' /\ restarts' = restarts) => file' # Torn]_vars

(* However fast the web adds commands, a turn of the Zigbee loop sends each *)
(* relay box one message at most, so the polls are not starved: what is    *)
(* added is not walked before the next turn (Get_Controller_Json_Data in   *)
(* the loop of the Zigbee thread).                                         *)
OneMessagePerTurn ==
  [][(zpc = "send" /\ zpc' = "answer") => zentry.id \notin served]_vars

(* The save under the lock is never entered by both threads (the unlocked  *)
(* saves of the configuration handlers are outside of it).                 *)
LockedSaveExclusive ==
  ~(zpc = "close" /\ wpc = "close" /\ wop.cmd = "relay")
=============================================================================
