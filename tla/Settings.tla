------------------------------ MODULE Settings ------------------------------
(***************************************************************************)
(* The collectors, their thresholds, the version and the address of the    *)
(* gateway: the part of jsonroot and of configinfo.json that the remaining *)
(* commands of Recv_Function set and read, with power cuts between the     *)
(* steps of a command.  Meanwhile the automatic control, in the main       *)
(* thread, reads the thresholds from the file (Get_Collecter_id).          *)
(*                                                                         *)
(* A command edits jsonroot at once, then takes the steps of todo.  What   *)
(* SET_DPINFO and DEL_DPINFO do to sharemem.json is in ShareMem; here it   *)
(* is a step in which power may be cut.                                    *)
(***************************************************************************)
EXTENDS Naturals, Sequences, FiniteSets, SequencesExt

CONSTANTS
  Collectors,   \* ids of collectors ("a2")
  Lights,       \* light thresholds of a frame: high and low byte
  Versions,     \* versions of a frame: two bytes
  Unset,        \* an attribute that is not there; a promise not made
  Torn,         \* configinfo.json between fopen and fclose
  Packed,       \* configurations an update archive may install (pack_ota.sh)
  MaxCommands,  \* bound: commands of the web
  MaxRestarts   \* bound: power cycles

ASSUME SettingsAssumption ==
  /\ {"ver", "address", "none"} \cap Collectors = {}
  /\ Unset \notin Nat /\ Unset \notin Nat \X Nat
  /\ Lights \subseteq (0..255) \X (0..255) /\ Versions \subseteq (0..255) \X (0..255)
  /\ MaxCommands \in Nat /\ MaxRestarts \in Nat

VARIABLES
  jsonroot,  \* in memory: collectors, ver, address
  config,    \* configinfo.json, or Torn
  request,   \* the command being handled
  todo,      \* what is left to do for it
  alive,     \* the process has not died of a null pointer
  rule,      \* what the automatic control read last, and of which collector
  sent, restarts,
  (* ghosts *)
  answer,    \* the last answer
  promise    \* by item: the value the web was last told is set

vars == <<jsonroot, config, request, todo, alive, rule, sent, restarts, answer,
          promise>>

-----------------------------------------------------------------------------
(* limits stands for temps, tempx and all thresholds but those of light,   *)
(* by the number of the command that set them; light for illumins and      *)
(* illuminx, stray for oilhumins and oilhuminx.                            *)

Revision == 0..MaxCommands
Words == 0..65535
Collector ==
  [a2 : Collectors, info : Revision, limits : Revision \union {Unset},
   light : Words \union {Unset}, stray : Words \union {Unset}]
Address == {4, 6} \X Revision   \* kind and what command set it, with the port
Tree == [collector : Seq(Collector), ver : Nat, address : Address]

Unique(q) == \A i, j \in DOMAIN q : q[i].a2 = q[j].a2 => i = j

(* A configuration a frame or an archive can have made. *)
Sound(tree) ==
  /\ tree \in Tree /\ Unique(tree.collector)
  /\ tree.ver \in {v[1] * 100 + v[2] : v \in Versions} \union {104}

(* The archives carry such configurations; what is half written is none.   *)
ASSUME TreeAssumption ==
  /\ Torn \notin Tree
  /\ \A tree \in Packed : Sound(tree)

Items == Collectors \union {"ver", "address"}
NoPromise == [x \in Items |-> Unset]

Ids(q) == {q[i].a2 : i \in DOMAIN q}
At(q, c) == CHOOSE i \in DOMAIN q : q[i].a2 = c
Has(tree, c) == c \in Ids(tree.collector)
Find(tree, c) == tree.collector[At(tree.collector, c)]

Put(q, d) == IF d.a2 \in Ids(q) THEN [q EXCEPT ![At(q, d.a2)] = d] ELSE Append(q, d)

(* Mutant of Drop: the loop counter has moved on when the entry is deleted. *)
DropNext(q, c) ==
  IF c \in Ids(q) /\ At(q, c) < Len(q) THEN RemoveAt(q, At(q, c) + 1) ELSE q

(* The loop of CMD_DEL_DPINFO; after a deletion it steps over one entry,   *)
(* which does not match either as ids are unique.                          *)
Drop(q, c) == IF c \in Ids(q) THEN RemoveAt(q, At(q, c)) ELSE q

(* Two bytes of a frame.  `<' for `<<' when the attribute is new.          *)
Word(w) == w[1] * 256 + w[2]
FirstWord(w) == (IF w[1] < 8 THEN 1 ELSE 0) + w[2]

(* "ver" is h * 100 + l *)
Version(v) == v[1] * 100 + v[2]

VersionBytes(ver) == <<(ver \div 100) % 256, ver % 100>>

(* Create_Pkgs *)
Default == [collector |-> <<>>, ver |-> 104, address |-> <<4, 0>>]

-----------------------------------------------------------------------------
(* Commands. *)

NoRequest == [cmd |-> "none", item |-> "none", value |-> Unset, rev |-> 0]
Save == <<"truncate", "print">>
Reply == <<"reply">>

(* A frame passed its CRC.  item is what the command is about, value what  *)
(* its answer will carry.  A command that sets withdraws the promise of    *)
(* its item until it is answered, unless the old value counts until then.  *)
Handle(cmd, item, value, steps) ==
  /\ alive /\ todo = <<>> /\ sent < MaxCommands
  /\ sent' = sent + 1
  /\ request' = [cmd |-> cmd, item |-> item, value |-> value, rev |-> sent + 1]
  /\ todo' = steps
  /\ promise' = IF cmd \in {"setdpinfo", "deldpinfo", "setver", "setaddress"}
                THEN [promise EXCEPT ![item] = Unset] ELSE promise
  /\ UNCHANGED <<config, rule, restarts, answer>>

(* The process dies in the handler, before it saves or answers anything. *)
Crash(cmd, item) ==
  /\ Handle(cmd, item, Unset, <<>>)
  /\ alive' = FALSE
  /\ UNCHANGED jsonroot

Asks(cmd, item, value) == Handle(cmd, item, value, Reply) /\ UNCHANGED <<jsonroot, alive>>

(* CMD_READ_VER *)
ReadVer == Asks("readver", "ver", VersionBytes(jsonroot.ver))

(* CMD_SET_VER *)
SetVer(v) ==
  /\ jsonroot' = [jsonroot EXCEPT !.ver = Version(v)]
  /\ Handle("setver", "ver", v, Save \o Reply)
  /\ UNCHANGED alive

(* The attributes CMD_SET_MENXIAN changes unchecked, those it prints.      *)
Complete(d) == d.limits # Unset /\ d.light # Unset

(* Mutant of MenxianSteps: the answer goes out before the save. *)
MenxianStepsEarly == Reply \o Save

MenxianSteps == Save \o Reply

(* CMD_SET_MENXIAN.  The thresholds of light are stored as "oilhumins" and *)
(* "oilhuminx"; the answer prints "illumins" and "illuminx".               *)
SetMenxian(c, w) ==
  LET i == At(jsonroot.collector, c)
      stray == IF Find(jsonroot, c).stray = Unset THEN FirstWord(w) ELSE Word(w)
  IN  \/ /\ Has(jsonroot, c) /\ Complete(Find(jsonroot, c))
         /\ jsonroot' = [jsonroot EXCEPT !.collector[i].limits = sent + 1,
                                         !.collector[i].stray = stray]
         /\ Handle("setmenxian", c, <<sent + 1, Word(w)>>, MenxianSteps)
         /\ UNCHANGED alive
      \/ /\ ~Has(jsonroot, c)
         /\ Handle("setmenxian", "none", Unset, MenxianSteps)
         /\ UNCHANGED <<jsonroot, alive>>
      \/ /\ Has(jsonroot, c) /\ ~Complete(Find(jsonroot, c))
         /\ Crash("setmenxian", c)

ReadLimits(c, absent) ==
  \/ /\ Has(jsonroot, c) /\ Complete(Find(jsonroot, c))
     /\ LET d == Find(jsonroot, c) IN Asks("getmenxian", c, <<d.limits, d.light>>)
  \/ ~Has(jsonroot, c) /\ Asks("getmenxian", "none", absent)
  \/ Has(jsonroot, c) /\ ~Complete(Find(jsonroot, c)) /\ Crash("getmenxian", c)

(* CMD_GET_MENXIAN; a collector that is not there is answered by zeros. *)
GetMenxian(c) == ReadLimits(c, <<0, 0>>)

(* CMD_GET_MENXIANV3; a collector that is not there is answered by nothing. *)
GetMenxianV3(c) == ReadLimits(c, <<>>)

(* CMD_SET_DPINFO: a new node, without thresholds, takes the place of the  *)
(* old one.                                                                *)
SetDpinfo(c) ==
  LET d == [a2 |-> c, info |-> sent + 1, limits |-> Unset, light |-> Unset,
            stray |-> Unset]
  IN  /\ jsonroot' = [jsonroot EXCEPT !.collector = Put(@, d)]
      /\ Handle("setdpinfo", c, Unset, <<"share">> \o Save \o Reply)
      /\ UNCHANGED alive

(* CMD_GET_DPINFO; for a collector that is not there it takes the size of  *)
(* a null pointer's "a7".                                                  *)
GetDpinfo(c) ==
  \/ Has(jsonroot, c) /\ Asks("getdpinfo", "none", <<Find(jsonroot, c).info>>)
  \/ ~Has(jsonroot, c) /\ Crash("getdpinfo", c)

(* CMD_DEL_DPINFO *)
DelDpinfo(c) ==
  /\ jsonroot' = [jsonroot EXCEPT !.collector = Drop(@, c)]
  /\ Handle("deldpinfo", c, Unset, Save \o <<"share">> \o Reply)
  /\ UNCHANGED alive

(* CMD_SET_IPANDPORT.  With a kind that is neither 4 nor 6 the null        *)
(* pointer replaces "ip".                                                  *)
SetIpandport(kind) ==
  \/ /\ kind \in {4, 6}
     /\ jsonroot' = [jsonroot EXCEPT !.address = <<kind, sent + 1>>]
     /\ Handle("setaddress", "address", <<kind, sent + 1>>, Save \o Reply)
     /\ UNCHANGED alive
  \/ /\ kind \notin {4, 6}
     /\ Crash("setaddress", "address")

(* CMD_GET_IPANDPORT *)
GetIpandport == Asks("getaddress", "address", jsonroot.address)

(* CMD_RELOADPARAM, CMD_DEL_CURRDATA, CMD_DEL_PARAM and commands that are  *)
(* not known are answered by zeros.                                        *)
Ignored == Asks("ignored", "none", Unset)

Command ==
  \/ ReadVer \/ GetIpandport \/ Ignored
  \/ \E v \in Versions : SetVer(v)
  \/ \E kind \in {0, 4, 6} : SetIpandport(kind)
  \/ \E c \in Collectors :
       \/ \E w \in Lights : SetMenxian(c, w)
       \/ GetMenxian(c) \/ GetMenxianV3(c) \/ SetDpinfo(c) \/ GetDpinfo(c) \/ DelDpinfo(c)

-----------------------------------------------------------------------------
(* The steps of a command. *)

Step(s) == alive /\ todo # <<>> /\ Head(todo) = s /\ todo' = Tail(todo)

(* SaveJsonToFile: fopen "w+" *)
Truncate ==
  /\ Step("truncate")
  /\ config' = Torn
  /\ UNCHANGED <<jsonroot, request, alive, rule, sent, restarts, answer, promise>>

(* SaveJsonToFile: cJSON_Print, fprintf, fclose *)
WriteTree ==
  /\ Step("print")
  /\ config' = jsonroot
  /\ UNCHANGED <<jsonroot, request, alive, rule, sent, restarts, answer, promise>>

(* sharemem.json is read, edited and saved *)
EditShare ==
  /\ Step("share")
  /\ UNCHANGED <<jsonroot, config, request, alive, rule, sent, restarts, answer,
                 promise>>

(* What an answer promises: a version whose second byte does not fit two   *)
(* decimal places is not kept apart from another one.                      *)
Promised(r) ==
  CASE r.cmd = "setver" /\ r.value[2] < 100 -> r.value
    [] r.cmd \in {"setaddress", "setmenxian"} -> r.value
    [] OTHER -> Unset

(* The frame with the answer is written. *)
Respond ==
  /\ Step("reply")
  /\ answer' = request
  /\ promise' = IF request.item \in Items /\ Promised(request) # Unset
                THEN [promise EXCEPT ![request.item] = Promised(request)]
                ELSE promise
  /\ UNCHANGED <<jsonroot, config, request, alive, rule, sent, restarts>>

(* auto_control_dev: GetJsonObject of the file, Get_Collecter_id for a     *)
(* device whose box is linked to c.  Thresholds that are not there are 0.  *)
ControlReads(c) ==
  /\ alive /\ config # Torn /\ Has(config, c)
  /\ rule' = [of |-> c, limits |-> Find(config, c).limits]
  /\ UNCHANGED <<jsonroot, config, request, todo, alive, sent, restarts, answer,
                 promise>>

(* A power cycle.  A file that cannot be parsed is replaced by the default *)
(* configuration, and nothing that was promised holds; what an unanswered  *)
(* command was about is in doubt.                                          *)
Restart ==
  /\ restarts < MaxRestarts
  /\ restarts' = restarts + 1
  /\ jsonroot' = IF config = Torn THEN Default ELSE config
  /\ config' = jsonroot'
  /\ promise' = IF config = Torn THEN NoPromise
                ELSE [x \in Items |-> IF todo # <<>> /\ x = request.item
                                      THEN Unset ELSE promise[x]]
  /\ alive' = TRUE /\ request' = NoRequest /\ todo' = <<>>
  /\ rule' = [of |-> "none", limits |-> Unset]
  /\ UNCHANGED <<sent, answer>>

Init ==
  /\ jsonroot \in Packed \union {Default}
  /\ config = jsonroot
  /\ request = NoRequest /\ todo = <<>> /\ alive = TRUE
  /\ rule = [of |-> "none", limits |-> Unset]
  /\ sent = 0 /\ restarts = 0
  /\ answer = NoRequest /\ promise = NoPromise

Next ==
  \/ Command \/ Truncate \/ WriteTree \/ EditShare \/ Respond
  \/ (\E c \in Collectors : ControlReads(c)) \/ Restart

Spec == Init /\ [][Next]_vars

-----------------------------------------------------------------------------
(* Properties. *)

(* Well-formed trees with every collector once in them. *)
TypeOK ==
  /\ Sound(jsonroot) /\ config \in Tree \union {Torn}
  /\ todo \in Seq({"truncate", "print", "share", "reply"})
  /\ sent \in 0..MaxCommands /\ restarts \in 0..MaxRestarts

(* Whatever is set, deleted or read afterwards, and after power cuts: the  *)
(* thresholds, the version and the address the web was last told are set   *)
(* are those in memory, and those in the file once no save is under way.   *)
Holds(tree) ==
  /\ promise["ver"] # Unset => VersionBytes(tree.ver) = promise["ver"]
  /\ promise["address"] # Unset => tree.address = promise["address"]
  /\ \A c \in Collectors : promise[c] # Unset =>
       Has(tree, c) /\ Find(tree, c).limits = promise[c][1]
PromisesHold == (alive /\ todo = <<>>) => Holds(jsonroot) /\ Holds(config)
SettingsKept == TypeOK /\ PromisesHold

(* The automatic control runs beside the handlers, on the file: what it    *)
(* reads of a collector is what the web was last told, or what a command   *)
(* under way is about to answer, and never thresholds replaced before.     *)
ControlUpToDate ==
  [][LET c == rule'.of IN
     (rule' # rule /\ c \in Collectors /\ promise[c] # Unset) =>
       \/ rule'.limits = promise[c][1]
       \/ todo # <<>> /\ request.item = c /\ rule'.limits = request.rev]_vars

(* A read command answers what the web was last told is set. *)
Readers == {"readver", "getaddress", "getmenxian"}
ReadsBack ==
  [][(answer'.rev # answer.rev /\ answer'.cmd \in Readers /\ answer'.item \in Items
        /\ promise[answer'.item] # Unset) =>
       IF answer'.cmd = "getmenxian"
       THEN answer'.value[1] = promise[answer'.item][1]
       ELSE answer'.value = promise[answer'.item]]_vars

(* Both readers of the settings, the web and the control, see what is set. *)
SettingsSeen == ControlUpToDate /\ ReadsBack

(* CMD_GET_MENXIAN answers the light thresholds CMD_SET_MENXIAN was sent,  *)
(* as common.h describes the two.                                          *)
LightReadsBack ==
  [][(answer'.rev # answer.rev /\ answer'.cmd = "getmenxian" /\ answer'.item \in Items
        /\ promise[answer'.item] # Unset) =>
       answer'.value[2] = promise[answer'.item][2]]_vars

(* The thresholds of a configured collector can be set (common.h: "set     *)
(* parameters").                                                           *)
ThresholdsCanBeSet == ~alive => request.cmd # "setmenxian"

(* The automatic control applies thresholds that are there. *)
ControlHasRule == rule.of \in Collectors => rule.limits # Unset
=============================================================================
