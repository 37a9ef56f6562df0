------------------------------ MODULE Readings ------------------------------
(***************************************************************************)
(* The measurements in sharemem.json: how a round of the Zigbee thread     *)
(* collects them, how the DTU thread answers CMD_READ_CAIJIQI and          *)
(* CMD_READ_HUGANQI from them, how they are uploaded by themselves, while  *)
(* collectors are set and deleted.  Races on the file itself are the       *)
(* subject of ShareMem; here every access to it is one step.               *)
(*                                                                         *)
(* The two read functions copy the data of a device with the index of the  *)
(* loop over the devices, which goes on from there afterwards.             *)
(*                                                                         *)
(* Send_Function takes any frame whose CRC is right for the answer, also   *)
(* one to an earlier request.                                              *)
(***************************************************************************)
EXTENDS Naturals, Sequences, FiniteSets, SequencesExt

CONSTANTS
  Collectors,    \* ids of collectors
  Transformers,  \* ids of transformers, in the order of the configuration
  TypeLists,     \* the "type" arrays a collector may be given
  Packed,        \* the collectors configured at the start
  PerType,       \* 3: bytes of data for one type (type, high, low)
  PerSwitch,     \* bytes of data of a transformer
  None,          \* no "data"
  MaxCommands    \* bound: commands of the web

ASSUME ReadingsAssumption ==
  /\ TypeLists \subseteq Seq(Nat) /\ MaxCommands \in Nat
  /\ PerType \in Nat \ {0} /\ PerSwitch \in Nat \ {0}
  /\ IsFiniteSet(Transformers) /\ Collectors \intersect Transformers = {}
  /\ None \notin Collectors \union Transformers

VARIABLES
  collector,    \* "collector" of sharemem.json
  transformer,  \* "transformer" of sharemem.json
  zpc,          \* place of the Zigbee thread
  cursor,       \* json_temp: what is left of the tree the round started on
  asked,        \* the collector or transformer whose answer is awaited
  late,         \* an answer to an earlier request, or None; one at a time
  dtu,          \* "ready", "stuck" in a loop, "dead" with the whole process
  answer,       \* the last answer to a read command
  upload,       \* the frames of the upload under way, and the lists they are of
  sent

file == <<collector, transformer>>
zigbee == <<zpc, cursor, asked, late, upload>>
web == <<dtu, answer, sent>>
readingsVars == <<file, zigbee, web>>

-----------------------------------------------------------------------------
(* Entries.  Data is known by the device and the types it was measured     *)
(* for; n is the size of its array.                                        *)

Data == [by : Collectors \union Transformers, types : TypeLists \union {<<>>},
         n : Nat]
Node == [id : Collectors, types : TypeLists, data : Data \union {None}]
Switch == [id : Transformers, data : Data \union {None}]

Measured(c, types) == [by |-> c, types |-> types, n |-> PerType * Len(types)]
Switched(t) == [by |-> t, types |-> <<>>, n |-> PerSwitch]

(* The frame a device answers with: its own id, and what it was asked for. *)
Reply(e) ==
  [id |-> e.id, data |-> IF e.id \in Collectors THEN Measured(e.id, e.types)
                         ELSE Switched(e.id)]

Ids(q) == {q[i].id : i \in DOMAIN q}
At(q, x) == CHOOSE i \in DOMAIN q : q[i].id = x
Distinct(q) == \A i, j \in DOMAIN q : q[i].id = q[j].id => i = j

(* The absence of data is not data; a configuration has every collector    *)
(* once, and no data yet (cjson_from_config_to_sharemem).                  *)
ASSUME PackedAssumption ==
  /\ None \notin Data
  /\ \A q \in Packed : /\ q \in Seq(Node) /\ Distinct(q)
                       /\ \A i \in DOMAIN q : q[i].data = None

(* The loop over a list that leaves out who has no data. *)
WithData(q) ==
  LET upTo[k \in 0..Len(q)] ==
        IF k = 0 THEN <<>>
        ELSE IF q[k].data = None THEN upTo[k - 1]
        ELSE Append(upTo[k - 1], q[k])
  IN  upTo[Len(q)]

(* The place the loop of Read_Caijiqi_From_Json and Read_Huganqi_From_Json *)
(* goes to when it has copied the data of place p: the index stands at n   *)
(* and is counted up.                                                      *)
Resume(q, p) == q[p].data.n + 2

-----------------------------------------------------------------------------
(* The web. *)

Handle == dtu = "ready" /\ sent < MaxCommands /\ sent' = sent + 1

(* What the DTU thread makes of a read: an answer, none, or no end. *)
Respond(cmd, x, devices) ==
  /\ answer' = [cmd |-> cmd, of |-> x, devices |-> devices]
  /\ UNCHANGED dtu
Quiet == UNCHANGED <<dtu, answer>>
Hang == dtu' = "stuck" /\ UNCHANGED answer
Die == dtu' = "dead" /\ UNCHANGED answer

(* Read_Caijiqi_From_Json of one collector: the loop goes on after the     *)
(* match, and comes back to it if it resumes at or before its place.  An   *)
(* unknown collector is answered by zeros.                                 *)
ReadCaijiqi(c) ==
  LET p == At(collector, c)
  IN  /\ Handle
      /\ \/ c \notin Ids(collector) /\ Respond("caijiqi", c, <<>>)
         \/ /\ c \in Ids(collector)
            /\ \/ collector[p].data = None /\ Respond("caijiqi", c, <<>>)
               \/ /\ collector[p].data # None
                  /\ IF Resume(collector, p) <= p THEN Hang
                     ELSE Respond("caijiqi", c, <<collector[p]>>)
      /\ UNCHANGED <<file, zigbee>>

(* The places a read of all devices passes through, in turn.  It stops     *)
(* past the end or at a device without data; otherwise it comes back to a  *)
(* place and copies on and on, past the end of the buffer.                 *)
NextPlace(q, p) ==
  IF p > Len(q) THEN p ELSE IF q[p].data = None THEN p ELSE Resume(q, p)
Walk(q) ==
  LET place[k \in 0..Len(q)] == IF k = 0 THEN 1 ELSE NextPlace(q, place[k - 1])
  IN  place

ReadAll(q, cmd, refusal) ==
  LET place == Walk(q)
      last == place[Len(q)]
      copied == Min({k \in 0..Len(q) : place[k] > Len(q)})
  IN  CASE last > Len(q) ->
             Respond(cmd, "all", [k \in 1..copied |-> q[place[k - 1]]])
        [] last <= Len(q) /\ q[last].data = None -> refusal
        [] OTHER -> Die

(* Read_Caijiqi_From_Json with the id 0; -1 is answered by an empty frame. *)
ReadCaijiqiAll ==
  /\ Handle
  /\ ReadAll(collector, "caijiqi", Respond("caijiqi", "all", <<>>))
  /\ UNCHANGED <<file, zigbee>>

(* Read_Huganqi_From_Json of one transformer, which ends at the match; -1  *)
(* is not answered.                                                        *)
ReadHuganqi(t) ==
  /\ Handle
  /\ \/ t \notin Ids(transformer) /\ Respond("huganqi", t, <<>>)
     \/ /\ t \in Ids(transformer)
        /\ LET e == transformer[At(transformer, t)] IN
             IF e.data = None THEN Quiet ELSE Respond("huganqi", t, <<e>>)
  /\ UNCHANGED <<file, zigbee>>

(* Read_Huganqi_From_Json with the id 0 *)
ReadHuganqiAll ==
  /\ Handle
  /\ ReadAll(transformer, "huganqi", Quiet)
  /\ UNCHANGED <<file, zigbee>>

(* CMD_SET_DPINFO: a new node with the types and without data. *)
SetDpinfo(c, types) ==
  LET e == [id |-> c, types |-> types, data |-> None]
  IN  /\ Handle
      /\ collector' = IF c \in Ids(collector)
                      THEN [collector EXCEPT ![At(collector, c)] = e]
                      ELSE Append(collector, e)
      /\ UNCHANGED <<transformer, zigbee, dtu, answer>>

(* CMD_DEL_DPINFO *)
DelDpinfo(c) ==
  /\ Handle
  /\ collector' = IF c \in Ids(collector)
                  THEN RemoveAt(collector, At(collector, c))
                  ELSE collector
  /\ UNCHANGED <<transformer, zigbee, dtu, answer>>

-----------------------------------------------------------------------------
(* A round of the Zigbee thread. *)

(* Get_Collecter_Json_Data with next_collector_id 0: the round keeps to    *)
(* the tree it has read now.                                               *)
StartRound ==
  /\ zpc = "idle"
  /\ zpc' = "collectors"
  /\ cursor' = collector /\ upload' = <<>>
  /\ UNCHANGED <<file, asked, late, web>>

(* The next of the list, and the request of Send_Function *)
Ask ==
  /\ cursor # <<>>
  /\ asked' = Head(cursor) /\ cursor' = Tail(cursor)
  /\ zpc' = "waiting"
  /\ UNCHANGED <<file, late, upload, web>>

(* Get_Collecter_Json_Data *)
AskCollector == zpc = "collectors" /\ Ask

(* Get_Transformer_Json_Data: the ids of the list as it is now. *)
TransformersNext ==
  /\ zpc = "collectors" /\ cursor = <<>>
  /\ zpc' = "transformers" /\ cursor' = transformer
  /\ UNCHANGED <<file, asked, late, upload, web>>

AskTransformer == zpc = "transformers" /\ Ask

(* Mutant of RecordCollector: a device that is not in the list is added,   *)
(* as in the lines that are commented out.                                 *)
RecordCollectorAdding(f) ==
  /\ collector' =
       IF f.id \in Ids(collector)
       THEN [collector EXCEPT ![At(collector, f.id)].data = f.data]
       ELSE Append(collector, [id |-> f.id, types |-> f.data.types, data |-> f.data])

(* Mutant of RecordCollector: only the first measurement is kept. *)
RecordCollectorOnce(f) ==
  /\ collector' =
       IF f.id \in Ids(collector)
       THEN [collector EXCEPT ![At(collector, f.id)].data =
               IF @ = None THEN f.data ELSE @]
       ELSE collector

(* Mutant of RecordCollector: under the id that was asked for. *)
RecordCollectorAsAsked(f) ==
  /\ collector' =
       IF asked.id \in Ids(collector)
       THEN [collector EXCEPT ![At(collector, asked.id)].data = f.data]
       ELSE collector

(* Create_Sharemem_Json: the data is filed under the id in the frame, in   *)
(* whatever node has it by now, if any.                                    *)
RecordCollector(f) ==
  /\ collector' =
       IF f.id \in Ids(collector)
       THEN [collector EXCEPT ![At(collector, f.id)].data = f.data]
       ELSE collector

(* The node of a transformer is replaced by one made of the frame. *)
RecordTransformer(f) ==
  transformer' = [transformer EXCEPT ![At(transformer, f.id)] = f]

(* Create_Sharemem_Json: the list is that of the kind in the frame. *)
Record(f) ==
  \/ f.id \in Collectors /\ RecordCollector(f) /\ UNCHANGED transformer
  \/ f.id \in Transformers /\ RecordTransformer(f) /\ UNCHANGED collector

Nobody == [id |-> None]

(* The wait is over, and the loop over the kind of the asked goes on. *)
Onward ==
  /\ zpc = "waiting" /\ asked' = Nobody
  /\ zpc' = IF asked.id \in Collectors THEN "collectors" ELSE "transformers"
  /\ UNCHANGED <<cursor, upload, web>>

(* A request is written up to three times: the answer heard is not always  *)
(* the last.                                                               *)
Answers == Onward /\ Record(Reply(asked)) /\ late' \in {late, Reply(asked)}

(* An answer to an earlier request ends the wait; that of the device asked *)
(* comes late in turn, or not at all.                                      *)
LateAnswers ==
  /\ late # None
  /\ Onward /\ Record(late) /\ late' \in {None, Reply(asked)}

(* Send_Function gives up after three requests, or takes the late answer   *)
(* of a relay box for the one.                                             *)
NoAnswer == Onward /\ late' \in {late, Reply(asked)} /\ UNCHANGED file

(* It comes between the rounds, in the wait for a relay box. *)
LateInTurn ==
  /\ zpc = "idle" /\ late # None
  /\ Record(late) /\ late' = None
  /\ UNCHANGED <<zpc, cursor, asked, upload, web>>

-----------------------------------------------------------------------------
(* send_data_to_web_on_time, every six seconds.  A frame has the length    *)
(* its header states, the place its data starts at, and the data.          *)

(* send_data_to_web_on_time_use_json_collector and _transformer *)
Collected(q) == WithData(q)

Header == 6

Frame(q, start) == [start |-> start, devices |-> Collected(q), list |-> q]

(* An empty list is not sent. *)
UploadTransformers ==
  /\ zpc = "transformers" /\ cursor = <<>>
  /\ zpc' = "upload"
  /\ upload' = IF transformer = <<>> THEN <<>> ELSE <<Frame(transformer, Header)>>
  /\ UNCHANGED <<file, cursor, asked, late, web>>

(* The data of the collectors is copied to place 4, over the length. *)
UploadCollectors ==
  /\ zpc = "upload"
  /\ zpc' = "idle"
  /\ upload' = IF collector = <<>> THEN upload
               ELSE Append(upload, Frame(collector, 4))
  /\ UNCHANGED <<file, cursor, asked, late, web>>

(* It is not yet time. *)
SkipUpload ==
  /\ zpc = "transformers" /\ cursor = <<>>
  /\ zpc' = "idle"
  /\ UNCHANGED <<file, cursor, asked, late, upload, web>>

Web ==
  \/ ReadCaijiqiAll \/ ReadHuganqiAll
  \/ \E t \in Transformers : ReadHuganqi(t)
  \/ \E c \in Collectors :
       \/ ReadCaijiqi(c) \/ DelDpinfo(c)
       \/ \E types \in TypeLists : SetDpinfo(c, types)

Zigbee ==
  /\ dtu # "dead"
  /\ \/ StartRound \/ AskCollector \/ TransformersNext \/ AskTransformer
     \/ Answers \/ LateAnswers \/ NoAnswer \/ LateInTurn
     \/ UploadTransformers \/ UploadCollectors \/ SkipUpload

ReadingsInit ==
  /\ collector \in Packed
  /\ \E q \in SetToSeqs(Transformers) :
       transformer = [i \in DOMAIN q |-> [id |-> q[i], data |-> None]]
  /\ zpc = "idle" /\ cursor = <<>> /\ asked = Nobody /\ late = None
  /\ upload = <<>>
  /\ dtu = "ready" /\ answer = [cmd |-> "none", of |-> "all", devices |-> <<>>]
  /\ sent = 0

ReadingsNext == Web \/ Zigbee

(* The loop of the Zigbee thread does not stop.  A collector that is asked *)
(* again and again answers in the end.                                     *)
ReadingsSpec ==
  /\ ReadingsInit /\ [][ReadingsNext]_readingsVars
  /\ WF_readingsVars(Zigbee)
  /\ \A c \in Collectors : SF_readingsVars(dtu # "dead" /\ Answers /\ asked.id = c)

-----------------------------------------------------------------------------
(* Properties. *)

(* Well-formed lists, every device once in them. *)
ReadingsTypeOK ==
  /\ collector \in Seq(Node) /\ transformer \in Seq(Switch)
  /\ Distinct(collector) /\ Distinct(transformer)
  /\ sent \in 0..MaxCommands

(* No reading under another name: in the file, in an answer and in an      *)
(* upload the data under an id was measured by that device, although an    *)
(* answer may come in the turn of another device and lists change by place *)
(* while the round works on the one it started with.                       *)
Own(q) == \A i \in DOMAIN q : q[i].data = None \/ q[i].data.by = q[i].id
OwnData ==
  /\ Own(collector) /\ Own(transformer) /\ Own(answer.devices)
  /\ answer.of # "all" => Ids(answer.devices) \subseteq {answer.of}
  /\ \A k \in DOMAIN upload : Own(upload[k].devices)

(* An upload carries every device of its list that has data, once, and in  *)
(* the order of the list.                                                  *)
UploadsAll ==
  \A k \in DOMAIN upload :
    LET list == upload[k].list  devices == upload[k].devices IN
      /\ Ids(devices) = {list[i].id : i \in {j \in DOMAIN list : list[j].data # None}}
      /\ \A i, j \in DOMAIN devices :
           i < j => At(list, devices[i].id) < At(list, devices[j].id)

(* The lists, the answers and the uploads carry the data of their devices. *)
ReadingsSound == ReadingsTypeOK /\ OwnData /\ UploadsAll

(* Get_Collecter_glsen_data finds a value at three times the place of its  *)
(* type.  A collector whose types are changed while it is asked for the    *)
(* old ones does not keep data that does not fit its types.                *)
Fits == \A i \in DOMAIN collector :
          LET e == collector[i] IN e.data = None \/ e.data.types = e.types
ComesToFit == []<>(Fits \/ dtu = "dead")

(* A deleted collector does not come back with a late answer.              *)
NoneAdded ==
  [][\A c \in Collectors : (c \in Ids(collector') /\ sent' = sent) => c \in Ids(collector)]_readingsVars

(* A command to read is handled to its end, whatever is configured. *)
ReadsEnd == dtu = "ready"

(* A read of all collectors is answered with all that have data, as the    *)
(* upload does it, or refused.                                             *)
ReadsAllCollectors ==
  [][(answer' # answer /\ answer'.cmd = "caijiqi" /\ answer'.of = "all"
        /\ answer'.devices # <<>>)
       => answer'.devices = WithData(collector)]_readingsVars

(* A frame of the upload carries its data behind its header, as the header *)
(* says.                                                                   *)
UploadsBehindHeader == \A k \in DOMAIN upload : upload[k].start = Header
=============================================================================
