----------------------------- MODULE ConfigStore -----------------------------
(***************************************************************************)
(* The relay boxes and their devices in the configuration: the tree        *)
(* jsonroot of the DTU thread, its file configinfo.json, and the box list  *)
(* of sharemem.json, under the commands of the web that set, get, delete   *)
(* and clear them (Recv_Function and the two XML functions), with power    *)
(* cuts between any two steps of a command.                                *)
(*                                                                         *)
(* A command edits jsonroot at once and leaves a list of steps to do: the  *)
(* two halves of a save of configinfo.json (fopen "w+" truncates it), the  *)
(* edit of sharemem.json (see ShareMem for what may happen to that save)   *)
(* and the answer.                                                         *)
(***************************************************************************)
EXTENDS Naturals, Sequences, FiniteSets, SequencesExt

CONSTANTS
  Boxes,        \* ids of relay boxes ("conid", "a6")
  Devs,         \* ids of the devices of a box ("devid")
  DevOne,       \* the id 1, which CMD_SET_DPCONTROL gives to every device
  Torn,         \* configinfo.json between fopen and fclose, or unparsable
  Packed,       \* the trees an update archive may install (pack_ota.sh)
  MaxCommands,  \* bound: commands of the web
  MaxRestarts   \* bound: power cycles

ASSUME ConfigAssumption ==
  DevOne \in Devs /\ MaxCommands \in Nat /\ MaxRestarts \in Nat

VARIABLES
  jsonroot,  \* the "controller" array in memory
  freed,     \* a device in memory has been freed but is still linked
  config,    \* the "controller" array of configinfo.json, or Torn
  share,     \* the "controller" array of sharemem.json: entries with an id
  request,   \* the command being handled
  todo,      \* what is left to do for it
  alive,     \* the process has not died of a null or freed pointer
  sent, restarts,
  (* ghosts *)
  answer,    \* the last command that was answered, with its code
  gone       \* devices whose deletion was answered and that were not set since

vars == <<jsonroot, freed, config, share, request, todo, alive, sent,
          restarts, answer, gone>>

-----------------------------------------------------------------------------
(* Trees.  A device carries the number of the command that set it and      *)
(* whether it has all the attributes CMD_GET_DPCONTROLV3 prints ("re1",    *)
(* "re2" and the six times).                                               *)

Device == [id : Devs, rev : 0..MaxCommands, full : BOOLEAN]
Box == [id : Boxes, dev : Seq(Device)]
Tree == Seq(Box)

Ids(q) == {q[i].id : i \in DOMAIN q}

Unique(q) == \A i, j \in DOMAIN q : q[i].id = q[j].id => i = j
UniqueTree(tree) == Unique(tree) /\ \A k \in DOMAIN tree : Unique(tree[k].dev)

(* The archives carry well-formed configurations; what is half written is  *)
(* none.                                                                   *)
ASSUME TreeAssumption ==
  /\ Torn \notin Tree
  /\ \A tree \in Packed : tree \in Tree /\ UniqueTree(tree)

(* Mutant of At: the first entry is taken whatever its id. *)
AtFirst(q, x) == 1

At(q, x) == CHOOSE i \in DOMAIN q : q[i].id = x /\ \A j \in 1..(i - 1) : q[j].id # x

(* cJSON_ReplaceItemInArray on the entry with that id, else                *)
(* cJSON_AddItemToArray.                                                   *)
Put(q, d) == IF d.id \in Ids(q) THEN [q EXCEPT ![At(q, d.id)] = d] ELSE Append(q, d)

(* Mutant of Drop: the loop counter has moved on when the entry is deleted. *)
DropNext(q, x) ==
  IF x \in Ids(q) /\ At(q, x) < Len(q) THEN RemoveAt(q, At(q, x) + 1) ELSE q

(* cJSON_DeleteItemFromArray on the first entry with that id *)
Drop(q, x) == IF x \in Ids(q) THEN RemoveAt(q, At(q, x)) ELSE q

(* cJSON_DeleteItemFromArray(jsontemp, i) for i = 0, 1, ... while i is     *)
(* less than the shrinking size: what is left are the even places.         *)
EverySecond(q) == [i \in 1..(Len(q) \div 2) |-> q[2 * i]]

(* Create_Pkgs: the configuration of a gateway without a readable file has *)
(* no boxes; all its examples are commented out.                           *)
Default == <<>>

(* The boxes of sharemem.json are rebuilt from the configuration at boot.  *)
IdList(tree) == [i \in DOMAIN tree |-> [id |-> tree[i].id]]

-----------------------------------------------------------------------------
(* Commands.                                                               *)

NoRequest == [cmd |-> "none"]
Save == <<"truncate", "print">>
Answer(code) == <<code>>

(* A frame that has passed its CRC while the thread is waiting for one. *)
Handle(r, steps) ==
  /\ alive /\ todo = <<>> /\ sent < MaxCommands
  /\ sent' = sent + 1
  /\ request' = r
  /\ todo' = steps
  /\ gone' = IF r.cmd \in {"set", "setv3"} THEN gone \ {<<r.box, r.dev>>}
             ELSE gone
  /\ UNCHANGED <<config, share, restarts, answer>>

(* CMD_SET_DPCONTROL: the device gets the id 1, none of the attributes     *)
(* "re1" and "re2", and is stored if its box is configured.  flag_exist_   *)
(* item goes from the search in the configuration into the one in          *)
(* sharemem, so a box with a device 1 is not added there.                  *)
SetDpcontrol(b) ==
  LET r == [cmd |-> "set", box |-> b, dev |-> DevOne]
      d == [id |-> DevOne, rev |-> sent + 1, full |-> FALSE]
      i == At(jsonroot, b)
      replaced == b \in Ids(jsonroot) /\ DevOne \in Ids(jsonroot[i].dev)
  IN  /\ jsonroot' = IF b \in Ids(jsonroot)
                     THEN [jsonroot EXCEPT ![i].dev = Put(@, d)]
                     ELSE jsonroot
      /\ Handle(r, (IF replaced THEN <<>> ELSE <<"shareadd">>)
                     \o Save \o Answer("success"))
      /\ UNCHANGED <<freed, alive>>

(* CMD_DEL_DPCONTROL with the id of a box *)
DelDpcontrol(b) ==
  /\ jsonroot' = Drop(jsonroot, b)
  /\ Handle([cmd |-> "del", box |-> b],
            Save \o <<"sharedel">> \o Answer("success"))
  /\ UNCHANGED <<freed, alive>>

(* CMD_DEL_DPCONTROL with the id 0: all boxes *)
DelAllDpcontrol ==
  /\ jsonroot' = EverySecond(jsonroot)
  /\ Handle([cmd |-> "delall"], Save \o <<"sharedel">> \o Answer("success"))
  /\ UNCHANGED <<freed, alive>>

(* CMD_CLEAR_ALLDEV *)
ClearAlldev ==
  /\ jsonroot' = EverySecond(jsonroot)
  /\ Handle([cmd |-> "clear"], Save \o Answer("success"))
  /\ UNCHANGED <<freed, alive>>

(* function_Cmd_Set_Dpcontrol_V3.  With no box yet, the box is made and    *)
(* saved, and the search that follows finds it.  With others, a box that   *)
(* is not among them is not made.                                          *)
SetDpcontrolV3(b, x, full) ==
  LET r == [cmd |-> "setv3", box |-> b, dev |-> x]
      d == [id |-> x, rev |-> sent + 1, full |-> full]
  IN  /\ \/ /\ jsonroot = <<>>
            /\ jsonroot' = <<[id |-> b, dev |-> <<d>>]>>
            /\ Handle(r, Save \o <<"replaceself">> \o Save \o Answer("success"))
         \/ /\ b \in Ids(jsonroot)
            /\ jsonroot' = [jsonroot EXCEPT ![At(jsonroot, b)].dev = Put(@, d)]
            /\ Handle(r, Save \o Answer("success"))
         \/ /\ jsonroot # <<>> /\ b \notin Ids(jsonroot)
            /\ UNCHANGED jsonroot
            /\ Handle(r, Answer("success"))
      /\ UNCHANGED <<freed, alive>>

(* Mutant of DelDpcontrolV3: the tree is not saved. *)
DelDpcontrolV3Unsaved(b, x) ==
  LET found == b \in Ids(jsonroot) /\ x \in Ids(jsonroot[At(jsonroot, b)].dev)
  IN  /\ jsonroot' = IF found
                     THEN [jsonroot EXCEPT ![At(jsonroot, b)].dev = Drop(@, x)]
                     ELSE jsonroot
      /\ Handle([cmd |-> "delv3", box |-> b, dev |-> x],
                Answer(IF found THEN "success" ELSE "notfound"))
      /\ UNCHANGED <<freed, alive>>

(* function_Cmd_Del_Dpcontrol_V3 *)
DelDpcontrolV3(b, x) ==
  LET found == b \in Ids(jsonroot) /\ x \in Ids(jsonroot[At(jsonroot, b)].dev)
  IN  /\ jsonroot' = IF found
                     THEN [jsonroot EXCEPT ![At(jsonroot, b)].dev = Drop(@, x)]
                     ELSE jsonroot
      /\ Handle([cmd |-> "delv3", box |-> b, dev |-> x],
                IF found THEN Save \o Answer("success") ELSE Answer("notfound"))
      /\ UNCHANGED <<freed, alive>>

(* function_Cmd_Set_Dpcontrol_V3 on a text without "gb2312", without a     *)
(* root, or without a <dev>, which counts as a success.                    *)
RejectSetXml ==
  /\ \E code \in {"notxml", "notfound", "success"} :
       Handle([cmd |-> "badxml"], Answer(code))
  /\ UNCHANGED <<jsonroot, freed, alive>>

(* function_Cmd_Del_Dpcontrol_V3 on any of these *)
RejectDelXml ==
  /\ Handle([cmd |-> "badxml"], Answer("notfound"))
  /\ UNCHANGED <<jsonroot, freed, alive>>

(* Either of them on a <d> without "a6" or "id", or                        *)
(* function_Cmd_Set_Dpcontrol_V3 on a <dev> without a <d> or one without   *)
(* "type" or "relay": a null pointer, before the tree is edited.           *)
BrokenXml ==
  /\ Handle([cmd |-> "badxml"], <<>>)
  /\ alive' = FALSE
  /\ UNCHANGED <<jsonroot, freed>>

(* CMD_GET_DPCONTROLV3 reads the attributes of the device without looking  *)
(* whether they are there.                                                 *)
GetDpcontrolV3(b, x) ==
  LET dev == jsonroot[At(jsonroot, b)].dev
      printed == b \in Ids(jsonroot) /\ x \in Ids(dev)
  IN  /\ Handle([cmd |-> "getv3", box |-> b, dev |-> x],
                IF printed /\ ~dev[At(dev, x)].full THEN <<>>
                ELSE Answer("success"))
      /\ alive' = (printed => dev[At(dev, x)].full)
      /\ UNCHANGED <<jsonroot, freed>>

Command ==
  \/ \E b \in Boxes : SetDpcontrol(b) \/ DelDpcontrol(b)
  \/ DelAllDpcontrol \/ ClearAlldev \/ RejectSetXml \/ RejectDelXml
  \/ BrokenXml
  \/ \E b \in Boxes, x \in Devs :
       \/ \E full \in BOOLEAN : SetDpcontrolV3(b, x, full)
       \/ DelDpcontrolV3(b, x) \/ GetDpcontrolV3(b, x)

-----------------------------------------------------------------------------
(* The steps of a command.                                                 *)

Step(s) == alive /\ todo # <<>> /\ Head(todo) = s /\ todo' = Tail(todo)

(* SaveJsonToFile: fopen "w+" *)
Truncate ==
  /\ Step("truncate")
  /\ config' = Torn
  /\ UNCHANGED <<jsonroot, freed, share, request, alive, sent, restarts,
                 answer, gone>>

(* What a tree with a freed device may look like when it is printed: as    *)
(* it was, without the device, or nothing that can be parsed.              *)
Printed ==
  IF freed THEN {jsonroot, [i \in DOMAIN jsonroot |->
                              [jsonroot[i] EXCEPT !.dev = <<>>]], Torn}
           ELSE {jsonroot}

(* SaveJsonToFile: cJSON_Print, fprintf, fclose *)
WriteTree ==
  /\ Step("print")
  /\ config' \in Printed
  /\ UNCHANGED <<jsonroot, freed, share, request, alive, sent, restarts,
                 answer, gone>>

(* The first device of the first box is replaced by itself, which deletes  *)
(* it: cJSON_ReplaceItemInArray deletes the item that was there.           *)
ReplaceSelf ==
  /\ Step("replaceself")
  /\ freed' = TRUE
  /\ UNCHANGED <<jsonroot, config, share, request, alive, sent, restarts,
                 answer, gone>>

ShareAdd ==
  /\ Step("shareadd")
  /\ share' = IF request.box \in Ids(share) THEN share
              ELSE Append(share, [id |-> request.box])
  /\ UNCHANGED <<jsonroot, freed, config, request, alive, sent, restarts,
                 answer, gone>>

ShareDel ==
  /\ Step("sharedel")
  /\ share' = IF request.cmd = "delall" THEN EverySecond(share)
              ELSE Drop(share, request.box)
  /\ UNCHANGED <<jsonroot, freed, config, request, alive, sent, restarts,
                 answer, gone>>

(* The answer goes out; a deletion that succeeded is now known to the web. *)
Reply ==
  /\ \E code \in {"success", "notfound", "notxml"} :
       /\ Step(code)
       /\ answer' = [request |-> request, code |-> code]
       /\ gone' = CASE code = "success" /\ request.cmd = "delv3" ->
                         gone \union {<<request.box, request.dev>>}
                    [] code = "success" /\ request.cmd = "del" ->
                         gone \union ({request.box} \X Devs)
                    [] OTHER -> gone
  /\ request' = NoRequest
  /\ UNCHANGED <<jsonroot, freed, config, share, alive, sent, restarts>>

(* Any use of the freed device may kill the process. *)
Die ==
  /\ freed /\ alive
  /\ alive' = FALSE /\ todo' = <<>>
  /\ UNCHANGED <<jsonroot, freed, config, share, request, sent, restarts,
                 answer, gone>>

(* A power cycle.  An unparsable configuration is replaced by the default  *)
(* one; sharemem.json is rebuilt.                                          *)
Restart ==
  /\ restarts < MaxRestarts
  /\ restarts' = restarts + 1
  /\ jsonroot' = IF config = Torn THEN Default ELSE config
  /\ config' = jsonroot' /\ share' = IdList(jsonroot')
  /\ freed' = FALSE /\ alive' = TRUE
  /\ request' = NoRequest /\ todo' = <<>>
  /\ UNCHANGED <<sent, answer, gone>>

Init ==
  /\ jsonroot \in Packed \union {Default}
  /\ config = jsonroot /\ share = IdList(jsonroot)
  /\ freed = FALSE /\ alive = TRUE
  /\ request = NoRequest /\ todo = <<>>
  /\ sent = 0 /\ restarts = 0
  /\ answer = [request |-> NoRequest, code |-> "none"] /\ gone = {}

Next ==
  \/ Command \/ Truncate \/ WriteTree \/ ReplaceSelf \/ ShareAdd \/ ShareDel
  \/ Reply \/ Die \/ Restart

Spec == Init /\ [][Next]_vars

-----------------------------------------------------------------------------
(* Properties. *)

Idle == alive /\ todo = <<>>
Has(tree, b, x) == b \in Ids(tree) /\ x \in Ids(tree[At(tree, b)].dev)

(* Well-formed trees, and no answer without its request. *)
TypeOK ==
  /\ jsonroot \in Tree /\ config \in Tree \union {Torn}
  /\ share \in Seq([id : Boxes])
  /\ freed \in BOOLEAN /\ alive \in BOOLEAN
  /\ todo \in Seq({"truncate", "print", "shareadd", "sharedel", "replaceself",
                   "success", "notfound", "notxml"})
  /\ sent \in 0..MaxCommands /\ restarts \in 0..MaxRestarts
  /\ gone \subseteq Boxes \X Devs

(* Whatever sequence of old and XML commands, deletions in the middle of   *)
(* an array, power cuts and restarts: a box is in the configuration once,  *)
(* a device once in its box, a box once in the list of sharemem.json.      *)
(* Every search of the handlers stops at the first match and relies on it. *)
UniqueIds == UniqueTree(jsonroot) /\ Unique(share)

(* Between two commands the file is the tree in memory: no handler answers *)
(* a change it has not saved, none leaves the file truncated               *)
(* (SaveJsonToFile in every branch of Recv_Function).                      *)
DiskMatchesMemory == (Idle /\ ~freed) => config = jsonroot

(* A device whose deletion has been answered never comes back by itself,   *)
(* not after a power cut in the middle of a later command either           *)
(* (function_Cmd_Del_Dpcontrol_V3, CMD_DEL_DPCONTROL).                     *)
DeletedStaysDeleted ==
  \A g \in gone : /\ ~Has(jsonroot, g[1], g[2])
                  /\ config # Torn => ~Has(config, g[1], g[2])

(* The configuration as one statement: ids stay unique, the file follows   *)
(* the memory and nothing that was deleted comes back.                     *)
StoreSound == TypeOK /\ UniqueIds /\ DiskMatchesMemory /\ DeletedStaysDeleted

(* The other boxes and their order: each with itself and with every later. *)
Others(tree, b) ==
  LET rest == {i \in DOMAIN tree : tree[i].id # b}
  IN  {<<tree[p[1]], tree[p[2]]>> : p \in {r \in rest \X rest : r[1] <= r[2]}}

(* A command for one box leaves the others as they are, their devices and  *)
(* their order, although entries are replaced and deleted by place.        *)
OthersUntouched ==
  [][(sent' # sent /\ request'.cmd \in {"set", "del", "setv3", "delv3", "getv3"})
       => LET b == request'.box IN
            Others(jsonroot', b) = Others(jsonroot, b)]_vars

(* An XML command that is answered ERROR_SUCCESS has stored its device.    *)
AnsweredIsStored ==
  [][(answer' # answer /\ answer'.code = "success"
        /\ answer'.request.cmd = "setv3")
       => Has(jsonroot', answer'.request.box, answer'.request.dev)]_vars

(* CMD_CLEAR_ALLDEV clears all devices. *)
ClearAllClears ==
  [][(answer' # answer /\ answer'.request.cmd = "clear") => jsonroot' = <<>>]_vars

(* A device that has been set can be read back (CMD_GET_DPCONTROLV3). *)
GetAnswers == request.cmd = "getv3" /\ ~freed => alive
=============================================================================
