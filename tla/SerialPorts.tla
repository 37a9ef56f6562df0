---------------------------- MODULE SerialPorts ----------------------------
(***************************************************************************)
(* The two serial loops.  The DTU thread reads command frames of the web   *)
(* from ttyS2 (thread_Task_TTYS2_Dtu_Web, Recv_Function), the Zigbee       *)
(* thread writes a request to ttyS1 and waits for the answer               *)
(* (Send_Function).  Both files define `unsigned char Buf_Recv[512];`,     *)
(* two tentative definitions of one and the same array, and both threads   *)
(* clear it, read into it and parse from it without a lock.                *)
(*                                                                         *)
(* A frame is a fore half and an aft half; the aft one carries the CRC   *)
(* and ends with 0xbf.  read() returns any prefix of what has arrived.     *)
(* The CRC tells whether the front and the rear of one frame are together. *)
(***************************************************************************)
EXTENDS Naturals, Sequences, SequencesExt

CONSTANTS
  Commands,      \* frames of the web, each sent once
  Devices,       \* devices of the Zigbee network, and their answers
  NulDevices,    \* devices whose answer holds a zero byte
  Zero,          \* a cleared part of a buffer
  MaxRequests,   \* bound: calls of Send_Function
  MaxEmpty,      \* 500: empty reads before Send_Function writes again
  MaxBad         \* parts that make up the 200 bytes of the bad string

ASSUME PortsAssumption ==
  /\ NulDevices \subseteq Devices /\ Commands \intersect Devices = {}
  /\ Zero \notin Commands \union Devices
  /\ MaxRequests \in Nat /\ MaxEmpty \in Nat /\ MaxBad \in Nat

VARIABLES
  webline, zline,  \* what has arrived on ttyS2 and ttyS1
  Buf_Recv,        \* the shared array, by halves; cleared where it ends
  wpc, wread, wacc,       \* DTU thread: place, what read returned, buf_strcat_...
  wshared, wperfect, wcmd,  \* parses Buf_Recv; frame the CRC let pass; echoed
  zpc, zread,             \* Zigbee thread: place, parts read
  zbad, zlen,             \* bad string, parts that were to be added to it
  ask, writes, j,         \* device asked, times written, empty reads
  zperfect,
  due,             \* answers the devices still owe
  sent, requests,  \* commands sent so far, calls of Send_Function
  acts,            \* ghost: frames acted upon and what was acted upon
  records          \* ghost: answers accepted and what was recorded

lines == <<webline, zline, due, sent>>
web == <<wpc, wread, wacc, wshared, wperfect, wcmd>>
zigbee == <<zpc, zread, zbad, zlen, ask, writes, j, zperfect, requests>>
serialVars == <<lines, Buf_Recv, web, zigbee, acts, records>>

Fore(f) == [of |-> f, half |-> "fore"]
Aft(f) == [of |-> f, half |-> "aft"]
Frame(f) == <<Fore(f), Aft(f)>>
Blank == [of |-> Zero, half |-> "zero"]

(* What the line makes of a frame: noise may cost either half. *)
Arrivals(f) == {Frame(f), <<Fore(f)>>, <<Aft(f)>>}

(* CRC16_Change over the length the header states. *)
CrcOk(s, F) == \E f \in F : IsPrefix(Frame(f), s)

(* What a parser finds at the start, and the n parts a read has stored. *)
Header(s) == IF s = <<>> THEN Zero ELSE s[1].of
Padded(s, n) == [i \in 1..n |-> IF i <= Len(s) THEN s[i] ELSE Blank]
Taken(n) == Padded(Buf_Recv, n)
EndsFrame(s) == s # <<>> /\ s[Len(s)].half = "aft"

(* memset and read, of either thread. *)
Clear == Buf_Recv' = <<>>
Store(line, n) == Buf_Recv' = SubSeq(line, 1, n)
Rest(line, n) == SubSeq(line, n + 1, Len(line))

-----------------------------------------------------------------------------
(* The environment. *)

WebSends(f) ==
  /\ f \notin ToSet(sent)
  /\ sent' = Append(sent, f)
  /\ \E s \in Arrivals(f) : webline' = webline \o s
  /\ UNCHANGED <<zline, due, Buf_Recv, web, zigbee, acts, records>>

(* The answer to a request arrives, whole, damaged, late or never. *)
DeviceAnswers(d) ==
  /\ due[d] > 0
  /\ due' = [due EXCEPT ![d] = @ - 1]
  /\ \/ \E s \in Arrivals(d) : zline' = zline \o s
     \/ UNCHANGED zline
  /\ UNCHANGED <<webline, sent, Buf_Recv, web, zigbee, acts, records>>

-----------------------------------------------------------------------------
(* The DTU thread. *)

WebClear ==
  /\ wpc = "clear"
  /\ Clear
  /\ wpc' = "read"
  /\ UNCHANGED <<lines, wread, wacc, wshared, wperfect, wcmd, zigbee, acts,
                 records>>

WebRead ==
  /\ wpc = "read"
  /\ \/ /\ webline = <<>>
        /\ wpc' = "clear"
        /\ UNCHANGED <<webline, Buf_Recv, wread>>
     \/ \E n \in 1..Len(webline) :
          /\ Store(webline, n)
          /\ webline' = Rest(webline, n)
          /\ wread' = SubSeq(webline, 1, n)
          /\ wpc' = "judge"
  /\ UNCHANGED <<zline, due, sent, wacc, wshared, wperfect, wcmd, zigbee,
                 acts, records>>

(* nread == Buf_Recv[5] + 9: one frame, parsed where it is.  Anything else *)
(* is collected until it ends with 0xbf.                                   *)
WholeFrame ==
  \E f \in Commands : wread = Frame(f) /\ IsPrefix(<<Fore(f)>>, Buf_Recv)

WebJudge ==
  /\ wpc = "judge"
  /\ wread' = <<>>
  /\ wshared' = WholeFrame
  /\ wacc' = IF WholeFrame THEN wacc ELSE wacc \o Taken(Len(wread))
  /\ wpc' = IF WholeFrame \/ EndsFrame(wacc') THEN "check" ELSE "clear"
  /\ UNCHANGED <<lines, Buf_Recv, wperfect, wcmd, zigbee, acts, records>>

(* The buf argument of Recv_Function. *)
Argument == IF wshared THEN Buf_Recv ELSE wacc

(* Recv_Function: the CRC, "DATA is perfect". *)
WebCheck ==
  /\ wpc = "check"
  /\ IF CrcOk(Argument, Commands)
     THEN wperfect' = Header(Argument) /\ wpc' = "dispatch" /\ UNCHANGED wacc
     ELSE UNCHANGED wperfect /\ wpc' = "clear" /\ wacc' = <<>>
  /\ UNCHANGED <<lines, Buf_Recv, wread, wshared, wcmd, zigbee, acts, records>>

(* switch(buf[3]), and the echo of the frame is made. *)
WebDispatch ==
  /\ wpc = "dispatch"
  /\ wcmd' = Header(Argument)
  /\ wpc' = "act"
  /\ UNCHANGED <<lines, Buf_Recv, wread, wacc, wshared, wperfect, zigbee, acts,
                 records>>

(* Mutant of WebAct: buf_strcat_recv is not cleared. *)
WebActKeeping ==
  /\ wpc = "act"
  /\ acts' = Append(acts, [perfect |-> wperfect, cmd |-> wcmd,
                           args |-> Header(Argument)])
  /\ wshared' = FALSE /\ wperfect' = Zero /\ wcmd' = Zero
  /\ wpc' = "clear"
  /\ UNCHANGED <<lines, Buf_Recv, wread, wacc, zigbee, records>>

(* The handler takes its arguments from buf, after it has read a file.     *)
WebAct ==
  /\ wpc = "act"
  /\ acts' = Append(acts, [perfect |-> wperfect, cmd |-> wcmd,
                           args |-> Header(Argument)])
  /\ wacc' = <<>> /\ wshared' = FALSE /\ wperfect' = Zero /\ wcmd' = Zero
  /\ wpc' = "clear"
  /\ UNCHANGED <<lines, Buf_Recv, wread, zigbee, records>>

Web == WebClear \/ WebRead \/ WebJudge \/ WebCheck \/ WebDispatch \/ WebAct

-----------------------------------------------------------------------------
(* The Zigbee thread: Send_Function. *)

Request(d) ==
  /\ zpc = "idle" /\ requests < MaxRequests
  /\ requests' = requests + 1
  /\ ask' = d /\ writes' = 0 /\ j' = 0
  /\ zpc' = "write"
  /\ UNCHANGED <<lines, Buf_Recv, web, zread, zbad, zlen, zperfect, acts, records>>

(* write_fd_again: what was collected so far is dropped. *)
Write ==
  /\ zpc = "write"
  /\ writes' = writes + 1
  /\ due' = [due EXCEPT ![ask] = @ + 1]
  /\ zbad' = <<>> /\ zlen' = 0
  /\ zpc' = "clear"
  /\ UNCHANGED <<webline, zline, sent, Buf_Recv, web, zread, ask, j, zperfect,
                 requests, acts, records>>

ZigbeeClear ==
  /\ zpc = "clear"
  /\ Clear
  /\ zpc' = "read"
  /\ UNCHANGED <<lines, web, zread, zbad, zlen, ask, writes, j, zperfect, requests,
                 acts, records>>

(* Mutants of EmptyRead: one write too many, one too few.                  *)
EmptyReadUpTo(n) ==
  /\ zpc = "read" /\ zline = <<>>
  /\ IF j > MaxEmpty
     THEN /\ j' = 0
          /\ zpc' = IF writes < n THEN "write" ELSE "idle"
     ELSE j' = j + 1 /\ zpc' = "clear"
  /\ UNCHANGED <<lines, Buf_Recv, web, zread, zbad, zlen, ask, writes, zperfect,
                 requests, acts, records>>

EmptyReadFourTimes == EmptyReadUpTo(4)
EmptyReadTwice == EmptyReadUpTo(2)

(* j ++ > 500: write again, twice, then give up.  Data does not reset j.   *)
EmptyRead ==
  /\ zpc = "read" /\ zline = <<>>
  /\ IF j > MaxEmpty
     THEN /\ j' = 0
          /\ zpc' = IF writes < 3 THEN "write" ELSE "idle"
     ELSE j' = j + 1 /\ zpc' = "clear"
  /\ UNCHANGED <<lines, Buf_Recv, web, zread, zbad, zlen, ask, writes, zperfect,
                 requests, acts, records>>

ZigbeeRead ==
  /\ zpc = "read"
  /\ \E n \in 1..Len(zline) :
       /\ Store(zline, n)
       /\ zline' = Rest(zline, n)
       /\ zread' = n
  /\ zpc' = "check"
  /\ UNCHANGED <<webline, due, sent, web, zbad, zlen, ask, writes, j, zperfect,
                 requests, acts, records>>

(* strncat stops at the first zero byte: a cleared part adds nothing, and  *)
(* a front that holds one is no longer the front of a frame.               *)
HoldsZero(p) == p.half = "fore" /\ p.of \in NulDevices \union Commands

Catenable(n) ==
  LET kept == SubSeq(Buf_Recv, 1, Min({n, Len(Buf_Recv)}))
      stops == {i \in DOMAIN kept : HoldsZero(kept[i])}
      end == Min(stops \union {Len(kept)})
  IN [i \in 1..end |->
        IF i \in stops THEN [kept[i] EXCEPT !.half = "cut"] ELSE kept[i]]

ZigbeeCheck ==
  /\ zpc = "check"
  /\ IF CrcOk(Buf_Recv, Devices)
     THEN /\ zperfect' = Header(Buf_Recv)
          /\ zpc' = "record" /\ UNCHANGED <<zread, zbad, zlen>>
     ELSE LET all == zbad \o Catenable(zread) IN
          /\ zread' = 0
          /\ IF CrcOk(all, Devices)
             THEN /\ zperfect' = Header(all) /\ zpc' = "recordbad"
                  /\ zbad' = all /\ zlen' = zlen + zread
             ELSE /\ IF Len(all) >= MaxBad
                     THEN zbad' = <<>> /\ zlen' = 0
                     ELSE zbad' = all /\ zlen' = zlen + zread
                  /\ zpc' = "clear" /\ UNCHANGED zperfect
  /\ UNCHANGED <<lines, Buf_Recv, web, ask, writes, j, requests, acts, records>>

(* Create_Sharemem_Json copies the nread bytes first, and rejects them if  *)
(* the last is not 0xbf, as when the bad string is shorter than counted.   *)
(* Send_Function is done either way.                                       *)
ZigbeeRecord ==
  /\ zpc \in {"record", "recordbad"}
  /\ LET s == IF zpc = "record" THEN Taken(zread) ELSE Padded(zbad, zlen)
     IN records' = IF EndsFrame(s)
                   THEN records \union {[perfect |-> zperfect,
                                         recorded |-> Header(s)]}
                   ELSE records
  /\ zpc' = "idle"
  /\ zread' = 0 /\ zbad' = <<>> /\ zlen' = 0 /\ zperfect' = Zero
  /\ UNCHANGED <<lines, Buf_Recv, web, ask, writes, j, requests, acts>>

Sending ==
  Write \/ ZigbeeClear \/ EmptyRead \/ ZigbeeRead \/ ZigbeeCheck \/ ZigbeeRecord

SerialInit ==
  /\ webline = <<>> /\ zline = <<>> /\ Buf_Recv = <<>>
  /\ wpc = "clear" /\ wread = <<>> /\ wacc = <<>> /\ wshared = FALSE
  /\ wperfect = Zero /\ wcmd = Zero
  /\ zpc = "idle" /\ zread = 0 /\ zbad = <<>> /\ zlen = 0 /\ zperfect = Zero
  /\ ask = Zero /\ writes = 0 /\ j = 0
  /\ due = [d \in Devices |-> 0] /\ sent = <<>> /\ requests = 0
  /\ acts = <<>> /\ records = {}

SerialNext ==
  \/ \E f \in Commands : WebSends(f)
  \/ \E d \in Devices : DeviceAnswers(d) \/ Request(d)
  \/ Web \/ Sending

(* Both threads are endless loops of 20 us sleeps.  The web and the        *)
(* devices need not send anything.                                         *)
SerialSpec ==
  /\ SerialInit /\ [][SerialNext]_serialVars
  /\ WF_serialVars(Web) /\ WF_serialVars(Sending)

-----------------------------------------------------------------------------
(* Properties. *)

Part == [of : Commands \union Devices \union {Zero},
         half : {"fore", "aft", "cut", "zero"}]
Act == [perfect : Commands, cmd : Commands \union Devices \union {Zero},
        args : Commands \union Devices \union {Zero}]

(* The buffers hold parts of frames; Send_Function writes three times at   *)
(* most and counts its empty reads.                                        *)
SerialTypeOK ==
  /\ webline \in Seq(Part) /\ zline \in Seq(Part) /\ Buf_Recv \in Seq(Part)
  /\ wpc \in {"clear", "read", "judge", "check", "dispatch", "act"}
  /\ wread \in Seq(Part) /\ wacc \in Seq(Part) /\ wshared \in BOOLEAN
  /\ wperfect \in Commands \union {Zero}
  /\ wcmd \in Commands \union Devices \union {Zero}
  /\ zpc \in {"idle", "write", "clear", "read", "check", "record", "recordbad"}
  /\ zread \in Nat /\ zbad \in Seq(Part) /\ zlen \in Nat
  /\ zperfect \in Devices \union {Zero} /\ ask \in Devices \union {Zero}
  /\ writes \in 0..3 /\ j \in 0..(MaxEmpty + 1)
  /\ due \in [Devices -> Nat] /\ sent \in Seq(Commands)
  /\ requests \in 0..MaxRequests
  /\ acts \in Seq(Act) /\ records \subseteq
       [perfect : Devices, recorded : Commands \union Devices \union {Zero}]

(* The commands of the web are acted upon in the order they were sent, and *)
(* none of them twice (some may be lost): what was collected is dropped    *)
(* with every frame that is parsed, whichever buffer it was in, and        *)
(* nothing the other thread leaves in Buf_Recv revives a command.          *)
ActsInOrder ==
  \A m, n \in DOMAIN acts : \A p, q \in DOMAIN sent :
    (m < n /\ acts[m].perfect = sent[p] /\ acts[n].perfect = sent[q]) => p < q

(* Every call of Send_Function returns, however late, damaged or missing   *)
(* the answers are: neither a relay command nor a poll blocks the Zigbee   *)
(* loop.  A device answers each request once at most here; one that never  *)
(* stopped sending would never be counted as silent.                       *)
SendReturns == zpc = "write" ~> zpc = "idle"

(* Send_Function gives up on a device only after the third write: a device *)
(* that is slow or whose first answers are damaged is asked again.         *)
GivesUpAfterThree ==
  [][(zpc = "read" /\ zpc' = "idle") => writes = 3]_serialVars

(* A call of Send_Function neither hangs nor gives up early.               *)
CallsEnd == SendReturns /\ GivesUpAfterThree

(* After "DATA is perfect, crc16 ok" Recv_Function acts on that very       *)
(* frame, with its command and its arguments.                              *)
ActsOnPerfectData ==
  \A n \in DOMAIN acts :
    acts[n].cmd = acts[n].perfect /\ acts[n].args = acts[n].perfect

(* After the same message of Send_Function, Create_Sharemem_Json records   *)
(* the very frame that passed.                                             *)
RecordsPerfectData == \A r \in records : r.recorded = r.perfect
=============================================================================
