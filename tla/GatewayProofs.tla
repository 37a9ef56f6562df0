---------------------------- MODULE GatewayProofs ----------------------------
(***************************************************************************)
(* Proofs about what makes the box a gateway: its two serial lines, its    *)
(* log and its update (SerialPorts, LogFile, Launcher), for any number of  *)
(* commands, devices, retries, entries and updates.                        *)
(*                                                                         *)
(* That commands are acted upon in their order and once is seen by looking *)
(* at everything on its way, from the line over the collecting buffer to   *)
(* the command in hand, as one stream: each place holds parts that are     *)
(* behind what has been acted upon and before what is still to be read.    *)
(* The array both threads share is a part of the stream only between the   *)
(* read of the DTU thread and the use of what it has read.                 *)
(*                                                                         *)
(* log.txt stays near its limit, and the two files together are the last   *)
(* entries in order.  What holds an update together is in one invariant:   *)
(* from the unpacking to the second move /job/system_org is the whole      *)
(* archive that was copied, and ret remembers that the place of the system *)
(* was not free.                                                           *)
(***************************************************************************)
EXTENDS SerialPorts, LogFile, Launcher, SequenceTheorems, FiniteSetTheorems,
        WellFoundedInduction, TLAPS

-----------------------------------------------------------------------------
(* SerialPorts *)

(* What is being sent. *)

(* Send_Function has a device, may still write, and hands on only what     *)
(* passed the CRC; Recv_Function acts on a command.                        *)
HandsOn ==
  /\ zpc # "idle" => ask \in Devices
  /\ zpc = "write" => writes <= 2
  /\ zpc \in {"record", "recordbad"} => zperfect \in Devices
  /\ wpc \in {"dispatch", "act"} => wperfect \in Commands

(* The order of two parts on the line of the web, when the frames were     *)
(* sent in the given order.                                                *)
Before(order, a, b) ==
  \A p, q \in DOMAIN order : a.of = order[p] /\ b.of = order[q] =>
    p < q \/ (p = q /\ a.half = "fore" /\ b.half = "aft")

Precede(order, s, t) ==
  \A i \in DOMAIN s : \A k \in DOMAIN t : Before(order, s[i], t[k])

(* What has been acted upon is of earlier frames than f. *)
ActsBefore(order, done, f) ==
  \A m \in DOMAIN done : \A p, q \in DOMAIN order :
    done[m].perfect = order[p] /\ f = order[q] => p < q

Ahead(order, done, s) == \A i \in DOMAIN s : ActsBefore(order, done, s[i].of)

(* No part of a command that has not been sent. *)
KnownFrame(order, f) == f \in Commands => f \in ToSet(order)
Known(order, s) == \A i \in DOMAIN s : KnownFrame(order, s[i].of)

SentOnce == \A p, q \in DOMAIN sent : sent[p] = sent[q] => p = q

LinesInv ==
  /\ \A i \in DOMAIN zline : zline[i].of \in Devices
  /\ Known(sent, webline) /\ Ahead(sent, acts, webline)
  /\ \A i, k \in DOMAIN webline : i < k => Before(sent, webline[i], webline[k])

CollectedInv ==
  /\ Known(sent, wacc) /\ Precede(sent, wacc, webline)
  /\ wpc \in {"clear", "read", "judge", "check"} => Ahead(sent, acts, wacc)

(* Buf_Recv between the read of the DTU thread and the CRC check. *)
InUse == wpc = "judge" \/ (wpc = "check" /\ wshared)
SharedInv ==
  InUse => /\ Known(sent, Buf_Recv) /\ Ahead(sent, acts, Buf_Recv)
           /\ Precede(sent, Buf_Recv, webline)
           /\ wpc = "judge" => Precede(sent, wacc, Buf_Recv)

(* The command in hand, which a part of its own frame may not follow. *)
InHandInv ==
  wpc \in {"dispatch", "act"} =>
    /\ wperfect \in ToSet(sent) /\ ActsBefore(sent, acts, wperfect)
    /\ Precede(sent, <<Aft(wperfect)>>, webline)

ActsKnown == \A m \in DOMAIN acts : acts[m].perfect \in ToSet(sent)

StreamInv ==
  /\ SentOnce /\ LinesInv /\ CollectedInv /\ SharedInv /\ InHandInv
  /\ ActsKnown /\ ActsInOrder

-----------------------------------------------------------------------------
(* Types. *)

(* Every set of numbers has a least one. *)
LEMMA LeastMember ==
  ASSUME NEW S \in SUBSET Nat, S # {}
  PROVE  Min(S) \in S
<1> DEFINE R == OpToRel(<, Nat)
<1>1. IsWellFoundedOn(R, Nat) BY NatLessThanWellFounded
<1> HIDE DEF R
<1>2. PICK m \in S : \A n \in S : ~ (<<n, m>> \in R) BY <1>1, WFMin
<1>3. \A a \in Nat, b \in Nat : a < b => <<a, b>> \in R BY DEF R, OpToRel
<1>4. ASSUME NEW n \in S PROVE m <= n
  <2>1. m \in Nat /\ n \in Nat OBVIOUS
  <2>2. ~(n < m) BY <1>2, <1>3, <2>1
  <2> QED BY <2>1, <2>2
<1> QED BY <1>4 DEF Min

(* Halves of frames, and what pads a buffer, are parts. *)
LEMMA PartTypes ==
  /\ \A f \in Commands \union Devices :
       Fore(f) \in Part /\ Aft(f) \in Part
  /\ Blank \in Part
  BY DEF Fore, Aft, Blank, Part

(* Sequences of one and of two elements. *)
LEMMA ShortSequences ==
  ASSUME NEW S, NEW a \in S, NEW b \in S
  PROVE  /\ <<a>> \in Seq(S) /\ DOMAIN <<a>> = {1} /\ <<a>>[1] = a
         /\ <<a, b>> \in Seq(S) /\ DOMAIN <<a, b>> = {1, 2} /\ Len(<<a, b>>) = 2
         /\ <<a, b>>[1] = a /\ <<a, b>>[2] = b
  OBVIOUS

(* A prefix agrees with what it is a prefix of. *)
LEMMA PrefixElements ==
  ASSUME NEW S, NEW s \in Seq(S), NEW t \in Seq(S), IsPrefix(s, t)
  PROVE  Len(s) <= Len(t) /\ \A i \in 1..Len(s) : s[i] = t[i]
<1>1. Len(s) <= Len(t) /\ SubSeq(s, 1, Len(s)) = SubSeq(t, 1, Len(s))
  BY DEF IsPrefix
<1>2. \A i \in 1..Len(s) :
        SubSeq(s, 1, Len(s))[i] = s[i] /\ SubSeq(t, 1, Len(s))[i] = t[i]
  BY <1>1
<1> QED BY <1>1, <1>2

(* What the line makes of a frame are parts of that frame. *)
LEMMA ArrivalsType ==
  ASSUME NEW f \in Commands \union Devices, NEW s \in Arrivals(f)
  PROVE  s \in Seq(Part) /\ \A i \in DOMAIN s : s[i] = Fore(f) \/ s[i] = Aft(f)
<1>1. Fore(f) \in Part /\ Aft(f) \in Part BY PartTypes
<1>2. s = <<Fore(f), Aft(f)>> \/ s = <<Fore(f)>> \/ s = <<Aft(f)>>
  BY DEF Arrivals, Frame
<1>3. \A a, b \in Part :
        /\ <<a>> \in Seq(Part) /\ DOMAIN <<a>> = {1} /\ <<a>>[1] = a
        /\ <<a, b>> \in Seq(Part) /\ DOMAIN <<a, b>> = {1, 2}
        /\ <<a, b>>[1] = a /\ <<a, b>>[2] = b
  BY ShortSequences
<1>4. CASE s = <<Fore(f), Aft(f)>> BY <1>1, <1>3, <1>4
<1>5. CASE s = <<Fore(f)>> BY <1>1, <1>3, <1>5
<1>6. CASE s = <<Aft(f)>> BY <1>1, <1>3, <1>6
<1> QED BY <1>2, <1>4, <1>5, <1>6

(* Padding keeps parts. *)
LEMMA PaddedType ==
  ASSUME NEW s \in Seq(Part), NEW n \in Nat
  PROVE  /\ Padded(s, n) \in Seq(Part)
         /\ \A i \in DOMAIN Padded(s, n) :
              (i \in DOMAIN s /\ Padded(s, n)[i] = s[i]) \/ Padded(s, n)[i] = Blank
  BY PartTypes DEF Padded

(* strncat appends parts. *)
LEMMA CatenableType ==
  ASSUME Buf_Recv \in Seq(Part), NEW n \in Nat
  PROVE  Catenable(n) \in Seq(Part)
<1> DEFINE m == Min({n, Len(Buf_Recv)})
           kept == SubSeq(Buf_Recv, 1, m)
           stops == {i \in DOMAIN kept : HoldsZero(kept[i])}
           end == Min(stops \union {Len(kept)})
<1>1. kept \in Seq(Part)
  <2>1. {n, Len(Buf_Recv)} \in SUBSET Nat OBVIOUS
  <2>2. m \in {n, Len(Buf_Recv)} BY <2>1, LeastMember
  <2>3. \E k \in {n, Len(Buf_Recv)} : \A l \in {n, Len(Buf_Recv)} : k <= l
    OBVIOUS
  <2>4. m <= Len(Buf_Recv) BY <2>3 DEF Min
  <2>5. m \in 0..Len(Buf_Recv) BY <2>1, <2>2, <2>4
  <2> HIDE DEF m
  <2> QED BY <2>5
<1>2. end \in 0..Len(kept)
  <2>1. stops \union {Len(kept)} \in SUBSET (0..Len(kept)) BY <1>1
  <2> HIDE DEF kept, stops
  <2>2. end \in stops \union {Len(kept)} BY <2>1, LeastMember
  <2> QED BY <2>1, <2>2
<1>3. \A i \in 1..Len(kept) : [kept[i] EXCEPT !.half = "cut"] \in Part /\ kept[i] \in Part
  <2>1. \A p \in Part : [p EXCEPT !.half = "cut"] \in Part BY DEF Part
  <2> HIDE DEF kept
  <2> QED BY <1>1, <2>1
<1>4. Catenable(n) = [i \in 1..end |->
        IF i \in stops THEN [kept[i] EXCEPT !.half = "cut"] ELSE kept[i]]
  BY DEF Catenable
<1> HIDE DEF kept, stops, end
<1> QED BY <1>1, <1>2, <1>3, <1>4

(* What the CRC lets pass begins with the halves of one frame. *)
LEMMA CrcOkHeader ==
  ASSUME NEW s \in Seq(Part), NEW F \in SUBSET (Commands \union Devices), CrcOk(s, F)
  PROVE  /\ Header(s) \in F
         /\ {1, 2} \subseteq DOMAIN s
         /\ s[1] = Fore(Header(s)) /\ s[2] = Aft(Header(s))
<1>1. PICK f \in F : IsPrefix(Frame(f), s) BY DEF CrcOk
<1>2. Frame(f) \in Seq(Part) /\ Len(Frame(f)) = 2
      /\ Frame(f)[1] = Fore(f) /\ Frame(f)[2] = Aft(f)
  BY PartTypes, ShortSequences DEF Frame
<1>3. Len(s) >= 2 /\ s[1] = Fore(f) /\ s[2] = Aft(f)
  BY <1>1, <1>2, PrefixElements
<1>4. Header(s) = f BY <1>3 DEF Header, Fore
<1> QED BY <1>3, <1>4

LEMMA HeaderType ==
  ASSUME NEW s \in Seq(Part)
  PROVE  Header(s) \in Commands \union Devices \union {Zero}
<1>1. CASE s = <<>> BY <1>1 DEF Header
<1>2. CASE s # <<>>
  <2>1. s[1] \in Part BY <1>2
  <2> QED BY <1>2, <2>1 DEF Header, Part
<1> QED BY <1>1, <1>2

(* The buffers hold parts of frames, whatever is read into them, and       *)
(* Send_Function hands on what it has asked for.                           *)
TypeInv == SerialTypeOK /\ HandsOn

LEMMA TypeInitially == SerialInit => TypeInv
<1>1. SUFFICES ASSUME SerialInit PROVE TypeInv OBVIOUS
<1> USE <1>1, PortsAssumption DEF SerialInit
<1>2. /\ webline \in Seq(Part) /\ zline \in Seq(Part) /\ Buf_Recv \in Seq(Part)
      /\ wread \in Seq(Part) /\ wacc \in Seq(Part) /\ zbad \in Seq(Part)
      /\ sent \in Seq(Commands) /\ acts \in Seq(Act)
  OBVIOUS
<1>3. due \in [Devices -> Nat] OBVIOUS
<1>4. /\ records \subseteq
           [perfect : Devices, recorded : Commands \union Devices \union {Zero}]
      /\ writes \in 0..3 /\ j \in 0..(MaxEmpty + 1) /\ requests \in 0..MaxRequests
  OBVIOUS
<1>5. SerialTypeOK BY <1>2, <1>3, <1>4 DEF SerialTypeOK
<1>6. HandsOn BY DEF HandsOn
<1> QED BY <1>5, <1>6 DEF TypeInv

(* A read splits what has arrived. *)
LEMMA ReadTypes ==
  ASSUME NEW s \in Seq(Part), NEW n \in 1..Len(s)
  PROVE  SubSeq(s, 1, n) \in Seq(Part) /\ Rest(s, n) \in Seq(Part)
  BY DEF Rest

LEMMA TypeOfLines ==
  ASSUME TypeInv,
         \/ \E f \in Commands : WebSends(f)
         \/ \E d \in Devices : DeviceAnswers(d)
  PROVE  TypeInv'
<1> USE DEF TypeInv, SerialTypeOK, HandsOn, web, zigbee
<1>1. ASSUME NEW f \in Commands, WebSends(f) PROVE TypeInv'
  <2>1. PICK s \in Arrivals(f) : webline' = webline \o s BY <1>1 DEF WebSends
  <2>2. webline' \in Seq(Part) BY <2>1, ArrivalsType
  <2>3. sent' \in Seq(Commands) BY <1>1 DEF WebSends
  <2> QED BY <1>1, <2>2, <2>3 DEF WebSends
<1>2. ASSUME NEW d \in Devices, DeviceAnswers(d) PROVE TypeInv'
  <2>1. zline' \in Seq(Part)
    <3>1. CASE UNCHANGED zline BY <3>1
    <3>2. ASSUME NEW s \in Arrivals(d), zline' = zline \o s PROVE zline' \in Seq(Part)
      BY <3>2, ArrivalsType
    <3> QED BY <1>2, <3>1, <3>2 DEF DeviceAnswers
  <2>2. due' \in [Devices -> Nat] BY <1>2 DEF DeviceAnswers
  <2> QED BY <1>2, <2>1, <2>2 DEF DeviceAnswers
<1> QED BY <1>1, <1>2

LEMMA TypeOfWeb ==
  ASSUME TypeInv, Web PROVE TypeInv'
<1> USE PortsAssumption DEF TypeInv, SerialTypeOK, HandsOn, lines, zigbee
<1>1. CASE WebClear BY <1>1 DEF WebClear, Clear
<1>2. CASE WebRead
  <2>1. CASE webline = <<>> BY <1>2, <2>1 DEF WebRead
  <2>2. ASSUME NEW n \in 1..Len(webline),
               Store(webline, n), webline' = Rest(webline, n),
               wread' = SubSeq(webline, 1, n), wpc' = "judge"
        PROVE  TypeInv'
    <3>1. /\ webline' \in Seq(Part) /\ Buf_Recv' \in Seq(Part)
          /\ wread' \in Seq(Part)
      BY <2>2, ReadTypes DEF Store
    <3> QED BY <1>2, <2>2, <3>1 DEF WebRead
  <2> QED BY <1>2, <2>1, <2>2 DEF WebRead
<1>3. CASE WebJudge
  <2>1. Taken(Len(wread)) \in Seq(Part) BY PaddedType DEF Taken
  <2>2. wacc' \in Seq(Part) BY <1>3, <2>1 DEF WebJudge
  <2>3. wread' \in Seq(Part) /\ wshared' \in BOOLEAN /\ wpc' \in {"check", "clear"}
    BY <1>3 DEF WebJudge, WholeFrame
  <2> QED BY <1>3, <2>2, <2>3 DEF WebJudge
<1>4. Argument \in Seq(Part) BY DEF Argument
<1>5. CASE WebCheck
  <2>1. CASE CrcOk(Argument, Commands)
    <3>1. wperfect' \in Commands BY <1>4, <1>5, <2>1, CrcOkHeader DEF WebCheck
    <3> QED BY <1>5, <2>1, <3>1 DEF WebCheck
  <2>2. CASE ~CrcOk(Argument, Commands)
    <3>1. wacc' \in Seq(Part) BY <1>5, <2>2 DEF WebCheck
    <3> QED BY <1>5, <2>2, <3>1 DEF WebCheck
  <2> QED BY <2>1, <2>2
<1>6. CASE WebDispatch
  <2>1. wcmd' \in Commands \union Devices \union {Zero}
    BY <1>4, <1>6, HeaderType DEF WebDispatch
  <2> QED BY <1>6, <2>1 DEF WebDispatch
<1>7. CASE WebAct
  <2>1. [perfect |-> wperfect, cmd |-> wcmd, args |-> Header(Argument)] \in Act
    BY <1>4, <1>7, HeaderType DEF WebAct, Act
  <2>2. acts' \in Seq(Act) /\ wacc' \in Seq(Part) BY <1>7, <2>1 DEF WebAct
  <2> QED BY <1>7, <2>2 DEF WebAct
<1> QED BY <1>1, <1>2, <1>3, <1>5, <1>6, <1>7 DEF Web

LEMMA TypeOfZigbee ==
  ASSUME TypeInv, Sending \/ \E d \in Devices : Request(d) PROVE TypeInv'
<1> USE PortsAssumption DEF TypeInv, SerialTypeOK, HandsOn, lines, web
<1>1. ASSUME NEW d \in Devices, Request(d) PROVE TypeInv'
  BY <1>1 DEF Request
<1>2. CASE Write
  <2>1. due' \in [Devices -> Nat] BY <1>2 DEF Write
  <2>2. zbad' \in Seq(Part) BY <1>2 DEF Write
  <2> QED BY <1>2, <2>1, <2>2 DEF Write
<1>3. CASE ZigbeeClear BY <1>3 DEF ZigbeeClear, Clear
<1>4. CASE EmptyRead BY <1>4 DEF EmptyRead
<1>5. CASE ZigbeeRead
  <2>1. PICK n \in 1..Len(zline) :
          Store(zline, n) /\ zline' = Rest(zline, n) /\ zread' = n
    BY <1>5 DEF ZigbeeRead
  <2>2. Buf_Recv' \in Seq(Part) /\ zline' \in Seq(Part) /\ zread' \in Nat
    BY <2>1, ReadTypes DEF Store
  <2> QED BY <1>5, <2>2 DEF ZigbeeRead
<1>6. CASE ZigbeeCheck
  <2>1. CASE CrcOk(Buf_Recv, Devices)
    <3>1. zperfect' \in Devices BY <1>6, <2>1, CrcOkHeader DEF ZigbeeCheck
    <3> QED BY <1>6, <2>1, <3>1 DEF ZigbeeCheck
  <2>2. CASE ~CrcOk(Buf_Recv, Devices)
    <3> DEFINE all == zbad \o Catenable(zread)
    <3>1. all \in Seq(Part) BY CatenableType
    <3>2. CrcOk(all, Devices) => Header(all) \in Devices BY <3>1, CrcOkHeader
    <3> HIDE DEF all
    <3>3. /\ zread' = 0 /\ zbad' \in {all, <<>>} /\ zlen' \in {0, zlen + zread}
          /\ \/ zpc' = "recordbad" /\ zperfect' = Header(all) /\ CrcOk(all, Devices)
             \/ zpc' = "clear" /\ zperfect' = zperfect
      BY <1>6, <2>2 DEF ZigbeeCheck, all
    <3>4. zbad' \in Seq(Part)
      <4>1. <<>> \in Seq(Part) OBVIOUS
      <4> QED BY <3>1, <3>3, <4>1, Zenon
    <3>5. zread' \in Nat /\ zlen' \in Nat BY <3>3
    <3>6. zpc' \in {"recordbad", "clear"} BY <3>3
    <3>7. /\ zperfect' \in Devices \union {Zero}
          /\ zpc' = "recordbad" => zperfect' \in Devices
      BY <3>2, <3>3
    <3>8. /\ zpc = "check"
          /\ UNCHANGED <<lines, Buf_Recv, web, ask, writes, j, requests, acts, records>>
      BY <1>6 DEF ZigbeeCheck
    <3>9. SerialTypeOK' BY <3>4, <3>5, <3>6, <3>7, <3>8
    <3>10. HandsOn' BY <3>6, <3>7, <3>8
    <3> QED BY <3>9, <3>10
  <2> QED BY <2>1, <2>2
<1>7. CASE ZigbeeRecord
  <2> DEFINE s == IF zpc = "record" THEN Taken(zread) ELSE Padded(zbad, zlen)
  <2>1. s \in Seq(Part) BY PaddedType DEF Taken
  <2>2. Header(s) \in Commands \union Devices \union {Zero} BY <2>1, HeaderType
  <2>3. zperfect \in Devices BY <1>7 DEF ZigbeeRecord
  <2> HIDE DEF s
  <2>4. records' \subseteq records \union {[perfect |-> zperfect, recorded |-> Header(s)]}
    BY <1>7 DEF ZigbeeRecord, s
  <2>5. records' \subseteq
          [perfect : Devices, recorded : Commands \union Devices \union {Zero}]
    BY <2>2, <2>3, <2>4
  <2>6. zbad' \in Seq(Part) BY <1>7 DEF ZigbeeRecord
  <2> QED BY <1>7, <2>5, <2>6 DEF ZigbeeRecord
<1> QED BY <1>1, <1>2, <1>3, <1>4, <1>5, <1>6, <1>7 DEF Sending

LEMMA TypeStep == ASSUME TypeInv, [SerialNext]_serialVars PROVE TypeInv'
<1>1. CASE UNCHANGED serialVars
  BY <1>1 DEF serialVars, lines, web, zigbee, TypeInv, SerialTypeOK, HandsOn
<1> QED BY <1>1, TypeOfLines, TypeOfWeb, TypeOfZigbee DEF SerialNext

LEMMA TypesStay == SerialSpec => []TypeInv
  BY TypeInitially, TypeStep, PTL DEF SerialSpec

(* The buffers only ever hold parts of frames, whatever both threads read  *)
(* into the array they share, and Send_Function writes three times at most *)
(* and ends its wait in time.                                              *)
THEOREM SerialTypeCorrect == SerialSpec => []SerialTypeOK
<1>1. TypeInv => SerialTypeOK BY DEF TypeInv
<1> QED BY <1>1, TypesStay, PTL

(* Send_Function gives up only after its third write. *)
THEOREM GivesUpLate == SerialSpec => GivesUpAfterThree
<1>1. ASSUME TypeInv, [SerialNext]_serialVars
      PROVE  [(zpc = "read" /\ zpc' = "idle") => writes = 3]_serialVars
  <2>1. SUFFICES ASSUME SerialNext, zpc = "read", zpc' = "idle" PROVE writes = 3
    BY <1>1
  <2>2. EmptyRead
    BY <2>1 DEF SerialNext, WebSends, DeviceAnswers, Request, Web, WebClear, WebRead,
       WebJudge, WebCheck, WebDispatch, WebAct, zigbee, Sending, Write,
       ZigbeeClear, ZigbeeRead, ZigbeeCheck, ZigbeeRecord
  <2> QED BY <1>1, <2>1, <2>2 DEF EmptyRead, TypeInv, SerialTypeOK
<1> QED BY <1>1, TypesStay, PTL DEF SerialSpec, GivesUpAfterThree

-----------------------------------------------------------------------------
(* The stream. *)

(* What is not of a command has no place in the order of the commands. *)
LEMMA ForeignParts ==
  ASSUME NEW order \in Seq(Commands), NEW done, NEW a, NEW b, b.of \notin Commands
  PROVE  /\ Before(order, a, b) /\ Before(order, b, a)
         /\ ActsBefore(order, done, b.of) /\ KnownFrame(order, b.of)
<1>1. \A q \in DOMAIN order : b.of # order[q] OBVIOUS
<1> QED BY <1>1 DEF Before, ActsBefore, KnownFrame

(* The parts of t are parts of s, or not of a command. *)
Drawn(t, s) ==
  \A i \in DOMAIN t : (\E k \in DOMAIN s : t[i] = s[k]) \/ t[i].of \notin Commands

(* Then t has the place of s in the stream. *)
LEMMA DrawnKnown ==
  ASSUME NEW order \in Seq(Commands), NEW s, NEW t, Drawn(t, s), Known(order, s)
  PROVE  Known(order, t)
  BY ForeignParts DEF Drawn, Known

LEMMA DrawnAhead ==
  ASSUME NEW order \in Seq(Commands), NEW done, NEW s, NEW t, Drawn(t, s),
         Ahead(order, done, s)
  PROVE  Ahead(order, done, t)
  BY ForeignParts DEF Drawn, Ahead

LEMMA DrawnPrecedes ==
  ASSUME NEW order \in Seq(Commands), NEW s, NEW t, NEW u, Drawn(t, s)
  PROVE  /\ Precede(order, s, u) => Precede(order, t, u)
         /\ Precede(order, u, s) => Precede(order, u, t)
  BY ForeignParts DEF Drawn, Precede

(* A frame that is sent comes behind everything. *)
LEMMA SentLater ==
  ASSUME NEW order \in Seq(Commands), NEW f \in Commands, f \notin ToSet(order),
         NEW a, KnownFrame(order, a.of), NEW b
  PROVE  /\ KnownFrame(Append(order, f), a.of)
         /\ KnownFrame(order, b.of) /\ Before(order, a, b) => Before(Append(order, f), a, b)
         /\ b.of = f => Before(Append(order, f), a, b)
<1> DEFINE n == Len(order)
           later == Append(order, f)
<1>1. /\ DOMAIN order = 1..n /\ DOMAIN later = 1..(n + 1) /\ n \in Nat
      /\ \A p \in 1..n : later[p] = order[p]
      /\ later[n + 1] = f
  OBVIOUS
<1>2. \A p \in 1..n : order[p] # f /\ order[p] \in ToSet(order) BY <1>1 DEF ToSet
<1>3. a.of # f /\ \A p \in 1..(n + 1) : a.of = later[p] => p \in 1..n /\ a.of = order[p]
  BY <1>1 DEF KnownFrame
<1>4. KnownFrame(later, a.of) BY <1>1 DEF KnownFrame, ToSet
<1>5. ASSUME KnownFrame(order, b.of), Before(order, a, b) PROVE Before(later, a, b)
  <2>1. \A p \in 1..(n + 1) : b.of = later[p] => p \in 1..n /\ b.of = order[p]
    BY <1>1, <1>5 DEF KnownFrame
  <2> HIDE DEF n, later
  <2> QED BY <1>1, <1>3, <1>5, <2>1 DEF Before
<1>6. ASSUME b.of = f PROVE Before(later, a, b)
  <2>1. \A p \in 1..(n + 1) : b.of = later[p] => p = n + 1 BY <1>1, <1>2, <1>6
  <2> HIDE DEF n, later
  <2> QED BY <1>1, <1>3, <2>1 DEF Before
<1> QED BY <1>4, <1>5, <1>6

LEMMA ActsEarlier ==
  ASSUME NEW order \in Seq(Commands), NEW f \in Commands, f \notin ToSet(order),
         NEW done, \A m \in DOMAIN done : done[m].perfect \in ToSet(order),
         NEW g, \/ g = f
                \/ KnownFrame(order, g) /\ ActsBefore(order, done, g)
  PROVE  ActsBefore(Append(order, f), done, g)
<1> DEFINE n == Len(order)
           later == Append(order, f)
<1>1. /\ DOMAIN order = 1..n /\ DOMAIN later = 1..(n + 1) /\ n \in Nat
      /\ \A p \in 1..n : later[p] = order[p]
      /\ later[n + 1] = f
  OBVIOUS
<1>2. \A p \in 1..n : order[p] # f /\ order[p] \in ToSet(order) BY <1>1 DEF ToSet
<1>3. \A m \in DOMAIN done : \A p \in 1..(n + 1) : done[m].perfect = later[p] =>
        p \in 1..n /\ done[m].perfect = order[p]
  BY <1>1
<1>4. CASE g = f
  <2>1. \A q \in 1..(n + 1) : g = later[q] => q = n + 1 BY <1>1, <1>2, <1>4
  <2> HIDE DEF n, later
  <2> QED BY <1>1, <1>3, <2>1 DEF ActsBefore
<1>5. CASE g # f
  <2>1. \A q \in 1..(n + 1) : g = later[q] => q \in 1..n /\ g = order[q]
    BY <1>1, <1>5
  <2> HIDE DEF n, later
  <2> QED BY <1>1, <1>3, <1>5, <2>1 DEF ActsBefore
<1> QED BY <1>4, <1>5

LEMMA StreamInitially == SerialInit => StreamInv
  BY DEF SerialInit, StreamInv, SentOnce, LinesInv, CollectedInv, SharedInv, InUse,
     InHandInv, ActsKnown, ActsInOrder, Known, Ahead, Precede

(* A command arrives behind all others. *)
LEMMA StreamOfCommand ==
  ASSUME TypeInv, StreamInv, NEW f \in Commands, WebSends(f)
  PROVE  StreamInv'
<1>1. /\ f \notin ToSet(sent) /\ sent' = Append(sent, f)
      /\ UNCHANGED <<zline, Buf_Recv, wpc, wacc, wshared, wperfect, acts>>
  BY DEF WebSends, web, zigbee
<1>2. sent \in Seq(Commands) BY DEF TypeInv, SerialTypeOK
<1>3. PICK s \in Arrivals(f) : webline' = webline \o s BY DEF WebSends
<1>4. /\ s \in Seq(Part) /\ webline \in Seq(Part)
      /\ \A i \in DOMAIN s : s[i].of = f
  BY ArrivalsType DEF TypeInv, SerialTypeOK, Fore, Aft
<1>5. \A i, k \in DOMAIN s : i < k => s[i] = Fore(f) /\ s[k] = Aft(f)
  <2>1. CASE s = <<Fore(f), Aft(f)>>
    <3>1. DOMAIN s = {1, 2} /\ s[1] = Fore(f) /\ s[2] = Aft(f)
      BY <2>1, ShortSequences
    <3> QED BY <3>1
  <2>2. CASE s = <<Fore(f)>> \/ s = <<Aft(f)>>
    <3>1. DOMAIN s = {1} BY <2>2, ShortSequences
    <3> QED BY <3>1
  <2> QED BY <2>1, <2>2 DEF Arrivals, Frame
<1>6. \A a, b : KnownFrame(sent, a.of) =>
        /\ KnownFrame(sent', a.of)
        /\ KnownFrame(sent, b.of) /\ Before(sent, a, b) => Before(sent', a, b)
        /\ b.of = f => Before(sent', a, b)
  BY <1>1, <1>2, SentLater
<1>7. ActsKnown' BY <1>1, <1>2 DEF StreamInv, ActsKnown, ToSet
<1>8. \A g : g = f \/ (KnownFrame(sent, g) /\ ActsBefore(sent, acts, g)) =>
        ActsBefore(sent', acts, g)
  BY <1>1, <1>2, ActsEarlier DEF StreamInv, ActsKnown
<1>9. /\ DOMAIN sent' = 1..(Len(sent) + 1) /\ DOMAIN sent = 1..Len(sent)
      /\ \A p \in 1..Len(sent) : sent'[p] = sent[p] /\ sent[p] # f
      /\ sent'[Len(sent) + 1] = f /\ f \in ToSet(sent')
  BY <1>1, <1>2 DEF ToSet
<1>10. SentOnce' BY <1>2, <1>9 DEF StreamInv, SentOnce
<1>11. /\ \A i \in DOMAIN webline : webline'[i] = webline[i]
       /\ \A i \in DOMAIN webline' : i \notin DOMAIN webline =>
            /\ i - Len(webline) \in DOMAIN s /\ webline'[i] = s[i - Len(webline)]
       /\ DOMAIN webline = 1..Len(webline) /\ DOMAIN webline' \subseteq Nat
       /\ Len(webline) \in Nat
  BY <1>3, <1>4
<1>12. \A i \in DOMAIN webline' :
         (i \in DOMAIN webline /\ webline'[i] = webline[i]) \/ webline'[i].of = f
  BY <1>4, <1>11
<1>13. \A t : Known(sent, t) =>
         /\ Known(sent', t)
         /\ Ahead(sent, acts, t) => Ahead(sent', acts, t)
         /\ Precede(sent, t, webline) => Precede(sent', t, webline')
  <2>1. ASSUME NEW t, Known(sent, t) PROVE Known(sent', t)
    BY <1>6, <2>1 DEF Known
  <2>2. ASSUME NEW t, Known(sent, t), Ahead(sent, acts, t)
        PROVE  Ahead(sent', acts, t)
    BY <1>8, <2>2 DEF Known, Ahead
  <2>3. ASSUME NEW t, Known(sent, t), Precede(sent, t, webline)
        PROVE  Precede(sent', t, webline')
    BY <1>6, <1>12, <2>3 DEF Known, Precede, StreamInv, LinesInv
  <2> QED BY <2>1, <2>2, <2>3
<1>14. LinesInv'
  <2>1. Known(sent', webline')
    BY <1>6, <1>9, <1>12 DEF Known, KnownFrame, StreamInv, LinesInv
  <2>2. Ahead(sent', acts', webline')
    BY <1>1, <1>8, <1>12 DEF Known, Ahead, StreamInv, LinesInv
  <2>3. ASSUME NEW i \in DOMAIN webline', NEW k \in DOMAIN webline', i < k
        PROVE  Before(sent', webline'[i], webline'[k])
    <3>1. CASE k \in DOMAIN webline
      BY <1>6, <1>11, <2>3, <3>1 DEF StreamInv, LinesInv, Known
    <3>2. CASE k \notin DOMAIN webline /\ i \in DOMAIN webline
      BY <1>6, <1>11, <1>12, <3>2 DEF StreamInv, LinesInv, Known
    <3>3. CASE k \notin DOMAIN webline /\ i \notin DOMAIN webline
      <4>1. webline'[i] = Fore(f) /\ webline'[k] = Aft(f)
        BY <1>4, <1>5, <1>11, <2>3, <3>3
      <4>2. webline'[i].half = "fore" /\ webline'[k].half = "aft"
            /\ webline'[i].of = webline'[k].of
        BY <4>1 DEF Fore, Aft
      <4> QED BY <1>10, <4>2 DEF Before, SentOnce
    <3> QED BY <3>1, <3>2, <3>3
  <2>4. \A i \in DOMAIN zline' : zline'[i].of \in Devices
    BY <1>1 DEF StreamInv, LinesInv
  <2> QED BY <2>1, <2>2, <2>3, <2>4 DEF LinesInv
<1>15. CollectedInv' BY <1>1, <1>13 DEF StreamInv, CollectedInv
<1>16. SharedInv'
  <2>1. SUFFICES ASSUME InUse PROVE
          /\ Known(sent', Buf_Recv) /\ Ahead(sent', acts, Buf_Recv)
          /\ Precede(sent', Buf_Recv, webline')
          /\ wpc = "judge" => Precede(sent', wacc, Buf_Recv)
    BY <1>1 DEF SharedInv, InUse
  <2>2. wpc = "judge" => Precede(sent', wacc, Buf_Recv)
    BY <1>6, <2>1 DEF Precede, Known, StreamInv, SharedInv, CollectedInv
  <2> QED BY <1>13, <2>1, <2>2 DEF StreamInv, SharedInv
<1>17. InHandInv'
  <2>1. SUFFICES ASSUME wpc \in {"dispatch", "act"}
        PROVE  /\ wperfect \in ToSet(sent') /\ ActsBefore(sent', acts, wperfect)
               /\ Precede(sent', <<Aft(wperfect)>>, webline')
    BY <1>1 DEF InHandInv
  <2>2. /\ wperfect \in ToSet(sent) /\ ActsBefore(sent, acts, wperfect)
        /\ Precede(sent, <<Aft(wperfect)>>, webline)
    BY <2>1 DEF StreamInv, InHandInv
  <2>3. wperfect \in ToSet(sent') /\ KnownFrame(sent, wperfect)
    BY <1>9, <2>2 DEF ToSet, KnownFrame
  <2>4. Known(sent, <<Aft(wperfect)>>)
    BY <2>3, ShortSequences DEF Known, Aft
  <2> QED BY <1>8, <1>13, <2>2, <2>3, <2>4
<1>18. ActsInOrder'
  <2>1. \A g : \A q \in DOMAIN sent' : g = sent'[q] /\ g \in ToSet(sent) =>
           q \in DOMAIN sent /\ g = sent[q]
    BY <1>1, <1>9
  <2> QED BY <1>1, <2>1 DEF StreamInv, ActsKnown, ActsInOrder
<1> QED BY <1>7, <1>10, <1>14, <1>15, <1>16, <1>17, <1>18 DEF StreamInv

(* Whatever takes parts out of one place and puts some of them, or parts   *)
(* of no command, into the next keeps the stream.                          *)
LEMMA StreamOfWeb ==
  ASSUME TypeInv, StreamInv, Web
  PROVE  StreamInv'
<1> USE DEF StreamInv
<1>1. UNCHANGED <<zline, sent>>
  BY DEF Web, WebClear, WebRead, WebJudge, WebCheck, WebDispatch, WebAct, lines
<1>2. sent \in Seq(Commands) /\ SentOnce' BY <1>1 DEF TypeInv, SerialTypeOK, SentOnce
<1>3. CASE ~WebRead /\ ~WebAct
  <2>1. UNCHANGED <<webline, acts>>
    BY <1>3 DEF Web, WebClear, WebJudge, WebCheck, WebDispatch, lines
  <2>2. LinesInv' /\ ActsKnown' /\ ActsInOrder'
    BY <1>1, <2>1 DEF LinesInv, ActsKnown, ActsInOrder
  <2>3. CASE WebClear
    <3>1. UNCHANGED wacc /\ wpc = "clear" /\ wpc' = "read" BY <2>3 DEF WebClear
    <3>2. CollectedInv' /\ SharedInv' /\ InHandInv'
      BY <1>1, <2>1, <3>1 DEF CollectedInv, SharedInv, InUse, InHandInv
    <3> QED BY <1>2, <2>2, <3>2
  <2>4. CASE WebJudge
    <3>1. /\ wpc = "judge" /\ wpc' \in {"check", "clear"} /\ UNCHANGED Buf_Recv
          /\ InUse
      BY <2>4 DEF WebJudge, InUse
    <3>2. /\ Known(sent, Buf_Recv) /\ Ahead(sent, acts, Buf_Recv)
          /\ Precede(sent, Buf_Recv, webline)
      BY <3>1 DEF SharedInv
    <3>3. SharedInv' /\ InHandInv'
      BY <1>1, <2>1, <3>1, <3>2 DEF SharedInv, InUse, InHandInv
    <3>4. CASE WholeFrame
      <4>1. UNCHANGED wacc BY <2>4, <3>4 DEF WebJudge
      <4>2. CollectedInv' BY <1>1, <2>1, <3>1, <4>1 DEF CollectedInv
      <4> QED BY <1>2, <2>2, <3>3, <4>2
    <3>5. CASE ~WholeFrame
      <4> DEFINE more == Taken(Len(wread))
      <4>1. wacc' = wacc \o more BY <2>4, <3>5 DEF WebJudge
      <4>2. Len(wread) \in Nat BY DEF TypeInv, SerialTypeOK
      <4>3. Drawn(more, Buf_Recv) /\ more \in Seq(Part)
        <5>1. Blank.of \notin Commands BY PortsAssumption DEF Blank
        <5> QED BY <4>2, <5>1, PaddedType DEF TypeInv, SerialTypeOK, Taken, Drawn
      <4> HIDE DEF more
      <4>4. /\ Known(sent, more) /\ Ahead(sent, acts, more)
            /\ Precede(sent, more, webline)
        BY <1>2, <3>2, <4>3, DrawnKnown, DrawnAhead, DrawnPrecedes
      <4>5. \A i \in DOMAIN wacc' : \/ i \in DOMAIN wacc /\ wacc'[i] = wacc[i]
                                    \/ \E k \in DOMAIN more : wacc'[i] = more[k]
        <5>1. wacc \in Seq(Part) BY DEF TypeInv, SerialTypeOK
        <5>2. ASSUME NEW i \in DOMAIN wacc', i \notin DOMAIN wacc
              PROVE  i - Len(wacc) \in DOMAIN more /\ wacc'[i] = more[i - Len(wacc)]
          BY <4>1, <4>3, <5>1, <5>2
        <5> QED BY <4>1, <4>3, <5>1, <5>2
      <4>6. Known(sent, wacc) /\ Ahead(sent, acts, wacc) /\ Precede(sent, wacc, webline)
        BY <3>1 DEF CollectedInv
      <4>7. /\ Known(sent, wacc') /\ Ahead(sent, acts, wacc')
            /\ Precede(sent, wacc', webline)
        BY <4>4, <4>5, <4>6 DEF Known, Ahead, Precede
      <4>8. CollectedInv' BY <1>1, <2>1, <4>7 DEF CollectedInv
      <4> QED BY <1>2, <2>2, <3>3, <4>8
    <3> QED BY <3>4, <3>5
  <2>5. CASE WebCheck
    <3>1. wpc = "check" /\ UNCHANGED <<Buf_Recv, wshared>> BY <2>5 DEF WebCheck
    <3>2. CASE CrcOk(Argument, Commands)
      <4>1. /\ wpc' = "dispatch" /\ UNCHANGED wacc /\ wperfect' = Header(Argument)
        BY <2>5, <3>2 DEF WebCheck
      <4>2. /\ Known(sent, Argument) /\ Ahead(sent, acts, Argument)
            /\ Precede(sent, Argument, webline)
        BY <3>1 DEF Argument, SharedInv, InUse, CollectedInv
      <4>3. Argument \in Seq(Part) BY DEF Argument, TypeInv, SerialTypeOK
      <4>4. /\ Header(Argument) \in Commands
            /\ {1, 2} \subseteq DOMAIN Argument
            /\ Argument[1] = Fore(Header(Argument))
            /\ Argument[2] = Aft(Header(Argument))
        BY <3>2, <4>3, CrcOkHeader
      <4>5. Argument[1].of = Header(Argument) BY <4>4 DEF Fore
      <4>6. Header(Argument) \in ToSet(sent) /\ ActsBefore(sent, acts, Header(Argument))
        BY <4>2, <4>4, <4>5 DEF Known, KnownFrame, Ahead
      <4>7. Precede(sent, <<Aft(Header(Argument))>>, webline)
        BY <4>2, <4>4, ShortSequences DEF Precede
      <4>8. InHandInv' BY <1>1, <2>1, <4>1, <4>6, <4>7 DEF InHandInv
      <4>9. CollectedInv' /\ SharedInv'
        BY <1>1, <2>1, <4>1 DEF CollectedInv, SharedInv, InUse
      <4> QED BY <1>2, <2>2, <4>8, <4>9
    <3>3. CASE ~CrcOk(Argument, Commands)
      <4>1. wpc' = "clear" /\ wacc' = <<>> BY <2>5, <3>3 DEF WebCheck
      <4>2. CollectedInv' /\ SharedInv' /\ InHandInv'
        BY <4>1 DEF CollectedInv, SharedInv, InUse, InHandInv, Known, Ahead, Precede
      <4> QED BY <1>2, <2>2, <4>2
    <3> QED BY <3>2, <3>3
  <2>6. CASE WebDispatch
    <3>1. /\ wpc = "dispatch" /\ wpc' = "act"
          /\ UNCHANGED <<Buf_Recv, wacc, wshared, wperfect>>
      BY <2>6 DEF WebDispatch
    <3>2. CollectedInv' /\ SharedInv' /\ InHandInv'
      BY <1>1, <2>1, <3>1 DEF CollectedInv, SharedInv, InUse, InHandInv
    <3> QED BY <1>2, <2>2, <3>2
  <2> QED BY <1>3, <2>3, <2>4, <2>5, <2>6 DEF Web
<1>4. CASE WebRead
  <2>1. wpc = "read" /\ UNCHANGED <<wacc, wshared, wperfect, acts>> BY <1>4 DEF WebRead
  <2>2. ActsKnown' /\ ActsInOrder' BY <1>1, <2>1 DEF ActsKnown, ActsInOrder
  <2>3. CASE UNCHANGED webline /\ wpc' = "clear"
    <3>1. LinesInv' /\ CollectedInv' /\ SharedInv' /\ InHandInv'
      BY <1>1, <2>1, <2>3 DEF LinesInv, CollectedInv, SharedInv, InUse, InHandInv
    <3> QED BY <1>2, <2>2, <3>1
  <2>4. ASSUME NEW n \in 1..Len(webline), Buf_Recv' = SubSeq(webline, 1, n),
               webline' = SubSeq(webline, n + 1, Len(webline)), wpc' = "judge"
        PROVE  StreamInv'
    <3>1. webline \in Seq(Part) BY DEF TypeInv, SerialTypeOK
    <3>2. \A i \in DOMAIN Buf_Recv' :
            i \in DOMAIN webline /\ i <= n /\ Buf_Recv'[i] = webline[i]
      BY <2>4, <3>1
    <3>3. \A i \in DOMAIN webline' :
            i \in Nat /\ n + i \in DOMAIN webline /\ webline'[i] = webline[n + i]
      BY <2>4, <3>1
    <3>4. DOMAIN webline \subseteq Nat /\ DOMAIN webline' \subseteq Nat \ {0} /\ n \in Nat
      BY <2>4, <3>1
    <3>5. Drawn(Buf_Recv', webline) /\ Drawn(webline', webline)
      BY <3>2, <3>3 DEF Drawn
    <3>6. Precede(sent, Buf_Recv', webline')
      <4>1. ASSUME NEW i \in DOMAIN Buf_Recv', NEW k \in DOMAIN webline'
            PROVE  Before(sent, Buf_Recv'[i], webline'[k])
        <5>1. i < n + k BY <3>2, <3>3, <3>4
        <5> QED BY <3>2, <3>3, <5>1 DEF LinesInv
      <4> QED BY <4>1 DEF Precede
    <3>7. LinesInv'
      <4>1. Known(sent, webline') /\ Ahead(sent, acts, webline')
        BY <1>2, <3>5, DrawnKnown, DrawnAhead DEF LinesInv
      <4>2. \A i, k \in DOMAIN webline' : i < k => Before(sent, webline'[i], webline'[k])
        BY <3>3, <3>4 DEF LinesInv
      <4> QED BY <1>1, <2>1, <4>1, <4>2 DEF LinesInv
    <3>8. CollectedInv'
      BY <1>1, <1>2, <2>1, <3>5, DrawnPrecedes DEF CollectedInv
    <3>9. SharedInv'
      <4>1. Known(sent, Buf_Recv') /\ Ahead(sent, acts, Buf_Recv')
        BY <1>2, <3>5, DrawnKnown, DrawnAhead DEF LinesInv
      <4>2. Precede(sent, wacc, Buf_Recv')
        BY <1>2, <3>5, DrawnPrecedes DEF CollectedInv
      <4> QED BY <1>1, <2>1, <3>6, <4>1, <4>2 DEF SharedInv
    <3>10. InHandInv' BY <2>4 DEF InHandInv
    <3> QED BY <1>2, <2>2, <3>7, <3>8, <3>9, <3>10
  <2> QED BY <1>4, <2>3, <2>4 DEF WebRead, Store, Rest
<1>5. CASE WebAct
  <2> DEFINE act == [perfect |-> wperfect, cmd |-> wcmd, args |-> Header(Argument)]
  <2>1. /\ wpc = "act" /\ wpc' = "clear" /\ wacc' = <<>>
        /\ acts' = Append(acts, act) /\ UNCHANGED webline
    BY <1>5 DEF WebAct, lines
  <2>2. acts \in Seq(Act) BY DEF TypeInv, SerialTypeOK
  <2>3. act.perfect = wperfect OBVIOUS
  <2>4. /\ wperfect \in ToSet(sent) /\ ActsBefore(sent, acts, wperfect)
        /\ Precede(sent, <<Aft(wperfect)>>, webline)
    BY <2>1 DEF InHandInv
  <2> HIDE DEF act
  <2>5. /\ DOMAIN acts = 1..Len(acts) /\ DOMAIN acts' = 1..(Len(acts) + 1)
        /\ Len(acts) \in Nat /\ acts'[Len(acts) + 1] = act
        /\ \A m \in 1..Len(acts) : acts'[m] = acts[m]
    BY <2>1, <2>2
  <2>6. ActsKnown' BY <1>1, <2>3, <2>4, <2>5 DEF ActsKnown
  <2>7. ActsInOrder'
    <3>1. SUFFICES ASSUME NEW m \in DOMAIN acts', NEW k \in DOMAIN acts', m < k,
                          NEW p \in DOMAIN sent, NEW q \in DOMAIN sent,
                          acts'[m].perfect = sent[p], acts'[k].perfect = sent[q]
                   PROVE  p < q
      BY <1>1 DEF ActsInOrder
    <3>2. CASE k \in DOMAIN acts BY <2>5, <3>1, <3>2 DEF ActsInOrder
    <3>3. CASE k = Len(acts) + 1 BY <2>3, <2>4, <2>5, <3>1, <3>3 DEF ActsBefore
    <3> QED BY <2>5, <3>2, <3>3
  <2>8. \A k \in DOMAIN webline : Before(sent, Aft(wperfect), webline[k])
    BY <2>4, ShortSequences DEF Precede
  <2>9. \A k \in DOMAIN webline : ActsBefore(sent, acts', webline[k].of)
    <3>1. SUFFICES ASSUME NEW k \in DOMAIN webline, NEW m \in DOMAIN acts',
                          NEW p \in DOMAIN sent, NEW q \in DOMAIN sent,
                          acts'[m].perfect = sent[p], webline[k].of = sent[q]
                   PROVE  p < q
      BY DEF ActsBefore
    <3>2. CASE m \in DOMAIN acts
      BY <2>5, <3>1, <3>2 DEF LinesInv, Ahead, ActsBefore
    <3>3. CASE m = Len(acts) + 1
      <4>1. Aft(wperfect).of = sent[p] /\ Aft(wperfect).half # "fore"
        BY <2>3, <2>5, <3>1, <3>3 DEF Aft
      <4> QED BY <2>8, <3>1, <4>1 DEF Before
    <3> QED BY <2>5, <3>2, <3>3
  <2>10. LinesInv' BY <1>1, <2>1, <2>9 DEF LinesInv, Ahead
  <2>11. CollectedInv' /\ SharedInv' /\ InHandInv'
    BY <2>1 DEF CollectedInv, SharedInv, InUse, InHandInv, Known, Ahead, Precede
  <2> QED BY <1>2, <2>6, <2>7, <2>10, <2>11
<1> QED BY <1>3, <1>4, <1>5

(* The other thread only clears the shared array or puts answers into it.  *)
LEMMA StreamOfZigbee ==
  ASSUME TypeInv, StreamInv,
         Sending \/ \E d \in Devices : Request(d) \/ DeviceAnswers(d)
  PROVE  StreamInv'
<1> USE DEF StreamInv
<1>1. UNCHANGED <<webline, sent, wpc, wacc, wshared, wperfect, acts>>
  BY DEF Sending, Write, ZigbeeClear, EmptyRead, ZigbeeRead, ZigbeeCheck,
     ZigbeeRecord, Request, DeviceAnswers, lines, web
<1>2. SentOnce' /\ CollectedInv' /\ InHandInv' /\ ActsKnown' /\ ActsInOrder'
  BY <1>1 DEF SentOnce, CollectedInv, InHandInv, ActsKnown, ActsInOrder
<1>3. /\ \A i \in DOMAIN zline' : zline'[i].of \in Devices
      /\ Drawn(Buf_Recv', Buf_Recv)
  <2>1. CASE UNCHANGED <<zline, Buf_Recv>> BY <2>1 DEF LinesInv, Drawn
  <2>2. ASSUME NEW d \in Devices, DeviceAnswers(d)
        PROVE  /\ \A i \in DOMAIN zline' : zline'[i].of \in Devices
               /\ UNCHANGED Buf_Recv
    <3>1. ASSUME NEW s \in Arrivals(d), zline' = zline \o s
          PROVE  \A i \in DOMAIN zline' : zline'[i].of \in Devices
      <4>1. s \in Seq(Part) /\ \A i \in DOMAIN s : s[i].of = d
        BY ArrivalsType DEF Fore, Aft
      <4>2. zline \in Seq(Part) BY DEF TypeInv, SerialTypeOK
      <4>3. ASSUME NEW i \in DOMAIN zline'
            PROVE  \/ i \in DOMAIN zline /\ zline'[i] = zline[i]
                   \/ i - Len(zline) \in DOMAIN s /\ zline'[i] = s[i - Len(zline)]
        BY <3>1, <4>1, <4>2
      <4> QED BY <4>1, <4>3 DEF LinesInv
    <3> QED BY <2>2, <3>1 DEF DeviceAnswers, LinesInv
  <2>3. CASE ZigbeeClear
    <3>1. Buf_Recv' = <<>> /\ UNCHANGED zline BY <2>3 DEF ZigbeeClear, Clear, lines
    <3> QED BY <3>1 DEF LinesInv, Drawn
  <2>4. CASE ZigbeeRead
    <3>1. PICK n \in 1..Len(zline) :
            /\ Buf_Recv' = SubSeq(zline, 1, n)
            /\ zline' = SubSeq(zline, n + 1, Len(zline))
      BY <2>4 DEF ZigbeeRead, Store, Rest
    <3>2. zline \in Seq(Part) BY DEF TypeInv, SerialTypeOK
    <3>3. /\ \A i \in DOMAIN Buf_Recv' : i \in DOMAIN zline /\ Buf_Recv'[i] = zline[i]
          /\ \A i \in DOMAIN zline' : n + i \in DOMAIN zline /\ zline'[i] = zline[n + i]
      BY <3>1, <3>2
    <3> QED BY <3>3, PortsAssumption DEF LinesInv, Drawn
  <2>5. CASE Write \/ EmptyRead \/ ZigbeeCheck \/ ZigbeeRecord \/ \E d \in Devices : Request(d)
    BY <2>1, <2>5 DEF Write, EmptyRead, ZigbeeCheck, ZigbeeRecord, Request, lines
  <2>6. UNCHANGED Buf_Recv => Drawn(Buf_Recv', Buf_Recv) BY DEF Drawn
  <2> QED BY <2>2, <2>3, <2>4, <2>5, <2>6 DEF Sending
<1>4. LinesInv' BY <1>1, <1>3 DEF LinesInv
<1>5. SharedInv'
  <2>1. sent \in Seq(Commands) BY DEF TypeInv, SerialTypeOK
  <2> QED BY <1>1, <1>3, <2>1, DrawnKnown, DrawnAhead, DrawnPrecedes
          DEF SharedInv, InUse
<1> QED BY <1>2, <1>4, <1>5

(* Commands are acted upon in the order they were sent, and none of them   *)
(* twice, however the line cuts, joins and damages frames, and whatever    *)
(* the other thread does to the array both read into.                      *)
THEOREM CommandsInOrder == SerialSpec => []ActsInOrder
<1>1. SerialInit => TypeInv /\ StreamInv BY TypeInitially, StreamInitially
<1>2. ASSUME TypeInv, StreamInv, [SerialNext]_serialVars PROVE (TypeInv /\ StreamInv)'
  <2>1. TypeInv' BY <1>2, TypeStep
  <2>2. CASE UNCHANGED serialVars
    <3>1. UNCHANGED <<zline, webline, sent, Buf_Recv, wpc, wacc, wshared, wperfect, acts>>
      BY <2>2 DEF serialVars, lines, web
    <3>2. LinesInv' BY <1>2, <3>1 DEF StreamInv, LinesInv
    <3>3. CollectedInv' BY <1>2, <3>1 DEF StreamInv, CollectedInv
    <3>4. SharedInv' BY <1>2, <3>1 DEF StreamInv, SharedInv, InUse
    <3>5. InHandInv' BY <1>2, <3>1 DEF StreamInv, InHandInv
    <3>6. SentOnce' /\ ActsKnown' /\ ActsInOrder'
      BY <1>2, <3>1 DEF StreamInv, SentOnce, ActsKnown, ActsInOrder
    <3> QED BY <2>1, <3>2, <3>3, <3>4, <3>5, <3>6 DEF StreamInv
  <2>3. ASSUME NEW f \in Commands, WebSends(f) PROVE StreamInv'
    BY <1>2, <2>3, StreamOfCommand
  <2>4. CASE Web BY <1>2, <2>1, <2>4, StreamOfWeb
  <2>5. CASE Sending \/ \E d \in Devices : Request(d) \/ DeviceAnswers(d)
    BY <1>2, <2>1, <2>5, StreamOfZigbee
  <2> QED BY <1>2, <2>1, <2>2, <2>3, <2>4, <2>5 DEF SerialNext
<1>3. StreamInv => ActsInOrder BY DEF StreamInv
<1> QED BY <1>1, <1>2, <1>3, PTL DEF SerialSpec

-----------------------------------------------------------------------------
(* LogFile *)

Size == Len(log) + Len(buffer)

(* A file that may be reported as empty, and a file that is about to be    *)
(* printed to, has room for one more entry.                                *)
SizeInv ==
  /\ log \in Seq(Nat) /\ buffer \in Seq(Nat)
  /\ calls \in Nat /\ overdue \in Nat
  /\ SizeBounded
  /\ position \in {"closed", "start"} \/ step = "print" => Size < Limit + overdue
  /\ step = "moving" => buffer = <<>>

(* Writing the buffer out does not change the size. *)
LEMMA FlushSize ==
  ASSUME SizeInv
  PROVE  /\ log \o buffer \in Seq(Nat) /\ <<>> \in Seq(Nat)
         /\ Len(<<>>) = 0
         /\ Len(log \o buffer) + Len(<<>>) = Size /\ Size \in Nat
<1>1. /\ log \o buffer \in Seq(Nat) /\ Len(log \o buffer) = Len(log) + Len(buffer)
  BY ConcatProperties DEF SizeInv
<1>2. Len(log) \in Nat /\ Len(buffer) \in Nat BY LenProperties DEF SizeInv
<1>3. <<>> \in Seq(Nat) /\ Len(<<>>) = 0 BY EmptySeq
<1> QED BY <1>1, <1>2, <1>3 DEF Size

LEMMA SizeInit == Init => SizeInv
<1> SUFFICES ASSUME Init PROVE SizeInv OBVIOUS
<1>1. <<>> \in Seq(Nat) /\ Len(<<>>) = 0 BY EmptySeq
<1> QED BY <1>1, LogAssumption DEF Init, SizeInv, SizeBounded, Size

LEMMA SizeStep == SizeInv /\ [Next]_vars => SizeInv'
<1> SUFFICES ASSUME SizeInv, [Next]_vars PROVE SizeInv' OBVIOUS
<1> USE LogAssumption
<1> USE DEF streamVars, callVars
<1>a. Len(log) \in Nat /\ Len(buffer) \in Nat /\ Size \in Nat
  BY FlushSize, LenProperties DEF SizeInv
<1>1. ASSUME NEW t \in Threads, Call(t) \/ Enter(t) PROVE SizeInv'
  BY <1>1 DEF Call, Enter, SizeInv, SizeBounded, Size
<1>2. CASE Open \/ OpenFails \/ Leave
  BY <1>2 DEF Open, OpenFails, Leave, SizeInv, SizeBounded, Size
<1>3. CASE Check
  <2>1. CASE Ftell >= Limit
    <3>1. /\ log' = log \o buffer /\ buffer' = <<>> /\ step' = "moving"
          /\ UNCHANGED <<position, calls, overdue>>
      BY <1>3, <2>1 DEF Check
    <3> QED BY <1>a, <3>1, FlushSize DEF SizeInv, SizeBounded, Size
  <2>2. CASE ~(Ftell >= Limit)
    <3>1. step' = "print" /\ UNCHANGED <<log, buffer, position, calls, overdue>>
      BY <1>3, <2>2 DEF Check
    <3>2. Size < Limit + overdue
      BY <1>a, <2>2 DEF Ftell, SizeInv, Size
    <3> QED BY <3>1, <3>2 DEF SizeInv, SizeBounded, Size
  <2> QED BY <2>1, <2>2
<1>4. CASE Moved
  <2>1. Len(<<>>) = 0 /\ <<>> \in Seq(Nat) BY EmptySeq
  <2> QED BY <1>4, <2>1 DEF Moved, SizeInv, SizeBounded, Size
<1>5. CASE MoveFails
  BY <1>5, <1>a DEF MoveFails, SizeInv, SizeBounded, Size
<1>6. CASE PrintEntry
  <2>1. /\ step = "print" /\ buffer' = Append(buffer, calls)
        /\ position' = "end" /\ step' = "leave"
        /\ UNCHANGED <<log, calls, overdue>>
    BY <1>6 DEF PrintEntry
  <2>2. buffer' \in Seq(Nat) /\ Len(buffer') = Len(buffer) + 1
    BY <2>1, AppendProperties DEF SizeInv
  <2> QED BY <1>a, <2>1, <2>2 DEF SizeInv, SizeBounded, Size
<1>7. CASE Flush
  <2>1. /\ log' = log \o buffer /\ buffer' = <<>>
        /\ UNCHANGED <<step, position, calls, overdue>>
    BY <1>7 DEF Flush
  <2> QED BY <1>a, <2>1, FlushSize DEF SizeInv, SizeBounded, Size
<1>8. CASE Restart
  <2>1. /\ log' = log /\ buffer' = <<>> /\ calls' = calls
        /\ overdue' = overdue + 1 /\ step' = "free"
    BY <1>8 DEF Restart
  <2>2. Len(<<>>) = 0 /\ <<>> \in Seq(Nat) BY EmptySeq
  <2>3. Len(log) < Limit + overdue' BY <1>a, <2>1 DEF SizeInv, SizeBounded, Size
  <2> QED BY <1>a, <2>1, <2>2, <2>3 DEF SizeInv, SizeBounded, Size
<1>9. CASE UNCHANGED vars BY <1>9 DEF vars, SizeInv, SizeBounded, Size
<1> QED BY <1>1, <1>2, <1>3, <1>4, <1>5, <1>6, <1>7, <1>8, <1>9 DEF Next, Owner

(* For every limit and every number of threads: log.txt has at most one    *)
(* entry above the limit for each failing mv and each power cycle since    *)
(* the last rotation (get_fp).                                             *)
THEOREM SizeNearLimit == Spec => []SizeBounded
<1>1. Init => SizeInv BY SizeInit
<1>2. SizeInv /\ [Next]_vars => SizeInv' BY SizeStep
<1>3. SizeInv => SizeBounded BY DEF SizeInv
<1> QED BY <1>1, <1>2, <1>3, PTL DEF Spec

-----------------------------------------------------------------------------
(* The files are whole. *)

Rising(s) == \A i, k \in DOMAIN s : i < k => s[i] < s[k]

(* The entry of the owner has not been printed yet. *)
Pending == step \in {"open", "check", "moving", "print"}

(* A caller that has not got the mutex has a number left for its entry. *)
NumbersLeft ==
  /\ IsFiniteSet(waiting)
  /\ calls + Cardinality(waiting \ {holder}) <= MaxEntries
  /\ step # "free" => calls > 0

(* The newest entry is the last one of Kept, or it is not there yet; a file *)
(* that is about to be moved is not empty and nothing of it is in memory.  *)
KeptInOrder ==
  /\ Rising(Kept)
  /\ \A n \in Range(Kept) : n <= calls /\ (Pending => n < calls)
  /\ step = "moving" => log # <<>> /\ buffer = <<>>

(* An entry that is not kept was lost, waits for the owner, or is older    *)
(* than everything that is kept.                                           *)
Accounted ==
  \A n \in 1..calls :
    \/ n \in Range(Kept) \union lost
    \/ n = calls /\ Pending
    \/ log_old # <<>> /\ \A m \in Range(Kept) : n < m

LogInv == TypeOK /\ NumbersLeft /\ KeptInOrder /\ Accounted

LEMMA RangeAppend ==
  ASSUME NEW s \in Seq(Nat), NEW e \in Nat
  PROVE  Range(Append(s, e)) = Range(s) \union {e}
<1>1. /\ Append(s, e) \in Seq(Nat) /\ Len(Append(s, e)) = Len(s) + 1
      /\ \A i \in 1..Len(s) : Append(s, e)[i] = s[i]
      /\ Append(s, e)[Len(s) + 1] = e
  BY AppendProperties
<1>2. /\ DOMAIN s = 1..Len(s) /\ DOMAIN Append(s, e) = 1..Len(s) + 1 /\ Len(s) \in Nat
  BY <1>1, LenProperties
<1> QED BY <1>1, <1>2 DEF Range

(* What is taken from either end of a rising sequence rises. *)
LEMMA RisingParts ==
  ASSUME NEW s \in Seq(Nat), NEW t \in Seq(Nat), Rising(s \o t)
  PROVE  /\ Rising(s) /\ Rising(t)
         /\ \A m \in Range(s), n \in Range(t) : m < n
<1>1. /\ s \o t \in Seq(Nat) /\ Len(s \o t) = Len(s) + Len(t)
      /\ \A i \in 1..Len(s) + Len(t) :
           (s \o t)[i] = IF i <= Len(s) THEN s[i] ELSE t[i - Len(s)]
  BY ConcatProperties
<1>2. /\ DOMAIN s = 1..Len(s) /\ DOMAIN t = 1..Len(t) /\ DOMAIN (s \o t) = 1..Len(s) + Len(t)
      /\ Len(s) \in Nat /\ Len(t) \in Nat
  BY <1>1, LenProperties
<1>3. \A i \in DOMAIN s : i \in DOMAIN (s \o t) /\ (s \o t)[i] = s[i] BY <1>1, <1>2
<1>4. ASSUME NEW i \in DOMAIN t
      PROVE  i + Len(s) \in DOMAIN (s \o t) /\ (s \o t)[i + Len(s)] = t[i]
  <2>1. (i + Len(s)) - Len(s) = i /\ ~(i + Len(s) <= Len(s)) BY <1>2
  <2> QED BY <1>1, <1>2, <2>1
<1>5. Rising(s) BY <1>3 DEF Rising
<1>6. ASSUME NEW i \in DOMAIN t, NEW k \in DOMAIN t, i < k PROVE t[i] < t[k]
  <2>1. i + Len(s) < k + Len(s) BY <1>2, <1>6
  <2> QED BY <1>4, <2>1 DEF Rising
<1>7. ASSUME NEW i \in DOMAIN s, NEW k \in DOMAIN t PROVE s[i] < t[k]
  <2>1. i < k + Len(s) BY <1>2
  <2> QED BY <1>3, <1>4, <2>1 DEF Rising
<1>8. Rising(t) BY <1>6 DEF Rising
<1>9. \A m \in Range(s), n \in Range(t) : m < n BY <1>7 DEF Range
<1> QED BY <1>5, <1>8, <1>9

LEMMA RisingAppend ==
  ASSUME NEW s \in Seq(Nat), NEW e \in Nat, Rising(s), \A n \in Range(s) : n < e
  PROVE  Rising(Append(s, e))
<1>1. /\ Append(s, e) \in Seq(Nat) /\ Len(Append(s, e)) = Len(s) + 1
      /\ \A i \in 1..Len(s) : Append(s, e)[i] = s[i]
      /\ Append(s, e)[Len(s) + 1] = e
  BY AppendProperties
<1>2. /\ DOMAIN s = 1..Len(s) /\ DOMAIN Append(s, e) = 1..Len(s) + 1 /\ Len(s) \in Nat
  BY <1>1, LenProperties
<1>3. \A i \in DOMAIN s : s[i] < e BY DEF Range
<1>4. ASSUME NEW i \in 1..Len(s) + 1, NEW k \in 1..Len(s) + 1, i < k
      PROVE  Append(s, e)[i] < Append(s, e)[k]
  <2>1. i \in 1..Len(s) BY <1>2, <1>4
  <2>2. CASE k = Len(s) + 1 BY <1>1, <1>2, <1>3, <2>1, <2>2
  <2>3. CASE k \in 1..Len(s) BY <1>1, <1>2, <1>4, <2>1, <2>3 DEF Rising
  <2> QED BY <1>2, <2>2, <2>3
<1> QED BY <1>2, <1>4 DEF Rising

LEMMA Nothing ==
  <<>> \in Seq(1..MaxEntries) /\ Range(<<>>) = {} /\ Rising(<<>>)
<1>1. <<>> \in Seq(1..MaxEntries) /\ Len(<<>>) = 0 BY EmptySeq
<1>2. DOMAIN <<>> = 1..0 BY <1>1, LenProperties
<1>3. DOMAIN <<>> = {} BY <1>2
<1> QED BY <1>1, <1>3 DEF Range, Rising

LEMMA NumbersInSeq ==
  ASSUME NEW s \in Seq(1..MaxEntries)
  PROVE  s \in Seq(Nat)
<1>1. Len(s) \in Nat /\ s \in [1..Len(s) -> 1..MaxEntries] BY LenProperties
<1>2. s \in [1..Len(s) -> Nat] BY <1>1, LogAssumption
<1> QED BY <1>1, <1>2, SeqDef

(* Kept, and what is in each part of it. *)
LEMMA KeptParts ==
  ASSUME TypeOK
  PROVE  /\ Kept \in Seq(1..MaxEntries) /\ Kept \in Seq(Nat)
         /\ log_old \o log \in Seq(1..MaxEntries) /\ log_old \o log \in Seq(Nat)
         /\ Kept = log_old \o (log \o buffer)
         /\ Range(Kept) = Range(log_old) \union Range(log) \union Range(buffer)
         /\ Range(log_old \o log) = Range(log_old) \union Range(log)
<1>1. log_old \o log \in Seq(1..MaxEntries) /\ Kept \in Seq(1..MaxEntries)
  BY ConcatProperties DEF TypeOK, Kept
<1>2. Range(log_old \o log) = Range(log_old) \union Range(log)
  BY RangeConcatenation DEF TypeOK
<1>3. Kept = log_old \o (log \o buffer) BY ConcatAssociative DEF TypeOK, Kept
<1>4. Range(Kept) = Range(log_old \o log) \union Range(buffer)
  <2>1. buffer \in Seq(1..MaxEntries) BY DEF TypeOK
  <2>2. Range((log_old \o log) \o buffer) = Range(log_old \o log) \union Range(buffer)
    BY <1>1, <2>1, RangeConcatenation
  <2> QED BY <2>2 DEF Kept
<1>5. Kept \in Seq(Nat) /\ log_old \o log \in Seq(Nat) BY <1>1, NumbersInSeq
<1> QED BY <1>1, <1>2, <1>3, <1>4, <1>5

(* Writing the buffer out moves entries from the memory to the disk. *)
LEMMA KeptFlush ==
  ASSUME TypeOK, log' = log \o buffer, buffer' = <<>>, log_old' = log_old
  PROVE  Kept' = Kept /\ log' \in Seq(1..MaxEntries) /\ buffer' \in Seq(1..MaxEntries)
<1>1. log' \in Seq(1..MaxEntries) BY ConcatProperties DEF TypeOK
<1>2. log_old \o log' = Kept BY KeptParts
<1>3. Kept' = (log_old \o log') \o <<>> BY DEF Kept
<1>4. (log_old \o log') \o <<>> = log_old \o log'
  BY <1>2, KeptParts, ConcatEmptySeq
<1> QED BY <1>1, <1>2, <1>3, <1>4, Nothing

(* A step that leaves the entries and the number of the newest alone. *)
LEMMA KeptUnchanged ==
  ASSUME TypeOK, KeptInOrder, Accounted, Kept' = Kept, calls' = calls, log_old' = log_old,
         lost \subseteq lost', Pending' => Pending,
         Pending /\ ~Pending' => calls \in lost',
         step' = "moving" => log' # <<>> /\ buffer' = <<>>
  PROVE  KeptInOrder' /\ Accounted'
<1>1. KeptInOrder' BY DEF KeptInOrder
<1>2. Accounted' BY DEF Accounted
<1> QED BY <1>1, <1>2

LEMMA LogInit == Init => LogInv
<1> SUFFICES ASSUME Init PROVE LogInv OBVIOUS
<1> USE DEF Init
<1>1. TypeOK BY Nothing, LogAssumption DEF TypeOK
<1>2. Kept = <<>>
  <2>1. <<>> \o <<>> = <<>> BY Nothing, ConcatEmptySeq
  <2> QED BY <2>1 DEF Kept
<1>3. NumbersLeft BY FS_EmptySet, LogAssumption DEF NumbersLeft
<1>4. KeptInOrder BY <1>2, Nothing DEF KeptInOrder
<1>5. Accounted BY DEF Accounted
<1> QED BY <1>1, <1>3, <1>4, <1>5 DEF LogInv

(* A thread that calls is counted, one that gets the mutex takes a number. *)
LEMMA CallStep ==
  ASSUME LogInv, NEW t \in Threads, Call(t)
  PROVE  LogInv'
<1> USE DEF LogInv, Call, streamVars
<1>1. /\ IsFiniteSet(waiting') /\ Cardinality(waiting') = Cardinality(waiting) + 1
      /\ Cardinality(waiting) \in Nat
  BY FS_AddElement, FS_CardinalityType DEF NumbersLeft
<1>2. /\ IsFiniteSet(waiting' \ {holder})
      /\ Cardinality(waiting' \ {holder}) <= Cardinality(waiting')
      /\ Cardinality(waiting' \ {holder}) \in Nat
  BY <1>1, FS_Subset, FS_CardinalityType
<1>3. TypeOK' BY DEF TypeOK
<1>4. NumbersLeft' BY <1>1, <1>2, LogAssumption DEF NumbersLeft, TypeOK
<1>5. KeptInOrder' /\ Accounted'
  BY KeptUnchanged DEF Kept, Pending, KeptInOrder
<1> QED BY <1>3, <1>4, <1>5

LEMMA EnterStep ==
  ASSUME LogInv, NEW t \in Threads, Enter(t)
  PROVE  LogInv'
<1> USE DEF LogInv, Enter, streamVars
<1>0. calls \in Nat /\ MaxEntries \in Nat /\ holder \notin waiting
  BY LogAssumption DEF TypeOK
<1>1. /\ IsFiniteSet(waiting \ {t}) /\ Cardinality(waiting \ {t}) = Cardinality(waiting) - 1
      /\ Cardinality(waiting \ {t}) \in Nat /\ Cardinality(waiting) \in Nat
  BY FS_RemoveElement, FS_CardinalityType DEF NumbersLeft
<1>2. waiting \ {holder} = waiting BY <1>0
<1>3. calls' + Cardinality(waiting' \ {holder'}) <= MaxEntries /\ calls' \in 1..MaxEntries
  <2>1. waiting' \ {holder'} = waiting \ {t} /\ calls' = calls + 1 OBVIOUS
  <2>2. calls + Cardinality(waiting) <= MaxEntries BY <1>2 DEF NumbersLeft
  <2> QED BY ONLY <1>0, <1>1, <2>1, <2>2
<1>4. TypeOK' BY <1>3, LogAssumption DEF TypeOK
<1>5. NumbersLeft' BY <1>3 DEF NumbersLeft
<1>6. Kept' = Kept BY DEF Kept
<1>7. ~Pending /\ Pending' BY DEF Pending, TypeOK
<1>8. \A n \in Range(Kept) : n \in Nat
  BY KeptParts, LenProperties DEF Range
<1>9. KeptInOrder' BY <1>0, <1>6, <1>7, <1>8 DEF KeptInOrder
<1>10. Accounted' BY <1>0, <1>6, <1>7 DEF Accounted
<1> QED BY <1>4, <1>5, <1>9, <1>10

LEMMA OpenStep ==
  ASSUME LogInv, Open \/ OpenFails
  PROVE  LogInv'
<1> USE DEF LogInv, Open, OpenFails, streamVars
<1>1. calls \in 1..MaxEntries BY LogAssumption DEF NumbersLeft, TypeOK
<1>2. TypeOK' BY <1>1, LogAssumption DEF TypeOK
<1>3. NumbersLeft' BY DEF NumbersLeft
<1>4. KeptInOrder' /\ Accounted' BY KeptUnchanged DEF Kept, Pending
<1> QED BY <1>2, <1>3, <1>4

LEMMA CheckStep ==
  ASSUME LogInv, Check
  PROVE  LogInv'
<1> USE DEF LogInv
<1>1. NumbersLeft' BY DEF Check, NumbersLeft
<1>2. CASE Ftell >= Limit
  <2>1. /\ step = "check" /\ log' = log \o buffer /\ buffer' = <<>> /\ step' = "moving"
        /\ UNCHANGED <<log_old, position, waiting, holder, calls, lost, overdue>>
    BY <1>2 DEF Check
  <2>2. TypeOK' BY <2>1, KeptFlush DEF TypeOK
  <2>3. log' # <<>>
    <3>1. Len(log) + Len(buffer) > 0 BY <1>2, LogAssumption DEF Ftell
    <3>2. Len(log') = Len(log) + Len(buffer) BY <2>1, ConcatProperties DEF TypeOK
    <3> QED BY <3>1, <3>2, EmptySeq
  <2>4. KeptInOrder' /\ Accounted'
    BY <2>1, <2>3, KeptFlush, KeptUnchanged DEF Pending
  <2> QED BY <1>1, <2>2, <2>4
<1>3. CASE ~(Ftell >= Limit)
  <2>1. /\ step = "check" /\ step' = "print" /\ UNCHANGED <<log, buffer>>
        /\ UNCHANGED <<log_old, position, waiting, holder, calls, lost, overdue>>
    BY <1>3 DEF Check
  <2>2. TypeOK' BY <2>1 DEF TypeOK
  <2>3. KeptInOrder' /\ Accounted' BY <2>1, KeptUnchanged DEF Kept, Pending
  <2> QED BY <1>1, <2>2, <2>3
<1> QED BY <1>2, <1>3

(* What the move drops is the oldest of what was kept. *)
LEMMA MovedStep ==
  ASSUME LogInv, Moved
  PROVE  LogInv'
<1>0. /\ step = "moving" /\ log_old' = log /\ log' = <<>> /\ buffer = <<>> /\ buffer' = <<>>
      /\ log # <<>> /\ position' = "closed" /\ step' = "open" /\ overdue' = 0
      /\ UNCHANGED <<waiting, holder, calls, lost>>
  BY DEF LogInv, Moved, KeptInOrder
<1> USE DEF LogInv
<1>1. TypeOK' BY <1>0, Nothing, LogAssumption DEF TypeOK
<1>2. NumbersLeft' BY <1>0 DEF NumbersLeft
<1>3. log \in Seq(1..MaxEntries) /\ log_old \in Seq(1..MaxEntries) BY DEF TypeOK
<1>4. Kept = log_old \o log
  <2>1. (log_old \o log) \o <<>> = log_old \o log BY KeptParts, ConcatEmptySeq
  <2> QED BY <1>0, <2>1 DEF Kept
<1>5. Kept' = log
  <2>1. log \o <<>> = log BY <1>3, ConcatEmptySeq
  <2> QED BY <1>0, <2>1 DEF Kept
<1>6. /\ Rising(log) /\ Range(log) \subseteq Range(Kept)
      /\ \A m \in Range(log_old), n \in Range(log) : m < n
  BY <1>3, <1>4, KeptParts, RisingParts, NumbersInSeq DEF KeptInOrder
<1>7. KeptInOrder' BY <1>0, <1>5, <1>6 DEF KeptInOrder, Pending
<1>8. ASSUME NEW n \in 1..calls
      PROVE  \/ n \in Range(log) \union lost
             \/ n = calls /\ Pending
             \/ \A m \in Range(log) : n < m
  <2>1. \/ n \in Range(log_old) \union Range(log) \union lost
        \/ n = calls /\ Pending
        \/ \A m \in Range(Kept) : n < m
    <3>1. Range(Kept) = Range(log_old) \union Range(log) BY <1>4, KeptParts
    <3>2. \/ n \in Range(Kept) \union lost
          \/ n = calls /\ Pending
          \/ \A m \in Range(Kept) : n < m
      BY DEF Accounted
    <3> QED BY <3>1, <3>2
  <2>2. Range(log) \subseteq Range(Kept) BY <1>6
  <2>3. CASE n \in Range(log_old) BY <1>6, <2>3
  <2> QED BY <2>1, <2>2, <2>3
<1>9. Accounted' BY <1>0, <1>5, <1>8 DEF Accounted, Pending
<1> QED BY <1>1, <1>2, <1>7, <1>9

LEMMA MoveFailsStep ==
  ASSUME LogInv, MoveFails
  PROVE  LogInv'
<1> USE DEF LogInv, MoveFails
<1>1. TypeOK' BY LogAssumption DEF TypeOK
<1>2. NumbersLeft' BY DEF NumbersLeft
<1>3. KeptInOrder' /\ Accounted' BY KeptUnchanged DEF Kept, Pending
<1> QED BY <1>1, <1>2, <1>3

(* The entry of the owner is newer than everything that is kept. *)
LEMMA PrintStep ==
  ASSUME LogInv, PrintEntry
  PROVE  LogInv'
<1>0. /\ step = "print" /\ buffer' = Append(buffer, calls) /\ position' = "end"
      /\ step' = "leave" /\ UNCHANGED <<log, log_old, waiting, holder, calls, lost, overdue>>
  BY DEF PrintEntry
<1> USE DEF LogInv
<1>1. calls \in 1..MaxEntries /\ calls \in Nat
  BY <1>0, LogAssumption DEF NumbersLeft, TypeOK
<1>2. buffer' \in Seq(1..MaxEntries) BY <1>0, <1>1, AppendProperties DEF TypeOK
<1>3. TypeOK' BY <1>0, <1>2 DEF TypeOK
<1>4. NumbersLeft' BY <1>0 DEF NumbersLeft
<1>5. Kept' = Append(Kept, calls)
  <2>1. buffer \in Seq(1..MaxEntries) /\ log_old \o log \in Seq(1..MaxEntries)
    BY KeptParts DEF TypeOK
  <2>2. (log_old \o log) \o Append(buffer, calls) = Append((log_old \o log) \o buffer, calls)
    <3>1. Append(buffer, calls) = buffer \o <<calls>> BY <1>1, <2>1, AppendIsConcat
    <3>2. Append((log_old \o log) \o buffer, calls) = ((log_old \o log) \o buffer) \o <<calls>>
      BY <1>1, KeptParts, AppendIsConcat DEF Kept
    <3>3. <<calls>> \in Seq(1..MaxEntries) BY <1>1
    <3> QED BY <2>1, <3>1, <3>2, <3>3, ConcatAssociative
  <2> QED BY <1>0, <2>2 DEF Kept
<1>6. Range(Kept') = Range(Kept) \union {calls}
  <2>1. Range(Append(Kept, calls)) = Range(Kept) \union {calls}
    <3>1. Kept \in Seq(Nat) BY KeptParts
    <3> QED BY <1>1, <3>1, RangeAppend
  <2> QED BY <1>5, <2>1
<1>7. Rising(Kept')
  <2>1. \A n \in Range(Kept) : n < calls BY <1>0 DEF KeptInOrder, Pending
  <2> QED BY <1>1, <1>5, <2>1, KeptParts, RisingAppend DEF KeptInOrder
<1>8. KeptInOrder' BY <1>0, <1>1, <1>6, <1>7 DEF KeptInOrder, Pending
<1>9. Accounted'
  <2>1. ASSUME NEW n \in 1..calls
        PROVE  \/ n \in Range(Kept') \union lost
               \/ log_old # <<>> /\ \A m \in Range(Kept') : n < m
    <3>1. CASE n = calls BY <1>6, <3>1
    <3>2. CASE n # calls
      <4>1. n < calls BY <1>1, <3>2
      <4> QED BY <1>6, <3>2, <4>1 DEF Accounted
    <3> QED BY <3>1, <3>2
  <2> QED BY <1>0, <2>1 DEF Accounted
<1> QED BY <1>3, <1>4, <1>8, <1>9

LEMMA LeaveStep ==
  ASSUME LogInv, Leave
  PROVE  LogInv'
<1> USE DEF LogInv, Leave, streamVars
<1>1. TypeOK' BY DEF TypeOK
<1>2. waiting' \ {holder'} = waiting \ {holder} BY LogAssumption DEF TypeOK
<1>3. IsFiniteSet(waiting') BY FS_Subset DEF NumbersLeft
<1>4. NumbersLeft' BY <1>2, <1>3 DEF NumbersLeft
<1>5. KeptInOrder' /\ Accounted' BY KeptUnchanged DEF Kept, Pending
<1> QED BY <1>1, <1>4, <1>5

LEMMA FlushStep ==
  ASSUME LogInv, Flush
  PROVE  LogInv'
<1>0. /\ buffer # <<>> /\ log' = log \o buffer /\ buffer' = <<>>
      /\ UNCHANGED <<log_old, position, waiting, holder, step, calls, lost, overdue>>
  BY DEF Flush, callVars
<1> USE DEF LogInv
<1>1. TypeOK' BY <1>0, KeptFlush DEF TypeOK
<1>2. NumbersLeft' BY <1>0 DEF NumbersLeft
<1>3. KeptInOrder' /\ Accounted'
  BY <1>0, KeptFlush, KeptUnchanged DEF Pending, KeptInOrder
<1> QED BY <1>1, <1>2, <1>3

(* The power takes the newest of what was kept, and the entry of the owner. *)
LEMMA RestartStep ==
  ASSUME LogInv, Restart
  PROVE  LogInv'
<1>0. /\ overdue' = overdue + 1 /\ overdue < MaxOverdue
      /\ lost' = lost \union Range(buffer) \union (IF Pending THEN {calls} ELSE {})
      /\ buffer' = <<>> /\ position' = "closed"
      /\ waiting' = {} /\ holder' = "none" /\ step' = "free"
      /\ UNCHANGED <<log, log_old, calls>>
  BY DEF Restart, Pending
<1> USE DEF LogInv
<1>1. Range(buffer) \subseteq 1..MaxEntries
  <2>1. buffer \in Seq(1..MaxEntries) BY DEF TypeOK
  <2>2. \A i \in DOMAIN buffer : buffer[i] \in 1..MaxEntries
    BY <2>1, LenProperties
  <2> QED BY <2>2 DEF Range
<1>2. Pending => calls \in 1..MaxEntries
  BY LogAssumption DEF Pending, NumbersLeft, TypeOK
<1>3. TypeOK'
  <2>1. lost' \in SUBSET (1..MaxEntries) BY <1>0, <1>1, <1>2 DEF TypeOK
  <2>2. overdue' \in 0..MaxOverdue BY <1>0, LogAssumption DEF TypeOK
  <2> QED BY <1>0, <2>1, <2>2, Nothing DEF TypeOK
<1>4. NumbersLeft'
  <2>1. {} \ {"none"} = {} OBVIOUS
  <2> QED BY <1>0, <2>1, FS_EmptySet, LogAssumption DEF NumbersLeft, TypeOK
<1>5. Kept' = log_old \o log
  <2>1. (log_old \o log) \o <<>> = log_old \o log BY KeptParts, ConcatEmptySeq
  <2> QED BY <1>0, <2>1 DEF Kept
<1>6. /\ Rising(log_old \o log) /\ Range(log_old \o log) \subseteq Range(Kept)
      /\ Range(Kept) = Range(log_old \o log) \union Range(buffer)
  <2>1. Rising((log_old \o log) \o buffer) BY DEF KeptInOrder, Kept
  <2>2. buffer \in Seq(Nat) BY NumbersInSeq DEF TypeOK
  <2> QED BY <2>1, <2>2, KeptParts, RisingParts
<1>7. KeptInOrder' BY <1>0, <1>5, <1>6 DEF KeptInOrder, Pending
<1>8. Accounted' BY <1>0, <1>5, <1>6 DEF Accounted, Pending
<1> QED BY <1>3, <1>4, <1>7, <1>8

LEMMA LogStep == LogInv /\ [Next]_vars => LogInv'
<1> SUFFICES ASSUME LogInv, [Next]_vars PROVE LogInv' OBVIOUS
<1>1. CASE UNCHANGED vars
  <2> USE <1>1 DEF vars, streamVars, callVars, LogInv
  <2>1. TypeOK' BY DEF TypeOK
  <2>2. NumbersLeft' BY DEF NumbersLeft
  <2>3. KeptInOrder' /\ Accounted' BY KeptUnchanged DEF Kept, Pending, KeptInOrder
  <2> QED BY <2>1, <2>2, <2>3
<1>2. CASE Next
  BY <1>2, CallStep, EnterStep, OpenStep, CheckStep, MovedStep, MoveFailsStep,
     PrintStep, LeaveStep, FlushStep, RestartStep
  DEF Next, Owner
<1> QED BY <1>1, <1>2

LEMMA LogInvSound == LogInv => LogSound
<1> SUFFICES ASSUME LogInv PROVE LogSound OBVIOUS
<1> USE DEF LogInv
<1>1. ASSUME NEW n \in 1..calls, Pending PROVE step # "free" BY <1>1 DEF Pending
<1>2. ASSUME NEW n \in Nat, \A m \in Range(Kept) : n < m
      PROVE  \A i \in DOMAIN Kept : n < Kept[i]
  BY <1>2 DEF Range
<1>3. LogWhole BY <1>1, <1>2 DEF LogWhole, KeptInOrder, Rising, Accounted
<1> QED BY <1>3 DEF LogSound

(* For every number of threads, every limit and every bound: whatever      *)
(* rotations, failing moves and power cycles there were, log-old.txt and   *)
(* log.txt are the last entries in the order of the calls, and what is     *)
(* missing was never lost to a rotation (get_fp, xh_log).                  *)
THEOREM LogIsSound == Spec => []LogSound
<1>1. Init => LogInv BY LogInit
<1>2. LogInv /\ [Next]_vars => LogInv' BY LogStep
<1>3. LogInv => LogSound BY LogInvSound
<1> QED BY <1>1, <1>2, <1>3, PTL DEF Spec

-----------------------------------------------------------------------------
(* Launcher *)


Unpacked == pc \in {"shelve", "install"} => org = normal /\ org # None /\ org.whole
RetTells ==
  /\ pc = "install" /\ ret => system = None
  /\ pc = "reboot" /\ ret => system = normal
Copied == pc \in {"backup"} => card # None
CopyHeld == pc \in {"remove", "extract"} => normal # None

UpdateInv ==
  /\ LauncherTypeOK
  /\ Copied /\ CopyHeld /\ Unpacked /\ RetTells
  /\ NeverPartial /\ SystemPresent

LEMMA UpdateInit == LauncherInit => UpdateInv
<1> SUFFICES ASSUME LauncherInit PROVE UpdateInv OBVIOUS
<1> USE UpdatesAssumption, NoneAssumption
<1>1. 0 \in 0..MaxUpdates /\ 0 \in 0..MaxFaults /\ 0 \in 0..MaxCrashes
  OBVIOUS
<1>2. [ver |-> 0, whole |-> TRUE] \in Firmware BY <1>1 DEF Firmware
<1>3. LauncherTypeOK BY <1>1, <1>2 DEF LauncherInit, LauncherTypeOK, Places
<1>4. Copied /\ CopyHeld /\ Unpacked /\ RetTells
  BY DEF LauncherInit, Copied, CopyHeld, Unpacked, RetTells
<1>5. NeverPartial /\ SystemPresent
  BY <1>2 DEF LauncherInit, NeverPartial, SystemPresent
<1> QED BY <1>3, <1>4, <1>5 DEF UpdateInv

(* A part of an archive is of the version of the archive. *)
LEMMA CutType == ASSUME NEW f \in Firmware PROVE Cut(f) \in Firmware
  BY DEF Cut, Firmware

LEMMA UpdateStep == UpdateInv /\ [LauncherNext]_launcherVars => UpdateInv'
<1> SUFFICES ASSUME UpdateInv, [LauncherNext]_launcherVars PROVE UpdateInv' OBVIOUS
<1> USE UpdatesAssumption, NoneAssumption
<1> USE DEF files, Fault, NoFault, Places
<1> DEFINE Held == /\ Copied' /\ CopyHeld' /\ Unpacked' /\ RetTells'
                   /\ NeverPartial' /\ SystemPresent'
<1>1. CASE PutArchive
  <2>1. ASSUME NEW w \in BOOLEAN
        PROVE  [ver |-> updates + 1, whole |-> w] \in Firmware
    BY <1>1 DEF PutArchive, UpdateInv, LauncherTypeOK, Firmware
  <2>2. LauncherTypeOK' BY <1>1, <2>1 DEF PutArchive, UpdateInv, LauncherTypeOK
  <2>3. Held
    BY <1>1 DEF PutArchive, UpdateInv, Copied, CopyHeld, Unpacked, RetTells,
                NeverPartial, SystemPresent, Quiet
  <2> QED BY <2>2, <2>3 DEF UpdateInv
<1>2. CASE FindUpdate
  BY <1>2 DEF FindUpdate, UpdateInv, LauncherTypeOK, Copied, CopyHeld, Unpacked,
              RetTells, NeverPartial, SystemPresent, Quiet
<1>3. CASE Backup
  <2>1. card \in Firmware /\ Cut(card) \in Firmware
    BY <1>3, CutType DEF Backup, UpdateInv, LauncherTypeOK, Copied
  <2>2. LauncherTypeOK' BY <1>3, <2>1 DEF Backup, UpdateInv, LauncherTypeOK
  <2>3. Held
    BY <1>3, <2>1 DEF Backup, UpdateInv, LauncherTypeOK, Copied, CopyHeld, Unpacked,
                      RetTells, NeverPartial, SystemPresent, Quiet
  <2> QED BY <2>2, <2>3 DEF UpdateInv
<1>4. CASE RemoveArchive
  BY <1>4 DEF RemoveArchive, UpdateInv, LauncherTypeOK, Copied, CopyHeld, Unpacked, RetTells,
              NeverPartial, SystemPresent, Quiet
<1>5. CASE Extract
  <2>1. normal \in Firmware /\ Cut(normal) \in Firmware
    BY <1>5, CutType DEF Extract, UpdateInv, LauncherTypeOK, CopyHeld
  <2>2. LauncherTypeOK' BY <1>5, <2>1 DEF Extract, UpdateInv, LauncherTypeOK
  <2>3. Held
    BY <1>5, <2>1 DEF Extract, UpdateInv, LauncherTypeOK, Copied, CopyHeld, Unpacked,
                      RetTells, NeverPartial, SystemPresent, Quiet
  <2> QED BY <2>2, <2>3 DEF UpdateInv
<1>6. CASE Shelve
  <2>1. /\ pc = "shelve" /\ pc' = "install"
        /\ UNCHANGED <<card, normal, org, running, updates, crashes>>
        /\ \/ system' = None
           \/ system' = system /\ (ret' = FALSE \/ (system = None /\ ret' = ret))
    BY <1>6 DEF Shelve, Shelved
  <2>a. /\ old' \in {old, "plain", "nested"} /\ inner' \in {inner, FALSE}
        /\ ret' \in {ret, FALSE}
        /\ faults' = faults \/ (faults' = faults + 1 /\ faults < MaxFaults)
    BY <1>6 DEF Shelve, Shelved
  <2>b. faults' \in 0..MaxFaults BY <2>a DEF UpdateInv, LauncherTypeOK
  <2>2. LauncherTypeOK' BY <2>1, <2>a, <2>b DEF UpdateInv, LauncherTypeOK
  <2>3. Copied' /\ CopyHeld' /\ Unpacked' /\ RetTells'
    BY <2>1, <2>2 DEF UpdateInv, LauncherTypeOK, Copied, CopyHeld, Unpacked, RetTells
  <2>4. NeverPartial' /\ SystemPresent'
    BY <2>1 DEF UpdateInv, NeverPartial, SystemPresent
  <2> QED BY <2>2, <2>3, <2>4 DEF UpdateInv
<1>7. CASE Install
  <2>1. /\ pc = "install"
        /\ UNCHANGED <<card, normal, old, running, updates, crashes>>
        /\ \/ /\ system = None /\ system' = org /\ org' = None
              /\ pc' = "reboot" /\ faults' = faults
              /\ UNCHANGED <<inner, ret>>
           \/ /\ system # None /\ system' = system /\ org' = None
              /\ pc' = "reboot" /\ faults' = faults /\ inner' = TRUE
              /\ UNCHANGED ret
           \/ /\ system # None \/ faults' = faults + 1
              /\ faults' = faults \/ (faults' = faults + 1 /\ faults < MaxFaults)
              /\ pc' = "idle" /\ ret' = TRUE
              /\ UNCHANGED <<system, org, inner>>
    BY <1>7 DEF Install
  <2>a. faults' \in 0..MaxFaults BY <2>1 DEF UpdateInv, LauncherTypeOK
  <2>b. ret' \in BOOLEAN /\ inner' \in BOOLEAN /\ pc' \in Places
    BY <2>1 DEF UpdateInv, LauncherTypeOK
  <2>c. system' \in Firmware \union {None} /\ org' \in Firmware \union {None}
    BY <2>1 DEF UpdateInv, LauncherTypeOK
  <2>2. LauncherTypeOK' BY <2>1, <2>a, <2>b, <2>c DEF UpdateInv, LauncherTypeOK
  <2>3. Copied' /\ CopyHeld' /\ Unpacked' BY <2>1 DEF Copied, CopyHeld, Unpacked
  <2>4. RetTells' BY <2>1 DEF UpdateInv, Unpacked, RetTells
  <2>5. NeverPartial' BY <2>1 DEF UpdateInv, Unpacked, NeverPartial
  <2>6. faults' = faults + 1 => ~Quiet'
    BY DEF UpdateInv, LauncherTypeOK, Quiet
  <2>7. SystemPresent'
    BY <2>1, <2>6 DEF UpdateInv, Unpacked, SystemPresent
  <2> QED BY <2>2, <2>3, <2>4, <2>5, <2>7 DEF UpdateInv
<1>8. CASE Reboot \/ Boot
  BY <1>8 DEF Reboot, Boot, UpdateInv, LauncherTypeOK, Copied, CopyHeld, Unpacked,
              RetTells, NeverPartial, SystemPresent, Quiet
<1>9. CASE Crash
  <2>1. pc = "backup" => Cut(card) \in Firmware
    BY CutType DEF UpdateInv, LauncherTypeOK, Copied
  <2>2. pc = "extract" => Cut(normal) \in Firmware
    BY CutType DEF UpdateInv, LauncherTypeOK, CopyHeld
  <2>3. LauncherTypeOK' BY <1>9, <2>1, <2>2 DEF Crash, UpdateInv, LauncherTypeOK
  <2>4. Held
    BY <1>9 DEF Crash, UpdateInv, LauncherTypeOK, Copied, CopyHeld, Unpacked, RetTells,
                NeverPartial, SystemPresent, Quiet
  <2> QED BY <2>3, <2>4 DEF UpdateInv
<1>10. CASE UNCHANGED launcherVars
  BY <1>10 DEF launcherVars, UpdateInv, LauncherTypeOK, Copied, CopyHeld, Unpacked, RetTells,
               NeverPartial, SystemPresent, Quiet
<1> QED BY <1>1, <1>2, <1>3, <1>4, <1>5, <1>6, <1>7, <1>8, <1>9, <1>10
        DEF LauncherNext, Update

(* For any number of updates, failing commands and power cuts, what is in  *)
(* the place of the system is never half unpacked                          *)
(* (launcher_decompress_update_fw, launcher_replace_system).               *)
THEOREM SystemWhole == LauncherSpec => []NeverPartial
<1>1. LauncherInit => UpdateInv BY UpdateInit
<1>2. UpdateInv /\ [LauncherNext]_launcherVars => UpdateInv' BY UpdateStep
<1>3. UpdateInv => NeverPartial BY DEF UpdateInv
<1> QED BY <1>1, <1>2, <1>3, PTL DEF LauncherSpec

(* As long as no command fails and the power stays on, the place of the    *)
(* system is empty only between the two moves (launcher_replace_system).   *)
THEOREM SystemStays == LauncherSpec => []SystemPresent
<1>1. LauncherInit => UpdateInv BY UpdateInit
<1>2. UpdateInv /\ [LauncherNext]_launcherVars => UpdateInv' BY UpdateStep
<1>3. UpdateInv => SystemPresent BY DEF UpdateInv
<1> QED BY <1>1, <1>2, <1>3, PTL DEF LauncherSpec

(* The gateway reboots only into what it has just unpacked, whichever of   *)
(* the moves have failed (function_for_launcher).                          *)
THEOREM RebootsInto == LauncherSpec => RebootsIntoUpdate
<1> DEFINE P == (pc = "reboot" /\ pc' = "down" /\ crashes' = crashes)
                  => system = normal
<1>1. LauncherInit => UpdateInv BY UpdateInit
<1>2. UpdateInv /\ [LauncherNext]_launcherVars => UpdateInv' BY UpdateStep
<1>3. ASSUME UpdateInv, [LauncherNext]_launcherVars PROVE [P]_launcherVars
  <2> SUFFICES ASSUME LauncherNext, pc = "reboot", pc' = "down", crashes' = crashes
               PROVE  system = normal
    BY <1>3
  <2>1. crashes \in Nat BY <1>3, UpdatesAssumption DEF UpdateInv, LauncherTypeOK
  <2>2. ~Crash BY <2>1 DEF Crash
  <2>3. Reboot
    BY <2>2 DEF LauncherNext, Update, PutArchive, FindUpdate, Backup, RemoveArchive, Extract,
                Shelve, Install, Boot
  <2> QED BY <1>3, <2>3 DEF Reboot, UpdateInv, RetTells
<1>4. LauncherSpec => [][P]_launcherVars BY <1>1, <1>2, <1>3, PTL DEF LauncherSpec
<1> QED BY <1>4 DEF RebootsIntoUpdate

(* Whatever fails and whenever the power goes, the directories hold        *)
(* firmware of the versions there are, and what was booted is a firmware:  *)
(* a copy is never made of an archive that is gone, and nothing is unpacked *)
(* from a copy that was not made (function_for_launcher).                  *)
THEOREM LauncherTypeCorrect == LauncherSpec => []LauncherTypeOK
<1>1. LauncherInit => UpdateInv BY UpdateInit
<1>2. UpdateInv /\ [LauncherNext]_launcherVars => UpdateInv' BY UpdateStep
<1>3. UpdateInv => LauncherTypeOK BY DEF UpdateInv
<1> QED BY <1>1, <1>2, <1>3, PTL DEF LauncherSpec
=============================================================================
