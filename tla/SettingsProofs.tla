---------------------------- MODULE SettingsProofs ----------------------------
(***************************************************************************)
(* Settings keeps its promises, for every set of collectors, every         *)
(* threshold and version, every number of commands and power cycles.       *)
(*                                                                         *)
(* What the web was last told is in memory and in the file between two     *)
(* commands only, and the answer to the command under way is still to      *)
(* come, so the properties are not inductive.  SettingsInv says what holds *)
(* in between: which thresholds CMD_SET_MENXIAN may have left where, that  *)
(* a truncated file will be printed, and that the answer that is still to  *)
(* come will be right.                                                     *)
(***************************************************************************)
EXTENDS Settings, SequenceTheorems, TLAPS

(* Lists of steps: what is truncated is printed next, the answer is last.  *)
Steps == {"truncate", "print", "share", "reply"}
In(s, q) == \E i \in DOMAIN q : q[i] = s
Plan(q) ==
  /\ q \in Seq(Steps)
  /\ \A i \in DOMAIN q :
       q[i] = "truncate" => i + 1 \in DOMAIN q /\ q[i + 1] = "print"
  /\ \A i \in DOMAIN q : q[i] = "reply" <=> i = Len(q)

(* Of a tree: collector c has the thresholds of revision l. *)
LimitsAre(tree, c, l) ==
  \E k \in DOMAIN tree.collector :
    tree.collector[k].a2 = c /\ tree.collector[k].limits = l

(* CMD_SET_MENXIAN is under way for collector c: its thresholds are those  *)
(* of this command already, or still those that were promised.             *)
Setting(c) == request.cmd = "setmenxian" /\ todo # <<>> /\ request.item = c

Keeps(tree) ==
  /\ promise["ver"] # Unset => VersionBytes(tree.ver) = promise["ver"]
  /\ promise["address"] # Unset => tree.address = promise["address"]
  /\ \A c \in Collectors : promise[c] # Unset =>
       \/ LimitsAre(tree, c, promise[c][1])
       \/ Setting(c) /\ LimitsAre(tree, c, request.rev)

(* What the answer to a command that sets will promise is in memory. *)
Owed ==
  /\ request.cmd = "setver" /\ Promised(request) # Unset =>
       /\ request.item = "ver" /\ request.value \in Nat \X Nat
       /\ VersionBytes(jsonroot.ver) = request.value
  /\ request.cmd = "setaddress" =>
       /\ request.item = "address" /\ request.value \in Nat \X Nat
       /\ jsonroot.address = request.value
  /\ request.cmd = "setmenxian" /\ request.item \in Items =>
       /\ request.item \in Collectors /\ request.value \in Nat \X Nat
       /\ request.value[1] = request.rev
       /\ LimitsAre(jsonroot, request.item, request.rev)

(* What the answer to a command that reads will carry is what is promised. *)
Told ==
  (request.cmd \in Readers /\ request.item \in Items
     /\ promise[request.item] # Unset) =>
    IF request.cmd = "getmenxian"
    THEN request.value[1] = promise[request.item][1]
    ELSE request.value = promise[request.item]

SettingsInv ==
  /\ TypeOK /\ promise \in [Items -> (Nat \X Nat) \union {Unset}]
  /\ Keeps(jsonroot)
  /\ config # Torn => Sound(config) /\ Keeps(config)
  /\ Plan(todo)
  /\ alive /\ ~In("print", todo) => config = jsonroot
  /\ todo # <<>> => Owed /\ Told

-----------------------------------------------------------------------------
(* Arrays. *)

(* With unique ids a search finds the one entry. *)
LEMMA AtIs ==
  ASSUME NEW q, Unique(q), NEW c \in Ids(q)
  PROVE  /\ At(q, c) \in DOMAIN q /\ q[At(q, c)].a2 = c
         /\ \A k \in DOMAIN q : q[k].a2 = c => k = At(q, c)
<1>1. PICK i \in DOMAIN q : q[i].a2 = c BY DEF Ids
<1> DEFINE Match(k) == q[k].a2 = c
<1>2. Match(i) BY <1>1
<1>3. At(q, c) = CHOOSE k \in DOMAIN q : Match(k) BY DEF At
<1> HIDE DEF Match
<1>4. At(q, c) \in DOMAIN q /\ Match(At(q, c)) BY <1>2, <1>3
<1> QED BY <1>4 DEF Match, Unique

LEMMA FindIs ==
  ASSUME NEW tree, Unique(tree.collector), NEW c, NEW l
  PROVE  LimitsAre(tree, c, l) <=> Has(tree, c) /\ Find(tree, c).limits = l
<1> DEFINE q == tree.collector
<1>1. CASE c \in Ids(q)
  <2> DEFINE i == At(q, c)
  <2>1. /\ i \in DOMAIN q /\ q[i].a2 = c
        /\ \A k \in DOMAIN q : q[k].a2 = c => k = i
    BY <1>1, AtIs
  <2>2. Find(tree, c) = q[i] BY DEF Find
  <2> HIDE DEF i
  <2> QED BY <1>1, <2>1, <2>2 DEF LimitsAre, Has
<1>2. CASE c \notin Ids(q) BY <1>2 DEF LimitsAre, Has, Ids
<1> QED BY <1>1, <1>2

(* What is left of an array from which one entry is deleted. *)
LEMMA RemoveAtIs ==
  ASSUME NEW S, NEW q \in Seq(S), NEW i \in DOMAIN q, NEW r, r = RemoveAt(q, i)
  PROVE  /\ r \in Seq(S) /\ DOMAIN r = 1..(Len(q) - 1)
         /\ Len(q) \in Nat /\ DOMAIN q = 1..Len(q)
         /\ \A k \in DOMAIN r : r[k] = IF k < i THEN q[k] ELSE q[k + 1]
<1> DEFINE s == SubSeq(q, 1, i - 1)
           t == SubSeq(q, i + 1, Len(q))
<1>1. /\ Len(q) \in Nat /\ DOMAIN q = 1..Len(q) /\ i \in 1..Len(q)
      /\ \A k \in 1..Len(q) : q[k] \in S
  BY LenProperties, ElementOfSeq
<1>2. /\ s \in Seq(S) /\ Len(s) = i - 1
      /\ \A k \in 1..(i - 1) : s[k] = q[k]
  <2>1. \A k \in 1..(i - 1) : q[k] \in S BY <1>1
  <2>2. /\ s \in Seq(S) /\ Len(s) = IF 1 <= i - 1 THEN (i - 1) - 1 + 1 ELSE 0
        /\ \A k \in 1..((i - 1) - 1 + 1) : s[k] = q[1 + k - 1]
    BY <1>1, <2>1, SubSeqProperties
  <2> QED BY <1>1, <2>2
<1>3. /\ t \in Seq(S) /\ Len(t) = Len(q) - i
      /\ \A k \in 1..(Len(q) - i) : t[k] = q[i + k]
  <2>1. \A k \in (i + 1)..Len(q) : q[k] \in S BY <1>1
  <2>2. /\ t \in Seq(S)
        /\ Len(t) = IF i + 1 <= Len(q) THEN Len(q) - (i + 1) + 1 ELSE 0
        /\ \A k \in 1..(Len(q) - (i + 1) + 1) : t[k] = q[(i + 1) + k - 1]
    BY <1>1, <2>1, SubSeqProperties
  <2> QED BY <1>1, <2>2
<1> HIDE DEF s, t
<1>4. /\ s \o t \in Seq(S) /\ Len(s \o t) = Len(s) + Len(t)
      /\ \A k \in 1..(Len(s) + Len(t)) :
           (s \o t)[k] = IF k <= Len(s) THEN s[k] ELSE t[k - Len(s)]
  BY <1>2, <1>3, ConcatProperties
<1>5. r = s \o t BY DEF RemoveAt, s, t
<1>6. r \in Seq(S) /\ Len(r) = Len(q) - 1 /\ DOMAIN r = 1..(Len(q) - 1)
  <2>1. Len(r) = Len(q) - 1
    <3>1. Len(r) = Len(s) + Len(t) BY <1>4, <1>5
    <3>2. Len(q) \in Nat /\ i \in 1..Len(q) BY <1>1
    <3>3. Len(s) = i - 1 /\ Len(t) = Len(q) - i BY <1>2, <1>3
    <3> HIDE DEF s, t
    <3> QED BY <3>1, <3>2, <3>3
  <2>2. r \in Seq(S) BY <1>4, <1>5
  <2> QED BY <2>1, <2>2, LenProperties
<1>7. ASSUME NEW k \in DOMAIN r
      PROVE  r[k] = IF k < i THEN q[k] ELSE q[k + 1]
  <2>1. k \in 1..(Len(q) - 1) BY <1>6
  <2>2. CASE k < i
    <3>1. k \in 1..(i - 1) /\ k \in 1..(Len(s) + Len(t)) /\ k <= Len(s)
      BY <1>1, <1>2, <1>3, <2>1, <2>2
    <3>2. r[k] = s[k] BY <1>4, <1>5, <3>1
    <3>3. s[k] = q[k] BY <1>2, <3>1
    <3> QED BY <2>2, <3>2, <3>3
  <2>3. CASE ~(k < i)
    <3>1. k - (i - 1) \in 1..(Len(q) - i) BY <1>1, <2>1, <2>3
    <3>2. r[k] = t[k - (i - 1)] BY <1>1, <1>2, <1>3, <1>4, <1>5, <2>1, <2>3
    <3>3. i + (k - (i - 1)) = k + 1 BY <1>1, <2>1
    <3> QED BY <1>3, <2>3, <3>1, <3>2, <3>3
  <2> QED BY <2>2, <2>3
<1> QED BY <1>1, <1>6, <1>7

(* The entries of q but for those with id c are in r. *)
Others(q, r, c) ==
  \A k \in DOMAIN q : q[k].a2 # c => \E i \in DOMAIN r : r[i] = q[k]

(* Deleting by id leaves the rest as it is. *)
LEMMA DropIs ==
  ASSUME NEW S, NEW q \in Seq(S), Unique(q), NEW c, NEW r, r = Drop(q, c)
  PROVE  r \in Seq(S) /\ Unique(r) /\ Others(q, r, c)
<1>1. CASE c \notin Ids(q) BY <1>1 DEF Drop, Others
<1>2. CASE c \in Ids(q)
  <2> DEFINE i == At(q, c)
  <2>1. i \in DOMAIN q /\ q[i].a2 = c BY <1>2, AtIs
  <2>2. r = RemoveAt(q, i) BY <1>2 DEF Drop
  <2> HIDE DEF i
  <2>3. /\ r \in Seq(S) /\ DOMAIN r = 1..(Len(q) - 1)
        /\ Len(q) \in Nat /\ DOMAIN q = 1..Len(q)
        /\ \A k \in DOMAIN r : r[k] = IF k < i THEN q[k] ELSE q[k + 1]
    BY <2>1, <2>2, RemoveAtIs
  <2>4. \A k \in DOMAIN r : k \in DOMAIN q /\ k + 1 \in DOMAIN q BY <2>3
  <2>5. ASSUME NEW j \in DOMAIN r, NEW k \in DOMAIN r, r[j].a2 = r[k].a2
        PROVE  j = k
    <3>1. \/ j < i /\ r[j] = q[j]
          \/ ~(j < i) /\ r[j] = q[j + 1]
      BY <2>3
    <3>2. \/ k < i /\ r[k] = q[k]
          \/ ~(k < i) /\ r[k] = q[k + 1]
      BY <2>3
    <3>3. j \in Int /\ k \in Int BY <2>3
    <3> QED BY <2>1, <2>3, <2>4, <2>5, <3>1, <3>2, <3>3 DEF Unique
  <2>6. ASSUME NEW k \in DOMAIN q, q[k].a2 # c
        PROVE  \E j \in DOMAIN r : r[j] = q[k]
    <3>1. k # i BY <2>1, <2>6
    <3>2. CASE k < i
      <4>1. k \in DOMAIN r BY <2>1, <2>3, <3>2
      <4> QED BY <2>3, <3>2, <4>1
    <3>3. CASE ~(k < i)
      <4>1. k - 1 \in DOMAIN r /\ ~(k - 1 < i) /\ (k - 1) + 1 = k
        BY <2>1, <2>3, <3>1, <3>3
      <4>2. r[k - 1] = q[k] BY <2>3, <4>1
      <4> QED BY <4>1, <4>2
    <3> QED BY <3>2, <3>3
  <2> QED BY <2>3, <2>5, <2>6 DEF Unique, Others
<1> QED BY <1>1, <1>2

(* Setting an entry replaces the one with its id, or adds it. *)
LEMMA PutIs ==
  ASSUME NEW S, NEW q \in Seq(S), Unique(q), NEW d \in S, NEW r, r = Put(q, d)
  PROVE  r \in Seq(S) /\ Unique(r) /\ Others(q, r, d.a2)
<1>1. Len(q) \in Nat /\ DOMAIN q = 1..Len(q) BY LenProperties
<1>2. CASE d.a2 \in Ids(q)
  <2> DEFINE i == At(q, d.a2)
  <2>1. i \in DOMAIN q /\ q[i].a2 = d.a2 BY <1>2, AtIs
  <2>2. r = [q EXCEPT ![i] = d] BY <1>2 DEF Put
  <2> HIDE DEF i
  <2>3. r \in Seq(S) BY <2>1, <2>2, ExceptSeq
  <2>4. /\ DOMAIN r = DOMAIN q /\ r[i] = d
        /\ \A k \in DOMAIN q : k # i => r[k] = q[k]
    BY <2>1, <2>2
  <2>5. \A k \in DOMAIN q : r[k].a2 = q[k].a2 BY <2>1, <2>4
  <2>6. Unique(r) BY <2>4, <2>5 DEF Unique
  <2> QED BY <2>1, <2>3, <2>4, <2>6 DEF Others
<1>3. CASE d.a2 \notin Ids(q)
  <2>1. r = Append(q, d) BY <1>3 DEF Put
  <2>2. /\ r \in Seq(S) /\ DOMAIN r = 1..(Len(q) + 1)
        /\ r[Len(q) + 1] = d /\ \A k \in 1..Len(q) : r[k] = q[k]
    BY <2>1, AppendProperties, LenProperties
  <2>3. \A k \in 1..(Len(q) + 1) : k \in 1..Len(q) \/ k = Len(q) + 1 BY <1>1
  <2>4. \A k \in DOMAIN q : q[k].a2 # d.a2 BY <1>3 DEF Ids
  <2>5. Unique(r)
    <3>1. SUFFICES ASSUME NEW j \in DOMAIN r, NEW k \in DOMAIN r,
                          r[j].a2 = r[k].a2
                   PROVE  j = k
      BY DEF Unique
    <3> QED BY <1>1, <2>2, <2>3, <2>4, <3>1 DEF Unique
  <2>6. \A k \in 1..Len(q) : k \in DOMAIN r BY <1>1, <2>2
  <2> QED BY <1>1, <2>2, <2>5, <2>6 DEF Others
<1> QED BY <1>2, <1>3

-----------------------------------------------------------------------------
(* Lists of steps. *)

LEMMA SaveReply ==
  ASSUME NEW q, q = Save \o Reply
  PROVE  /\ q \in Seq(Steps) /\ Len(q) = 3 /\ DOMAIN q = {1, 2, 3}
         /\ q[1] = "truncate" /\ q[2] = "print" /\ q[3] = "reply"
<1>1. /\ Save \in Seq(Steps) /\ Len(Save) = 2
      /\ Save[1] = "truncate" /\ Save[2] = "print"
  BY DEF Save, Steps
<1>2. Reply \in Seq(Steps) /\ Len(Reply) = 1 /\ Reply[1] = "reply"
  BY DEF Reply, Steps
<1>3. /\ q \in Seq(Steps) /\ Len(q) = Len(Save) + Len(Reply)
      /\ \A k \in 1..(Len(Save) + Len(Reply)) :
           q[k] = IF k <= Len(Save) THEN Save[k] ELSE Reply[k - Len(Save)]
  BY <1>1, <1>2, ConcatProperties
<1>4. 1 \in 1..3 /\ 2 \in 1..3 /\ 3 \in 1..3 /\ 1..3 = {1, 2, 3} OBVIOUS
<1>5. DOMAIN q = {1, 2, 3} BY <1>1, <1>2, <1>3, <1>4, LenProperties
<1> QED BY <1>1, <1>2, <1>3, <1>4, <1>5

LEMMA ShareSaveReply ==
  ASSUME NEW q
  PROVE  /\ q = <<"share">> \o Save \o Reply =>
              /\ q \in Seq(Steps) /\ Len(q) = 4 /\ DOMAIN q = {1, 2, 3, 4}
              /\ q[1] = "share" /\ q[2] = "truncate" /\ q[3] = "print"
              /\ q[4] = "reply"
         /\ q = Save \o <<"share">> \o Reply =>
              /\ q \in Seq(Steps) /\ Len(q) = 4 /\ DOMAIN q = {1, 2, 3, 4}
              /\ q[1] = "truncate" /\ q[2] = "print" /\ q[3] = "share"
              /\ q[4] = "reply"
<1> DEFINE s == <<"share">>
<1>1. /\ Save \in Seq(Steps) /\ Len(Save) = 2
      /\ Save[1] = "truncate" /\ Save[2] = "print"
  BY DEF Save, Steps
<1>2. Reply \in Seq(Steps) /\ Len(Reply) = 1 /\ Reply[1] = "reply"
  BY DEF Reply, Steps
<1>3. s \in Seq(Steps) /\ Len(s) = 1 /\ s[1] = "share" BY DEF Steps
<1>4. 1 \in 1..4 /\ 2 \in 1..4 /\ 3 \in 1..4 /\ 4 \in 1..4 /\ 1..4 = {1, 2, 3, 4}
      /\ 1 \in 1..3 /\ 2 \in 1..3 /\ 3 \in 1..3
  OBVIOUS
<1> HIDE DEF s
<1>5. ASSUME q = s \o Save \o Reply
      PROVE  /\ q \in Seq(Steps) /\ Len(q) = 4 /\ DOMAIN q = {1, 2, 3, 4}
             /\ q[1] = "share" /\ q[2] = "truncate" /\ q[3] = "print"
             /\ q[4] = "reply"
  <2> DEFINE t == s \o Save
  <2>1. /\ t \in Seq(Steps) /\ Len(t) = Len(s) + Len(Save)
        /\ \A k \in 1..(Len(s) + Len(Save)) :
             t[k] = IF k <= Len(s) THEN s[k] ELSE Save[k - Len(s)]
    BY <1>1, <1>3, ConcatProperties
  <2>2. q = t \o Reply BY <1>5
  <2> HIDE DEF t
  <2>3. t \in Seq(Steps) /\ Len(t) = 3 /\ t[1] = "share" /\ t[2] = "truncate"
          /\ t[3] = "print"
    BY <1>1, <1>3, <1>4, <2>1
  <2>4. /\ q \in Seq(Steps) /\ Len(q) = Len(t) + Len(Reply)
        /\ \A k \in 1..(Len(t) + Len(Reply)) :
             q[k] = IF k <= Len(t) THEN t[k] ELSE Reply[k - Len(t)]
    BY <1>2, <2>3, <2>2, ConcatProperties
  <2>5. DOMAIN q = {1, 2, 3, 4} BY <1>2, <1>4, <2>3, <2>4, LenProperties
  <2> QED BY <1>2, <1>4, <2>3, <2>4, <2>5
<1>6. ASSUME q = Save \o s \o Reply
      PROVE  /\ q \in Seq(Steps) /\ Len(q) = 4 /\ DOMAIN q = {1, 2, 3, 4}
             /\ q[1] = "truncate" /\ q[2] = "print" /\ q[3] = "share"
             /\ q[4] = "reply"
  <2> DEFINE t == Save \o s
  <2>1. /\ t \in Seq(Steps) /\ Len(t) = Len(Save) + Len(s)
        /\ \A k \in 1..(Len(Save) + Len(s)) :
             t[k] = IF k <= Len(Save) THEN Save[k] ELSE s[k - Len(Save)]
    BY <1>1, <1>3, ConcatProperties
  <2>2. q = t \o Reply BY <1>6
  <2> HIDE DEF t
  <2>3. t \in Seq(Steps) /\ Len(t) = 3 /\ t[1] = "truncate" /\ t[2] = "print"
          /\ t[3] = "share"
    BY <1>1, <1>3, <1>4, <2>1
  <2>4. /\ q \in Seq(Steps) /\ Len(q) = Len(t) + Len(Reply)
        /\ \A k \in 1..(Len(t) + Len(Reply)) :
             q[k] = IF k <= Len(t) THEN t[k] ELSE Reply[k - Len(t)]
    BY <1>2, <2>3, <2>2, ConcatProperties
  <2>5. DOMAIN q = {1, 2, 3, 4} BY <1>2, <1>4, <2>3, <2>4, LenProperties
  <2> QED BY <1>2, <1>4, <2>3, <2>4, <2>5
<1> QED BY <1>5, <1>6 DEF s

LEMMA PlanNothing == Plan(<<>>) /\ \A s : ~In(s, <<>>)
BY DEF Plan, In

LEMMA PlanReply == Plan(Reply) /\ Reply # <<>>
<1> DEFINE q == <<"reply">>
<1>1. q \in Seq(Steps) BY DEF Steps
<1>2. DOMAIN q = {1} /\ q[1] = "reply" /\ Len(q) = 1 OBVIOUS
<1>3. q = Reply BY DEF Reply
<1> HIDE DEF q
<1>4. Plan(q) /\ q # <<>> BY <1>1, <1>2 DEF Plan
<1> QED BY <1>3, <1>4

LEMMA PlanSave ==
  ASSUME NEW q, q = Save \o Reply
  PROVE  Plan(q) /\ In("print", q) /\ q # <<>>
<1>1. q \in Seq(Steps) BY SaveReply
<1>2. /\ DOMAIN q = {1, 2, 3} /\ Len(q) = 3
      /\ q[1] = "truncate" /\ q[2] = "print" /\ q[3] = "reply"
  BY SaveReply
<1>3. Plan(q)
  <2>1. \A i \in DOMAIN q : q[i] = "truncate" => i + 1 \in DOMAIN q /\ q[i + 1] = "print"
    BY <1>2
  <2>2. \A i \in DOMAIN q : q[i] = "reply" <=> i = Len(q) BY <1>2
  <2> QED BY <1>1, <2>1, <2>2 DEF Plan
<1> QED BY <1>2, <1>3 DEF In

LEMMA PlanShareSave ==
  ASSUME NEW q, \/ q = <<"share">> \o Save \o Reply
                \/ q = Save \o <<"share">> \o Reply
  PROVE  Plan(q) /\ In("print", q) /\ q # <<>>
<1>1. q \in Seq(Steps) BY ShareSaveReply
<1>2. DOMAIN q = {1, 2, 3, 4} /\ Len(q) = 4 /\ q[4] = "reply"
  BY ShareSaveReply
<1>3. \/ q[1] = "share" /\ q[2] = "truncate" /\ q[3] = "print"
      \/ q[1] = "truncate" /\ q[2] = "print" /\ q[3] = "share"
  BY ShareSaveReply
<1>4. Plan(q)
  <2>1. \A i \in DOMAIN q : q[i] = "truncate" => i + 1 \in DOMAIN q /\ q[i + 1] = "print"
    BY <1>2, <1>3
  <2>2. \A i \in DOMAIN q : q[i] = "reply" <=> i = Len(q) BY <1>2, <1>3
  <2> QED BY <1>1, <2>1, <2>2 DEF Plan
<1> QED BY <1>2, <1>3, <1>4 DEF In

LEMMA PlanTail ==
  ASSUME NEW q, Plan(q), q # <<>>
  PROVE  /\ Plan(Tail(q))
         /\ \A s : In(s, q) <=> s = Head(q) \/ In(s, Tail(q))
         /\ Head(q) = "truncate" => In("print", Tail(q))
         /\ Head(q) = "reply" <=> Tail(q) = <<>>
<1> DEFINE r == Tail(q)
<1>1. /\ q \in Seq(Steps) /\ Len(q) \in Nat /\ DOMAIN q = 1..Len(q)
      /\ 1 \in DOMAIN q /\ Head(q) = q[1]
  BY LenProperties, EmptySeq DEF Plan
<1>2. /\ r \in Seq(Steps) /\ Len(r) = Len(q) - 1
      /\ DOMAIN r = 1..(Len(q) - 1) /\ \A k \in DOMAIN r : r[k] = q[k + 1]
  BY <1>1, HeadTailProperties, LenProperties
<1> HIDE DEF r
<1>3. \A k \in DOMAIN r : k + 1 \in DOMAIN q BY <1>1, <1>2
<1>4. ASSUME NEW k \in DOMAIN q PROVE k = 1 \/ (k - 1 \in DOMAIN r /\ r[k - 1] = q[k])
  <2>1. k = 1 \/ (k - 1 \in 1..(Len(q) - 1) /\ (k - 1) + 1 = k) BY <1>1
  <2> QED BY <1>2, <2>1
<1>5. ASSUME NEW k \in DOMAIN r, r[k] = "truncate"
      PROVE  k + 1 \in DOMAIN r /\ r[k + 1] = "print"
  <2>1. (k + 1) + 1 \in DOMAIN q /\ q[(k + 1) + 1] = "print"
    BY <1>2, <1>3, <1>5 DEF Plan
  <2>2. k + 1 \in DOMAIN r BY <1>1, <1>2, <2>1
  <2> QED BY <1>2, <2>1, <2>2
<1>6. ASSUME NEW k \in DOMAIN r PROVE r[k] = "reply" <=> k = Len(r)
  <2>1. q[k + 1] = "reply" <=> k + 1 = Len(q) BY <1>3 DEF Plan
  <2> QED BY <1>1, <1>2, <2>1
<1>7. \A s : In(s, q) <=> s = Head(q) \/ In(s, r)
  <2>1. ASSUME NEW s, In(s, q) PROVE s = Head(q) \/ In(s, r)
    BY <1>1, <1>4, <2>1 DEF In
  <2>2. ASSUME NEW s, s = Head(q) \/ In(s, r) PROVE In(s, q)
    BY <1>1, <1>2, <1>3, <2>2 DEF In
  <2> QED BY <2>1, <2>2
<1>8. Head(q) = "truncate" => In("print", r)
  <2>1. SUFFICES ASSUME Head(q) = "truncate" PROVE In("print", r) OBVIOUS
  <2>2. 1 + 1 \in DOMAIN q /\ q[1 + 1] = "print" BY <1>1, <2>1 DEF Plan
  <2>3. 1 \in DOMAIN r BY <1>1, <1>2, <2>2
  <2> QED BY <1>2, <2>2, <2>3 DEF In
<1>9. Head(q) = "reply" <=> r = <<>>
  <2>1. Head(q) = "reply" <=> Len(q) = 1 BY <1>1 DEF Plan
  <2>2. r = <<>> <=> Len(r) = 0 BY <1>2, EmptySeq
  <2> QED BY <1>1, <1>2, <2>1, <2>2
<1> QED BY <1>2, <1>5, <1>6, <1>7, <1>8, <1>9 DEF Plan, r

-----------------------------------------------------------------------------
(* Trees. *)

(* A tree with other collectors. *)
WithCollectors(tree, r) == [tree EXCEPT !.collector = r]
Collects(t, tree, r) ==
  Sound(t) /\ t.collector = r /\ t.ver = tree.ver /\ t.address = tree.address

LEMMA CollectorsAre ==
  ASSUME NEW tree, Sound(tree), NEW r \in Seq(Collector), Unique(r),
         NEW t, t = WithCollectors(tree, r)
  PROVE  Collects(t, tree, r)
<1>1. tree \in Tree BY DEF Sound
<1>2. t \in Tree /\ t.collector = r /\ t.ver = tree.ver /\ t.address = tree.address
  BY <1>1 DEF Tree, WithCollectors
<1> QED BY <1>2 DEF Sound, Collects

LEMMA SoundIs ==
  ASSUME NEW tree, Sound(tree)
  PROVE  /\ tree \in Tree /\ tree.collector \in Seq(Collector)
         /\ Unique(tree.collector)
BY DEF Sound, Tree

(* New thresholds for one collector. *)
WithLimits(tree, c, l, s) ==
  [tree EXCEPT !.collector[At(tree.collector, c)].limits = l,
               !.collector[At(tree.collector, c)].stray = s]

LEMMA LimitsSet ==
  ASSUME NEW tree, Sound(tree), NEW c, Has(tree, c), NEW l \in Revision,
         NEW s \in Words,
         NEW t, t = WithLimits(tree, c, l, s)
  PROVE  /\ Sound(t) /\ t.ver = tree.ver /\ t.address = tree.address
         /\ LimitsAre(t, c, l)
         /\ \A d, k : d # c /\ LimitsAre(tree, d, k) => LimitsAre(t, d, k)
<1> DEFINE q == tree.collector
           i == At(q, c)
           f == [[q[i] EXCEPT !.limits = l] EXCEPT !.stray = s]
           r == [q EXCEPT ![i] = f]
<1>1. tree \in Tree /\ q \in Seq(Collector) /\ Unique(q) BY SoundIs
<1>2. /\ i \in DOMAIN q /\ q[i].a2 = c
      /\ \A k \in DOMAIN q : q[k].a2 = c => k = i
  BY <1>1, AtIs DEF Has
<1>3. q[i] \in Collector BY <1>1, <1>2, ElementOfSeq
<1>4. f \in Collector /\ f.a2 = c /\ f.limits = l BY <1>2, <1>3 DEF Collector
<1>5. t = WithCollectors(tree, r)
  BY <1>1, <1>2, <1>3 DEF WithLimits, WithCollectors, Tree, Collector
<1> HIDE DEF i, f
<1>6. r \in Seq(Collector) BY <1>1, <1>2, <1>4, ExceptSeq
<1>7. /\ DOMAIN r = DOMAIN q /\ r[i] = f
      /\ \A k \in DOMAIN q : k # i => r[k] = q[k]
  BY <1>1, <1>2
<1> HIDE DEF r
<1>8. Unique(r)
  <2>1. \A k \in DOMAIN q : r[k].a2 = q[k].a2 BY <1>2, <1>4, <1>7
  <2> QED BY <1>1, <1>7, <2>1 DEF Unique
<1>9. Sound(t) /\ t.collector = r /\ t.ver = tree.ver /\ t.address = tree.address
  <2>1. Collects(t, tree, r) BY <1>5, <1>6, <1>8, CollectorsAre
  <2> QED BY <2>1 DEF Collects
<1>10. LimitsAre(t, c, l) BY <1>2, <1>4, <1>7, <1>9 DEF LimitsAre
<1>11. ASSUME NEW d, NEW k, d # c, LimitsAre(tree, d, k) PROVE LimitsAre(t, d, k)
  <2>1. PICK j \in DOMAIN q : q[j].a2 = d /\ q[j].limits = k BY <1>11 DEF LimitsAre
  <2>2. j # i BY <1>2, <1>11, <2>1
  <2> QED BY <1>7, <1>9, <2>1, <2>2 DEF LimitsAre
<1> QED BY <1>9, <1>10, <1>11

(* A collector is set anew or deleted. *)
LEMMA CollectorSet ==
  ASSUME NEW tree, Sound(tree), NEW d \in Collector, NEW t,
         t = WithCollectors(tree, Put(tree.collector, d))
  PROVE  /\ Sound(t) /\ t.ver = tree.ver /\ t.address = tree.address
         /\ \A c, k : c # d.a2 /\ LimitsAre(tree, c, k) => LimitsAre(t, c, k)
<1> DEFINE q == tree.collector
           r == Put(q, d)
<1>1. q \in Seq(Collector) /\ Unique(q) BY SoundIs
<1>2. r \in Seq(Collector) /\ Unique(r) /\ Others(q, r, d.a2)
  BY <1>1, PutIs
<1> HIDE DEF r
<1>3. Sound(t) /\ t.collector = r /\ t.ver = tree.ver /\ t.address = tree.address
  <2>1. Collects(t, tree, r) BY <1>2, CollectorsAre DEF r
  <2> QED BY <2>1 DEF Collects
<1> QED BY <1>2, <1>3 DEF LimitsAre, Others

LEMMA CollectorDropped ==
  ASSUME NEW tree, Sound(tree), NEW x, NEW t,
         t = WithCollectors(tree, Drop(tree.collector, x))
  PROVE  /\ Sound(t) /\ t.ver = tree.ver /\ t.address = tree.address
         /\ \A c, k : c # x /\ LimitsAre(tree, c, k) => LimitsAre(t, c, k)
<1> DEFINE q == tree.collector
           r == Drop(q, x)
<1>1. q \in Seq(Collector) /\ Unique(q) BY SoundIs
<1>2. r \in Seq(Collector) /\ Unique(r) /\ Others(q, r, x)
  BY <1>1, DropIs
<1> HIDE DEF r
<1>3. Sound(t) /\ t.collector = r /\ t.ver = tree.ver /\ t.address = tree.address
  <2>1. Collects(t, tree, r) BY <1>2, CollectorsAre DEF r
  <2> QED BY <2>1 DEF Collects
<1> QED BY <1>2, <1>3 DEF LimitsAre, Others

(* Bytes of a frame fit the attributes they are stored in, and a version   *)
(* whose second byte has two places is read back as it was sent.           *)
LEMMA WordsFit ==
  ASSUME NEW w \in (0..255) \X (0..255)
  PROVE  Word(w) \in Words /\ FirstWord(w) \in Words /\ Version(w) \in Nat
<1> DEFINE h == w[1]
           l == w[2]
<1>1. h \in 0..255 /\ l \in 0..255 OBVIOUS
<1>2. /\ Word(w) = h * 256 + l /\ Version(w) = h * 100 + l
      /\ FirstWord(w) = (IF h < 8 THEN 1 ELSE 0) + l
  BY DEF Word, FirstWord, Version
<1> HIDE DEF h, l
<1>3. h * 256 + l \in Int /\ 0 <= h * 256 + l /\ h * 256 + l <= 65535 BY <1>1
<1>4. h * 100 + l \in Nat BY <1>1
<1>5. l \in Int /\ 0 <= l /\ 1 + l <= 65535 BY <1>1
<1>6. \A k \in Int : 0 <= k /\ k <= 65535 => k \in Words
  <2>1. \A n, k \in Int : 0 <= k /\ k <= n => k \in 0..n OBVIOUS
  <2> DEFINE n == 65535
  <2>2. n \in Int OBVIOUS
  <2>3. Words = 0..n BY DEF Words
  <2> HIDE DEF n
  <2>4. ASSUME NEW k \in Int, 0 <= k, k <= n PROVE k \in Words
    BY <2>1, <2>2, <2>3, <2>4
  <2> QED BY <2>4 DEF n
<1>7. Word(w) \in Words BY <1>2, <1>3, <1>6
<1>8. FirstWord(w) \in Words
  <2>1. CASE h < 8
    <3>1. FirstWord(w) = 1 + l BY <1>2, <2>1
    <3> QED BY <1>5, <1>6, <3>1
  <2>2. CASE ~(h < 8)
    <3>1. FirstWord(w) = 0 + l BY <1>2, <2>2
    <3> QED BY <1>5, <1>6, <3>1
  <2> QED BY <2>1, <2>2
<1> QED BY <1>2, <1>4, <1>7, <1>8

LEMMA VersionReadBack ==
  ASSUME NEW v \in (0..255) \X (0..255), v[2] < 100
  PROVE  VersionBytes(Version(v)) = v
<1>1. v[1] \in 0..255 /\ v[2] \in 0..99 /\ v = <<v[1], v[2]>> OBVIOUS
<1>2. ASSUME NEW h \in 0..255, NEW l \in 0..99
      PROVE  ((h * 100 + l) \div 100) % 256 = h /\ (h * 100 + l) % 100 = l
  OBVIOUS
<1> DEFINE n == v[1] * 100 + v[2]
<1>3. (n \div 100) % 256 = v[1] /\ n % 100 = v[2] BY <1>1, <1>2
<1>4. VersionBytes(Version(v)) = <<(n \div 100) % 256, n % 100>>
  BY DEF VersionBytes, Version
<1> HIDE DEF n
<1> QED BY <1>1, <1>3, <1>4

-----------------------------------------------------------------------------
(* What a command does to the promises. *)

Setters == {"setdpinfo", "deldpinfo", "setver", "setaddress"}
Values == (Nat \X Nat) \union {Unset}

LEMMA PromiseIs ==
  ASSUME SettingsInv, NEW cmd, NEW item, NEW value, NEW steps,
         Handle(cmd, item, value, steps)
  PROVE  /\ promise' \in [Items -> Values]
         /\ \A x \in Items : promise'[x] = promise[x] \/ promise'[x] = Unset
         /\ cmd \in Setters /\ item \in Items => promise'[item] = Unset
         /\ cmd \notin Setters => promise' = promise
<1>1. promise \in [Items -> Values] BY DEF SettingsInv, Values
<1>2. promise' = IF cmd \in Setters THEN [promise EXCEPT ![item] = Unset]
                 ELSE promise
  BY DEF Handle, Setters
<1>3. Unset \in Values BY DEF Values
<1> QED BY <1>1, <1>2, <1>3

(* Keeps of a tree after the step. *)
KeepsNext(next) ==
  /\ promise'["ver"] # Unset => VersionBytes(next.ver) = promise'["ver"]
  /\ promise'["address"] # Unset => next.address = promise'["address"]
  /\ \A c \in Collectors : promise'[c] # Unset =>
       \/ LimitsAre(next, c, promise'[c][1])
       \/ /\ request'.cmd = "setmenxian" /\ todo' # <<>> /\ request'.item = c
          /\ LimitsAre(next, c, request'.rev)

LEMMA ItemsAre ==
  /\ "ver" \in Items /\ "address" \in Items /\ "none" \notin Items
  /\ \A c \in Collectors : c \in Items /\ c # "ver" /\ c # "address"
BY SettingsAssumption DEF Items

(* A tree that changes only where a promise is withdrawn, or where the     *)
(* command will make a new one.                                            *)
LEMMA KeepStep ==
  ASSUME NEW tree, Keeps(tree), todo = <<>>,
         \A x \in Items : promise'[x] = promise[x] \/ promise'[x] = Unset,
         NEW next,
         next.ver = tree.ver \/ promise'["ver"] = Unset,
         next.address = tree.address \/ promise'["address"] = Unset,
         \A c \in Collectors :
           \/ promise'[c] = Unset
           \/ \A l : LimitsAre(tree, c, l) => LimitsAre(next, c, l)
           \/ /\ request'.cmd = "setmenxian" /\ todo' # <<>>
              /\ request'.item = c /\ LimitsAre(next, c, request'.rev)
  PROVE  KeepsNext(next)
<1>1. promise'["ver"] # Unset => VersionBytes(next.ver) = promise'["ver"]
  BY ItemsAre DEF Keeps
<1>2. promise'["address"] # Unset => next.address = promise'["address"]
  BY ItemsAre DEF Keeps
<1>3. ASSUME NEW c \in Collectors, promise'[c] # Unset
      PROVE  \/ LimitsAre(next, c, promise'[c][1])
             \/ /\ request'.cmd = "setmenxian" /\ todo' # <<>>
                /\ request'.item = c /\ LimitsAre(next, c, request'.rev)
  <2>1. promise'[c] = promise[c] BY <1>3, ItemsAre
  <2>2. LimitsAre(tree, c, promise[c][1]) BY <1>3, <2>1 DEF Keeps, Setting
  <2> QED BY <1>3, <2>1, <2>2
<1> QED BY <1>1, <1>2, <1>3 DEF KeepsNext

(* What a command leaves. *)
LEMMA HandleKeeps ==
  ASSUME SettingsInv, NEW cmd, NEW item, NEW value, NEW steps,
         Handle(cmd, item, value, steps),
         Sound(jsonroot'), KeepsNext(jsonroot'), Plan(steps),
         jsonroot' = jsonroot \/ In("print", steps),
         steps # <<>> => Owed' /\ Told'
  PROVE  SettingsInv'
<1>1. /\ config' = config /\ restarts' = restarts /\ alive
      /\ todo = <<>> /\ todo' = steps
  BY DEF Handle
<1>2. sent' \in 0..MaxCommands
  BY SettingsAssumption DEF Handle, SettingsInv, TypeOK
<1>3. TypeOK' BY <1>1, <1>2 DEF SettingsInv, TypeOK, Plan, Steps
<1>4. promise' \in [Items -> Values]
        /\ \A x \in Items : promise'[x] = promise[x] \/ promise'[x] = Unset
  BY PromiseIs
<1>5. Keeps(jsonroot)' BY DEF Keeps, KeepsNext, Setting
<1>6. config = jsonroot
  <2>1. ~In("print", todo) BY <1>1, PlanNothing
  <2> QED BY <1>1, <2>1 DEF SettingsInv
<1>7. (config # Torn => Sound(config) /\ Keeps(config))'
  <2>1. SUFFICES ASSUME config # Torn PROVE Sound(config) /\ KeepsNext(config)
    BY <1>1 DEF Keeps, KeepsNext, Setting
  <2>2. Sound(config) /\ Keeps(config) BY <2>1 DEF SettingsInv
  <2>3. KeepsNext(config) BY <1>1, <1>4, <2>2, KeepStep
  <2> QED BY <2>2, <2>3
<1>8. (alive /\ ~In("print", todo) => config = jsonroot)' BY <1>1, <1>6
<1>9. (todo # <<>> => Owed /\ Told)' BY <1>1
<1> QED BY <1>1, <1>3, <1>4, <1>5, <1>7, <1>8, <1>9 DEF SettingsInv, Values

(* Before a command what is in memory is what is promised. *)
LEMMA KeptNow ==
  ASSUME SettingsInv, todo = <<>>
  PROVE  \A c \in Collectors : promise[c] # Unset =>
           Has(jsonroot, c) /\ Find(jsonroot, c).limits = promise[c][1]
<1>1. Unique(jsonroot.collector) BY DEF SettingsInv, TypeOK, Sound
<1>2. \A c \in Collectors : promise[c] # Unset =>
        LimitsAre(jsonroot, c, promise[c][1])
  BY DEF SettingsInv, Keeps, Setting
<1> QED BY <1>1, <1>2, FindIs

(* A tree that is left alone. *)
LEMMA SameTree ==
  ASSUME SettingsInv, NEW cmd, NEW item, NEW value, NEW steps,
         Handle(cmd, item, value, steps), jsonroot' = jsonroot
  PROVE  Sound(jsonroot') /\ KeepsNext(jsonroot')
<1>1. Sound(jsonroot) /\ Keeps(jsonroot) BY DEF SettingsInv, TypeOK
<1>2. todo = <<>> BY DEF Handle
<1>3. \A x \in Items : promise'[x] = promise[x] \/ promise'[x] = Unset
  BY PromiseIs
<1>4. KeepsNext(jsonroot) BY <1>1, <1>2, <1>3, KeepStep
<1> QED BY <1>1, <1>4

LEMMA CrashKeeps ==
  ASSUME SettingsInv, NEW cmd, NEW item, Crash(cmd, item) PROVE SettingsInv'
<1>1. Handle(cmd, item, Unset, <<>>) /\ jsonroot' = jsonroot BY DEF Crash
<1>2. Sound(jsonroot') /\ KeepsNext(jsonroot') BY <1>1, SameTree
<1> QED BY <1>1, <1>2, PlanNothing, HandleKeeps

LEMMA AsksKeeps ==
  ASSUME SettingsInv, NEW cmd, NEW item, NEW value, Asks(cmd, item, value),
         cmd \notin Setters /\ cmd # "setmenxian",
         (cmd \in Readers /\ item \in Items /\ promise[item] # Unset) =>
           IF cmd = "getmenxian" THEN value[1] = promise[item][1]
           ELSE value = promise[item]
  PROVE  SettingsInv'
<1>1. Handle(cmd, item, value, Reply) /\ jsonroot' = jsonroot BY DEF Asks
<1>2. Sound(jsonroot') /\ KeepsNext(jsonroot') BY <1>1, SameTree
<1>3. /\ request' = [cmd |-> cmd, item |-> item, value |-> value, rev |-> sent + 1]
      /\ promise' = promise
  BY <1>1, PromiseIs DEF Handle
<1>4. request'.cmd = cmd /\ request'.item = item /\ request'.value = value
  BY <1>3
<1>5. Owed' BY <1>4 DEF Owed, Setters
<1>6. Told' BY <1>3, <1>4 DEF Told
<1> QED BY <1>1, <1>2, <1>5, <1>6, PlanReply, HandleKeeps

-----------------------------------------------------------------------------
(* Each command keeps SettingsInv. *)

LEMMA ReadVerKeeps == ASSUME SettingsInv, ReadVer PROVE SettingsInv'
<1> DEFINE value == VersionBytes(jsonroot.ver)
<1>1. Asks("readver", "ver", value) BY DEF ReadVer
<1>2. promise["ver"] # Unset => value = promise["ver"]
  BY DEF SettingsInv, Keeps
<1> HIDE DEF value
<1> QED BY <1>1, <1>2, AsksKeeps DEF Setters

LEMMA GetIpandportKeeps == ASSUME SettingsInv, GetIpandport PROVE SettingsInv'
<1>1. Asks("getaddress", "address", jsonroot.address) BY DEF GetIpandport
<1>2. promise["address"] # Unset => jsonroot.address = promise["address"]
  BY DEF SettingsInv, Keeps
<1> QED BY <1>1, <1>2, AsksKeeps DEF Setters

LEMMA IgnoredKeeps == ASSUME SettingsInv, Ignored PROVE SettingsInv'
<1>1. Asks("ignored", "none", Unset) BY DEF Ignored
<1> QED BY <1>1, AsksKeeps DEF Setters, Readers

LEMMA ReadLimitsKeeps ==
  ASSUME SettingsInv, NEW c \in Collectors, NEW absent, ReadLimits(c, absent)
  PROVE  SettingsInv'
<1> DEFINE d == Find(jsonroot, c)
           value == <<d.limits, d.light>>
<1>1. \/ Has(jsonroot, c) /\ Asks("getmenxian", c, value)
      \/ Asks("getmenxian", "none", absent)
      \/ Crash("getmenxian", c)
  BY DEF ReadLimits
<1>2. value[1] = d.limits OBVIOUS
<1> HIDE DEF value
<1>3. CASE Has(jsonroot, c) /\ Asks("getmenxian", c, value)
  <2>1. todo = <<>> BY <1>3 DEF Asks, Handle
  <2>2. promise[c] # Unset => value[1] = promise[c][1] BY <1>2, <2>1, KeptNow
  <2> QED BY <1>3, <2>2, AsksKeeps DEF Setters
<1>4. CASE Asks("getmenxian", "none", absent)
  BY <1>4, ItemsAre, AsksKeeps DEF Setters
<1>5. CASE Crash("getmenxian", c) BY <1>5, CrashKeeps
<1> QED BY <1>1, <1>3, <1>4, <1>5

LEMMA GetMenxianKeeps ==
  ASSUME SettingsInv, NEW c \in Collectors, GetMenxian(c) \/ GetMenxianV3(c)
  PROVE  SettingsInv'
<1>1. \E absent \in {<<0, 0>>, <<>>} : ReadLimits(c, absent)
  BY DEF GetMenxian, GetMenxianV3
<1> QED BY <1>1, ReadLimitsKeeps

LEMMA GetDpinfoKeeps ==
  ASSUME SettingsInv, NEW c \in Collectors, GetDpinfo(c) PROVE SettingsInv'
<1> DEFINE value == <<Find(jsonroot, c).info>>
<1>1. Asks("getdpinfo", "none", value) \/ Crash("getdpinfo", c) BY DEF GetDpinfo
<1> HIDE DEF value
<1>2. CASE Asks("getdpinfo", "none", value)
  BY <1>2, AsksKeeps DEF Setters, Readers
<1> QED BY <1>1, <1>2, CrashKeeps

LEMMA SetVerKeeps ==
  ASSUME SettingsInv, NEW v \in Versions, SetVer(v) PROVE SettingsInv'
<1> DEFINE steps == Save \o Reply
<1>1. /\ Handle("setver", "ver", v, steps)
      /\ jsonroot' = [jsonroot EXCEPT !.ver = Version(v)]
  BY DEF SetVer
<1>2. Plan(steps) /\ In("print", steps) /\ steps # <<>> BY PlanSave
<1>3. v \in (0..255) \X (0..255) BY SettingsAssumption
<1>4. Sound(jsonroot) /\ Keeps(jsonroot) /\ jsonroot \in Tree
  BY DEF SettingsInv, TypeOK, Sound
<1>5. /\ jsonroot' \in Tree /\ jsonroot'.ver = Version(v)
      /\ jsonroot'.collector = jsonroot.collector
      /\ jsonroot'.address = jsonroot.address
  BY <1>1, <1>3, <1>4, WordsFit DEF Tree
<1>6. Sound(jsonroot') BY <1>4, <1>5 DEF Sound, Version
<1>7. /\ request'.cmd = "setver" /\ request'.item = "ver" /\ request'.value = v
      /\ todo = <<>>
  BY <1>1 DEF Handle
<1>8. promise'["ver"] = Unset
        /\ \A x \in Items : promise'[x] = promise[x] \/ promise'[x] = Unset
  BY <1>1, PromiseIs, ItemsAre DEF Setters
<1> HIDE DEF steps
<1>9. KeepsNext(jsonroot')
  <2>1. \A c, l : LimitsAre(jsonroot, c, l) => LimitsAre(jsonroot', c, l)
    BY <1>5 DEF LimitsAre
  <2> QED BY <1>4, <1>5, <1>7, <1>8, <2>1, KeepStep
<1>10. Owed'
  <2>1. v \in Nat \X Nat BY <1>3
  <2>2. Promised(request)' # Unset => v[2] < 100 BY <1>7 DEF Promised
  <2>3. v[2] < 100 => VersionBytes(jsonroot'.ver) = v
    BY <1>3, <1>5, VersionReadBack
  <2> QED BY <1>7, <2>1, <2>2, <2>3 DEF Owed
<1>11. Told' BY <1>7 DEF Told, Readers
<1> QED BY <1>1, <1>2, <1>6, <1>9, <1>10, <1>11, HandleKeeps

LEMMA SetIpandportKeeps ==
  ASSUME SettingsInv, NEW kind \in {0, 4, 6}, SetIpandport(kind)
  PROVE  SettingsInv'
<1> DEFINE steps == Save \o Reply
           value == <<kind, sent + 1>>
<1>1. \/ /\ kind \in {4, 6} /\ Handle("setaddress", "address", value, steps)
         /\ jsonroot' = [jsonroot EXCEPT !.address = value]
      \/ Crash("setaddress", "address")
  BY DEF SetIpandport
<1>2. CASE Crash("setaddress", "address") BY <1>2, CrashKeeps
<1>3. CASE /\ kind \in {4, 6} /\ Handle("setaddress", "address", value, steps)
           /\ jsonroot' = [jsonroot EXCEPT !.address = value]
  <2>1. Plan(steps) /\ In("print", steps) /\ steps # <<>> BY PlanSave
  <2>2. Sound(jsonroot) /\ Keeps(jsonroot) /\ jsonroot \in Tree
    BY DEF SettingsInv, TypeOK, Sound
  <2>3. sent + 1 \in Revision /\ value \in Address /\ value \in Nat \X Nat
    <3>1. sent + 1 \in Revision /\ Revision \subseteq Nat
      BY <1>3, SettingsAssumption DEF Handle, Revision, SettingsInv, TypeOK
    <3> QED BY <1>3, <3>1 DEF Address
  <2>4. /\ request'.cmd = "setaddress" /\ request'.item = "address"
        /\ request'.value = value /\ todo = <<>>
    BY <1>3 DEF Handle
  <2> HIDE DEF value, steps
  <2>5. /\ jsonroot' \in Tree /\ jsonroot'.address = value
        /\ jsonroot'.collector = jsonroot.collector
        /\ jsonroot'.ver = jsonroot.ver
    BY <1>3, <2>2, <2>3 DEF Tree
  <2>6. Sound(jsonroot') BY <2>2, <2>5 DEF Sound
  <2>7. promise'["address"] = Unset
          /\ \A x \in Items : promise'[x] = promise[x] \/ promise'[x] = Unset
    BY <1>3, PromiseIs, ItemsAre DEF Setters
  <2>8. KeepsNext(jsonroot')
    <3>1. \A c, l : LimitsAre(jsonroot, c, l) => LimitsAre(jsonroot', c, l)
      BY <2>5 DEF LimitsAre
    <3> QED BY <2>2, <2>4, <2>5, <2>7, <3>1, KeepStep
  <2>9. Owed' BY <2>3, <2>4, <2>5 DEF Owed
  <2>10. Told' BY <2>4 DEF Told, Readers
  <2> QED BY <1>3, <2>1, <2>6, <2>8, <2>9, <2>10, HandleKeeps
<1> QED BY <1>1, <1>2, <1>3

LEMMA SetMenxianKeeps ==
  ASSUME SettingsInv, NEW c \in Collectors, NEW w \in Lights, SetMenxian(c, w)
  PROVE  SettingsInv'
<1> DEFINE stray == IF Find(jsonroot, c).stray = Unset THEN FirstWord(w) ELSE Word(w)
           value == <<sent + 1, Word(w)>>
           changed == WithLimits(jsonroot, c, sent + 1, stray)
<1>1. \/ /\ Has(jsonroot, c) /\ jsonroot' = changed
         /\ Handle("setmenxian", c, value, MenxianSteps)
      \/ /\ jsonroot' = jsonroot
         /\ Handle("setmenxian", "none", Unset, MenxianSteps)
      \/ Crash("setmenxian", c)
  BY DEF SetMenxian, WithLimits
<1>2. Plan(MenxianSteps) /\ In("print", MenxianSteps) /\ MenxianSteps # <<>>
  BY PlanSave DEF MenxianSteps
<1>3. CASE Crash("setmenxian", c) BY <1>3, CrashKeeps
<1>4. CASE /\ jsonroot' = jsonroot
           /\ Handle("setmenxian", "none", Unset, MenxianSteps)
  <2>1. request'.cmd = "setmenxian" /\ request'.item = "none"
    BY <1>4 DEF Handle
  <2>2. Sound(jsonroot') /\ KeepsNext(jsonroot') BY <1>4, SameTree
  <2>3. Owed' BY <2>1, ItemsAre DEF Owed
  <2>4. Told' BY <2>1 DEF Told, Readers
  <2> QED BY <1>2, <1>4, <2>2, <2>3, <2>4, HandleKeeps
<1>5. CASE /\ Has(jsonroot, c) /\ jsonroot' = changed
           /\ Handle("setmenxian", c, value, MenxianSteps)
  <2>1. Sound(jsonroot) /\ Keeps(jsonroot) BY DEF SettingsInv, TypeOK
  <2>2. sent + 1 \in Revision /\ sent + 1 \in Nat
    BY <1>5, SettingsAssumption DEF Handle, Revision, SettingsInv, TypeOK
  <2>3. w \in (0..255) \X (0..255) BY SettingsAssumption
  <2>4. stray \in Words /\ Word(w) \in Nat
    <3>1. Word(w) \in Words /\ FirstWord(w) \in Words BY <2>3, WordsFit
    <3>2. \A n \in Words : n \in Nat BY DEF Words
    <3> QED BY <3>1, <3>2
  <2>5. /\ request'.cmd = "setmenxian" /\ request'.item = c
        /\ request'.value = value /\ request'.rev = sent + 1
        /\ todo = <<>> /\ todo' # <<>>
    BY <1>2, <1>5 DEF Handle
  <2>6. value \in Nat \X Nat /\ value[1] = sent + 1 BY <2>2, <2>4
  <2> HIDE DEF stray, value
  <2>7. /\ Sound(jsonroot')
        /\ jsonroot'.ver = jsonroot.ver /\ jsonroot'.address = jsonroot.address
        /\ LimitsAre(jsonroot', c, sent + 1)
        /\ \A d, k : d # c /\ LimitsAre(jsonroot, d, k) =>
             LimitsAre(jsonroot', d, k)
    BY <1>5, <2>1, <2>2, <2>4, LimitsSet
  <2> HIDE DEF changed
  <2>8. KeepsNext(jsonroot')
    <3>1. \A x \in Items : promise'[x] = promise[x] \/ promise'[x] = Unset
      BY <1>5, PromiseIs
    <3>2. ASSUME NEW d \in Collectors
          PROVE  \/ \A l : LimitsAre(jsonroot, d, l) => LimitsAre(jsonroot', d, l)
                 \/ /\ request'.cmd = "setmenxian" /\ todo' # <<>>
                    /\ request'.item = d /\ LimitsAre(jsonroot', d, request'.rev)
      BY <2>5, <2>7
    <3> QED BY <2>1, <2>5, <2>7, <3>1, <3>2, KeepStep
  <2>9. Owed' BY <2>5, <2>6, <2>7, ItemsAre DEF Owed
  <2>10. Told' BY <2>5 DEF Told, Readers
  <2> QED BY <1>2, <1>5, <2>7, <2>8, <2>9, <2>10, HandleKeeps
<1> QED BY <1>1, <1>3, <1>4, <1>5

(* A command that replaces or deletes a collector withdraws its promise. *)
LEMMA CollectorKeeps ==
  ASSUME SettingsInv, NEW cmd \in {"setdpinfo", "deldpinfo"},
         NEW c \in Collectors, NEW steps, Handle(cmd, c, Unset, steps),
         Plan(steps), In("print", steps), Sound(jsonroot'),
         jsonroot'.ver = jsonroot.ver, jsonroot'.address = jsonroot.address,
         \A d, k : d # c /\ LimitsAre(jsonroot, d, k) => LimitsAre(jsonroot', d, k)
  PROVE  SettingsInv'
<1>1. request'.cmd = cmd /\ todo = <<>> BY DEF Handle
<1>2. promise'[c] = Unset
        /\ \A x \in Items : promise'[x] = promise[x] \/ promise'[x] = Unset
  BY PromiseIs, ItemsAre DEF Setters
<1>3. Keeps(jsonroot) BY DEF SettingsInv
<1>4. KeepsNext(jsonroot')
  <2>1. \A d \in Collectors :
          \/ promise'[d] = Unset
          \/ \A l : LimitsAre(jsonroot, d, l) => LimitsAre(jsonroot', d, l)
    BY <1>2
  <2> QED BY <1>1, <1>2, <1>3, <2>1, KeepStep
<1>5. Owed' /\ Told' BY <1>1 DEF Owed, Told, Readers
<1> QED BY <1>4, <1>5, HandleKeeps

LEMMA SetDpinfoKeeps ==
  ASSUME SettingsInv, NEW c \in Collectors, SetDpinfo(c) PROVE SettingsInv'
<1> DEFINE d == [a2 |-> c, info |-> sent + 1, limits |-> Unset, light |-> Unset,
                 stray |-> Unset]
           steps == <<"share">> \o Save \o Reply
<1>1. /\ jsonroot' = WithCollectors(jsonroot, Put(jsonroot.collector, d))
      /\ Handle("setdpinfo", c, Unset, steps)
  BY DEF SetDpinfo, WithCollectors
<1>2. Plan(steps) /\ In("print", steps) BY PlanShareSave
<1>3. d \in Collector
  <2>1. sent + 1 \in Revision
    BY <1>1, SettingsAssumption DEF Handle, Revision, SettingsInv, TypeOK
  <2> QED BY <2>1 DEF Collector
<1>4. d.a2 = c OBVIOUS
<1> HIDE DEF d, steps
<1>5. /\ Sound(jsonroot')
      /\ jsonroot'.ver = jsonroot.ver /\ jsonroot'.address = jsonroot.address
      /\ \A e, k : e # c /\ LimitsAre(jsonroot, e, k) => LimitsAre(jsonroot', e, k)
  <2>1. Sound(jsonroot) BY DEF SettingsInv, TypeOK
  <2> QED BY <1>1, <1>3, <1>4, <2>1, CollectorSet
<1> QED BY <1>1, <1>2, <1>5, CollectorKeeps

LEMMA DelDpinfoKeeps ==
  ASSUME SettingsInv, NEW c \in Collectors, DelDpinfo(c) PROVE SettingsInv'
<1> DEFINE steps == Save \o <<"share">> \o Reply
<1>1. /\ jsonroot' = WithCollectors(jsonroot, Drop(jsonroot.collector, c))
      /\ Handle("deldpinfo", c, Unset, steps)
  BY DEF DelDpinfo, WithCollectors
<1>2. Plan(steps) /\ In("print", steps) BY PlanShareSave
<1> HIDE DEF steps
<1>3. /\ Sound(jsonroot')
      /\ jsonroot'.ver = jsonroot.ver /\ jsonroot'.address = jsonroot.address
      /\ \A e, k : e # c /\ LimitsAre(jsonroot, e, k) => LimitsAre(jsonroot', e, k)
  <2>1. Sound(jsonroot) BY DEF SettingsInv, TypeOK
  <2> QED BY <1>1, <2>1, CollectorDropped
<1> QED BY <1>1, <1>2, <1>3, CollectorKeeps

-----------------------------------------------------------------------------
(* Each step of a command keeps SettingsInv. *)

LEMMA StepIs ==
  ASSUME SettingsInv, NEW s, Step(s)
  PROVE  /\ alive /\ todo # <<>> /\ Plan(todo')
         /\ \A t : In(t, todo) <=> t = s \/ In(t, todo')
         /\ s = "truncate" => In("print", todo')
         /\ s = "reply" <=> todo' = <<>>
<1>1. alive /\ todo # <<>> /\ Head(todo) = s /\ todo' = Tail(todo) BY DEF Step
<1>2. Plan(todo) BY DEF SettingsInv
<1> QED BY <1>1, <1>2, PlanTail

LEMMA StepKeeps ==
  ASSUME SettingsInv, NEW s, Step(s), s # "reply",
         UNCHANGED <<jsonroot, request, alive, sent, restarts, promise>>,
         \/ config' = Torn /\ s = "truncate"
         \/ config' = jsonroot
         \/ config' = config /\ s = "share"
  PROVE  SettingsInv'
<1>1. /\ alive /\ todo # <<>> /\ todo' # <<>> /\ Plan(todo')
      /\ \A t : In(t, todo) <=> t = s \/ In(t, todo')
      /\ s = "truncate" => In("print", todo')
  BY StepIs
<1>2. Sound(jsonroot) /\ Keeps(jsonroot) /\ jsonroot \in Tree
  BY DEF SettingsInv, TypeOK, Sound
<1>3. \A c : Setting(c)' <=> Setting(c) BY <1>1 DEF Setting
<1>4. TypeOK' BY <1>1, <1>2 DEF SettingsInv, TypeOK, Plan, Steps
<1>5. Keeps(jsonroot)' BY <1>2, <1>3 DEF Keeps
<1>6. (config # Torn => Sound(config) /\ Keeps(config))'
  <2>1. CASE config' = Torn BY <2>1
  <2>2. CASE config' = jsonroot BY <1>2, <1>3, <2>2 DEF Keeps
  <2>3. CASE config' = config BY <1>3, <2>3 DEF SettingsInv, Keeps
  <2> QED BY <2>1, <2>2, <2>3
<1>7. (alive /\ ~In("print", todo) => config = jsonroot)'
  <2>1. CASE s = "truncate" BY <1>1, <2>1
  <2>2. CASE config' = jsonroot BY <2>2
  <2>3. CASE config' = config /\ s = "share"
    <3>1. In("print", todo) <=> In("print", todo') BY <1>1, <2>3
    <3> QED BY <2>3, <3>1 DEF SettingsInv
  <2> QED BY <2>1, <2>2, <2>3
<1>8. (todo # <<>> => Owed /\ Told)' BY <1>1 DEF SettingsInv, Owed, Told, Promised
<1> QED BY <1>1, <1>4, <1>5, <1>6, <1>7, <1>8 DEF SettingsInv

LEMMA TruncateKeeps == ASSUME SettingsInv, Truncate PROVE SettingsInv'
BY StepKeeps DEF Truncate

LEMMA WriteTreeKeeps == ASSUME SettingsInv, WriteTree PROVE SettingsInv'
BY StepKeeps DEF WriteTree

LEMMA EditShareKeeps == ASSUME SettingsInv, EditShare PROVE SettingsInv'
BY StepKeeps DEF EditShare

(* Only these commands promise anything with their answer. *)
LEMMA PromisedIs ==
  ASSUME NEW r, Promised(r) # Unset
  PROVE  /\ Promised(r) = r.value
         /\ r.cmd = "setver" \/ r.cmd = "setaddress" \/ r.cmd = "setmenxian"
BY DEF Promised

(* The answer makes a promise that memory keeps, and the file is a print   *)
(* of it.                                                                  *)
LEMMA RespondKeeps == ASSUME SettingsInv, Respond PROVE SettingsInv'
<1>1. /\ Step("reply")
      /\ UNCHANGED <<jsonroot, config, request, alive, sent, restarts>>
      /\ promise' = IF request.item \in Items /\ Promised(request) # Unset
                    THEN [promise EXCEPT ![request.item] = Promised(request)]
                    ELSE promise
  BY DEF Respond
<1>2. /\ alive /\ todo # <<>> /\ Plan(todo') /\ todo' = <<>>
      /\ \A t : In(t, todo) <=> t = "reply" \/ In(t, todo')
  BY <1>1, StepIs
<1>3. config = jsonroot
  <2>1. ~In("print", todo) BY <1>2, PlanNothing
  <2> QED BY <1>2, <2>1 DEF SettingsInv
<1>4. Owed /\ Keeps(jsonroot) /\ promise \in [Items -> Values]
  BY <1>2 DEF SettingsInv, Values
<1>5. TypeOK' BY <1>1, <1>2 DEF SettingsInv, TypeOK, Plan, Steps
<1>6. Sound(jsonroot) BY DEF SettingsInv, TypeOK
<1>7. promise' \in [Items -> Values] /\ Keeps(jsonroot)'
  <2>1. CASE request.item \in Items /\ Promised(request) # Unset
    <3>1. promise' = [promise EXCEPT ![request.item] = request.value]
      BY <1>1, <2>1, PromisedIs
    <3>2. \/ /\ request.cmd = "setver" /\ request.item = "ver"
             /\ VersionBytes(jsonroot.ver) = request.value
          \/ /\ request.cmd = "setaddress" /\ request.item = "address"
             /\ jsonroot.address = request.value
          \/ /\ request.cmd = "setmenxian" /\ request.item \in Collectors
             /\ LimitsAre(jsonroot, request.item, request.value[1])
      BY <1>4, <2>1, PromisedIs DEF Owed
    <3>3. request.value \in Nat \X Nat BY <1>4, <2>1, PromisedIs DEF Owed
    <3>4. promise' \in [Items -> Values] BY <1>4, <3>1, <3>3 DEF Values
    <3>5. \A x \in Items : promise'[x] = IF x = request.item THEN request.value
                                         ELSE promise[x]
      BY <1>4, <3>1
    <3>6. (promise["ver"] # Unset => VersionBytes(jsonroot.ver) = promise["ver"])'
      BY <1>1, <1>4, <3>2, <3>5, ItemsAre DEF Keeps
    <3>7. (promise["address"] # Unset => jsonroot.address = promise["address"])'
      BY <1>1, <1>4, <3>2, <3>5, ItemsAre DEF Keeps
    <3>8. ASSUME NEW c \in Collectors, promise'[c] # Unset
          PROVE  LimitsAre(jsonroot, c, promise'[c][1])
      <4>1. CASE c = request.item BY <3>2, <3>5, <4>1, ItemsAre
      <4>2. CASE c # request.item
        <5>1. promise'[c] = promise[c] BY <3>5, <4>2, ItemsAre
        <5> QED BY <1>4, <3>8, <4>2, <5>1 DEF Keeps, Setting
      <4> QED BY <4>1, <4>2
    <3> QED BY <1>1, <3>4, <3>6, <3>7, <3>8 DEF Keeps
  <2>2. CASE ~(request.item \in Items /\ Promised(request) # Unset)
    <3>1. promise' = promise BY <1>1, <2>2
    <3>2. \A c \in Collectors : ~Setting(c)
      <4>1. SUFFICES ASSUME NEW c \in Collectors, Setting(c) PROVE FALSE
        OBVIOUS
      <4>2. request.cmd = "setmenxian" /\ request.item = c BY <4>1 DEF Setting
      <4>3. request.value \in Nat \X Nat BY <1>4, <4>2, ItemsAre DEF Owed
      <4>4. Promised(request) = request.value BY <4>2 DEF Promised
      <4> QED BY <2>2, <4>2, <4>3, <4>4, ItemsAre, SettingsAssumption
    <3> QED BY <1>1, <1>4, <3>1, <3>2 DEF Keeps
  <2> QED BY <2>1, <2>2
<1>8. (config # Torn => Sound(config) /\ Keeps(config))'
  BY <1>1, <1>3, <1>6, <1>7 DEF Keeps
<1> QED BY <1>1, <1>2, <1>3, <1>5, <1>7, <1>8 DEF SettingsInv, Values

LEMMA ControlReadsKeeps ==
  ASSUME SettingsInv, NEW c \in Collectors, ControlReads(c) PROVE SettingsInv'
<1>1. UNCHANGED <<jsonroot, config, request, todo, alive, sent, restarts, promise>>
  BY DEF ControlReads
<1> QED BY <1>1 DEF SettingsInv, TypeOK, Keeps, Setting, Owed, Told, Promised

LEMMA DefaultIs == Sound(Default)
<1>1. <<4, 0>> \in Address BY SettingsAssumption DEF Address, Revision
<1>2. /\ Default \in Tree /\ Default.ver = 104 /\ Default.collector = <<>>
  BY <1>1 DEF Default, Tree
<1> QED BY <1>2 DEF Sound, Unique

(* Without promises there is nothing to keep. *)
LEMMA NoPromiseIs ==
  /\ NoPromise \in [Items -> Values]
  /\ \A x \in Items : NoPromise[x] = Unset
BY DEF NoPromise, Values

(* Power is lost: what was promised for the item of the command under way  *)
(* is in doubt, the rest is in the file.                                   *)
LEMMA RestartKeeps == ASSUME SettingsInv, Restart PROVE SettingsInv'
<1>1. /\ jsonroot' = IF config = Torn THEN Default ELSE config
      /\ config' = jsonroot' /\ alive' = TRUE /\ todo' = <<>> /\ sent' = sent
      /\ promise' = IF config = Torn THEN NoPromise
                    ELSE [x \in Items |-> IF todo # <<>> /\ x = request.item
                                          THEN Unset ELSE promise[x]]
  BY DEF Restart
<1>2. restarts' \in 0..MaxRestarts
  BY SettingsAssumption DEF Restart, SettingsInv, TypeOK
<1>3. Sound(jsonroot') BY <1>1, DefaultIs DEF SettingsInv
<1>4. Plan(todo') BY <1>1, PlanNothing
<1>5. TypeOK'
  BY <1>1, <1>2, <1>3, <1>4 DEF SettingsInv, TypeOK, Plan, Steps, Sound
<1>6. promise' \in [Items -> Values] /\ KeepsNext(jsonroot')
  <2>1. promise \in [Items -> Values] /\ Unset \in Values
    BY DEF SettingsInv, Values
  <2>2. CASE config = Torn
    <3>1. promise' = NoPromise BY <1>1, <2>2
    <3> QED BY <3>1, NoPromiseIs, ItemsAre DEF KeepsNext
  <2>3. CASE config # Torn
    <3>1. Keeps(config) /\ jsonroot' = config BY <1>1, <2>3 DEF SettingsInv
    <3>2. /\ promise' \in [Items -> Values]
          /\ \A x \in Items : promise'[x] = promise[x] \/ promise'[x] = Unset
          /\ todo # <<>> /\ request.item \in Items => promise'[request.item] = Unset
      BY <1>1, <2>1, <2>3
    <3>3. ASSUME NEW c \in Collectors, promise'[c] # Unset
          PROVE  LimitsAre(config, c, promise'[c][1])
      <4>1. promise'[c] = promise[c] BY <3>2, <3>3, ItemsAre
      <4>2. ~Setting(c) BY <3>2, <3>3, ItemsAre DEF Setting
      <4> QED BY <3>1, <3>3, <4>1, <4>2 DEF Keeps
    <3>4. promise'["ver"] # Unset => VersionBytes(config.ver) = promise'["ver"]
      BY <3>1, <3>2, ItemsAre DEF Keeps
    <3>5. promise'["address"] # Unset => config.address = promise'["address"]
      BY <3>1, <3>2, ItemsAre DEF Keeps
    <3> QED BY <3>1, <3>2, <3>3, <3>4, <3>5 DEF KeepsNext
  <2> QED BY <2>2, <2>3
<1>7. Keeps(jsonroot)' /\ (config # Torn => Sound(config) /\ Keeps(config))'
  BY <1>1, <1>3, <1>6 DEF Keeps, KeepsNext, Setting
<1> QED BY <1>1, <1>4, <1>5, <1>6, <1>7 DEF SettingsInv, Values

LEMMA SettingsInit == Init => SettingsInv
<1>1. SUFFICES ASSUME Init PROVE SettingsInv OBVIOUS
<1>2. Sound(jsonroot) BY <1>1, DefaultIs, TreeAssumption DEF Init
<1>3. config = jsonroot /\ todo = <<>> /\ promise = NoPromise BY <1>1 DEF Init
<1>4. Plan(todo) BY <1>3, PlanNothing
<1>5. TypeOK
  <2>1. sent \in 0..MaxCommands /\ restarts \in 0..MaxRestarts
    BY <1>1, SettingsAssumption DEF Init
  <2> QED BY <1>2, <1>3, <1>4, <2>1 DEF TypeOK, Plan, Steps, Sound
<1>6. Keeps(jsonroot) /\ promise \in [Items -> Values]
  BY <1>3, NoPromiseIs, ItemsAre DEF Keeps
<1> QED BY <1>2, <1>3, <1>4, <1>5, <1>6 DEF SettingsInv, Values

LEMMA SettingsStep == SettingsInv /\ [Next]_vars => SettingsInv'
<1>1. SUFFICES ASSUME SettingsInv, [Next]_vars PROVE SettingsInv' OBVIOUS
<1>2. CASE Command
  BY <1>1, <1>2, ReadVerKeeps, GetIpandportKeeps, IgnoredKeeps, SetVerKeeps,
     SetIpandportKeeps, SetMenxianKeeps, GetMenxianKeeps, SetDpinfoKeeps,
     GetDpinfoKeeps, DelDpinfoKeeps
  DEF Command
<1>3. CASE Truncate \/ WriteTree \/ EditShare
  BY <1>1, <1>3, TruncateKeeps, WriteTreeKeeps, EditShareKeeps
<1>4. CASE Respond BY <1>1, <1>4, RespondKeeps
<1>5. CASE \E c \in Collectors : ControlReads(c) BY <1>1, <1>5, ControlReadsKeeps
<1>6. CASE Restart BY <1>1, <1>6, RestartKeeps
<1>7. CASE UNCHANGED vars
  BY <1>1, <1>7
  DEF vars, SettingsInv, TypeOK, Keeps, Setting, Owed, Told, Promised
<1> QED BY <1>1, <1>2, <1>3, <1>4, <1>5, <1>6, <1>7 DEF Next

LEMMA InvKept == SettingsInv => SettingsKept
<1>1. SUFFICES ASSUME SettingsInv PROVE SettingsKept OBVIOUS
<1>2. TypeOK BY <1>1 DEF SettingsInv
<1>3. PromisesHold
  <2>1. SUFFICES ASSUME alive, todo = <<>> PROVE Holds(jsonroot) /\ Holds(config)
    BY DEF PromisesHold
  <2>2. config = jsonroot BY <1>1, <2>1, PlanNothing DEF SettingsInv
  <2>3. \A c \in Collectors : promise[c] # Unset =>
          Has(jsonroot, c) /\ Find(jsonroot, c).limits = promise[c][1]
    BY <1>1, <2>1, KeptNow
  <2> QED BY <1>1, <2>2, <2>3 DEF SettingsInv, Keeps, Holds
<1> QED BY <1>2, <1>3 DEF SettingsKept

-----------------------------------------------------------------------------
(* Between two commands the thresholds, the version and the address the    *)
(* web was last told are set are those in memory and in the file, whatever *)
(* commands and power cuts came before (Recv_Function, SaveJsonToFile).    *)
THEOREM SettingsAreKept == Spec => []SettingsKept
<1>1. Spec => []SettingsInv BY SettingsInit, SettingsStep, PTL DEF Spec
<1> QED BY <1>1, InvKept, PTL

(* What the automatic control reads of a collector in the file, at any     *)
(* moment of a command, is what the web was last told or what the command  *)
(* is about to answer (Get_Collecter_id), and a command that reads answers *)
(* what the web was last told (Recv_Function).                             *)
THEOREM SettingsAreSeen == Spec => SettingsSeen
<1>1. Spec => []SettingsInv BY SettingsInit, SettingsStep, PTL DEF Spec
<1> DEFINE Current ==
             LET c == rule'.of IN
             (rule' # rule /\ c \in Collectors /\ promise[c] # Unset) =>
               \/ rule'.limits = promise[c][1]
               \/ todo # <<>> /\ request.item = c /\ rule'.limits = request.rev
           Answers ==
             (answer'.rev # answer.rev /\ answer'.cmd \in Readers
                /\ answer'.item \in Items /\ promise[answer'.item] # Unset) =>
               IF answer'.cmd = "getmenxian"
               THEN answer'.value[1] = promise[answer'.item][1]
               ELSE answer'.value = promise[answer'.item]
<1>2. ASSUME SettingsInv, [Next]_vars PROVE Current
  <2>1. SUFFICES ASSUME NEW c, c = rule'.of, rule' # rule, c \in Collectors,
                        promise[c] # Unset
                 PROVE  \/ rule'.limits = promise[c][1]
                        \/ /\ todo # <<>> /\ request.item = c
                           /\ rule'.limits = request.rev
    OBVIOUS
  <2>2. \/ \E d \in Collectors : ControlReads(d)
        \/ rule' = [of |-> "none", limits |-> Unset]
    BY <1>2, <2>1 DEF Next, vars, Command, ReadVer, GetIpandport, Ignored, SetVer,
       SetIpandport, SetMenxian, GetMenxian, GetMenxianV3, ReadLimits, SetDpinfo,
       GetDpinfo, DelDpinfo, Asks, Crash, Handle, Truncate, WriteTree, EditShare,
       Respond, Restart
  <2>3. rule' # [of |-> "none", limits |-> Unset] BY <2>1, SettingsAssumption
  <2>4. /\ config # Torn /\ Has(config, c)
        /\ rule'.limits = Find(config, c).limits
    BY <2>1, <2>2, <2>3 DEF ControlReads
  <2>5. Unique(config.collector) /\ Keeps(config)
    BY <1>2, <2>4 DEF SettingsInv, Sound
  <2>6. \/ LimitsAre(config, c, promise[c][1])
        \/ Setting(c) /\ LimitsAre(config, c, request.rev)
    BY <2>1, <2>5 DEF Keeps
  <2>7. \A l : LimitsAre(config, c, l) => rule'.limits = l
    BY <2>4, <2>5, FindIs
  <2> QED BY <2>6, <2>7 DEF Setting
<1>3. ASSUME SettingsInv, [Next]_vars PROVE Answers
  <2>1. SUFFICES ASSUME answer'.rev # answer.rev, answer'.cmd \in Readers,
                        answer'.item \in Items, promise[answer'.item] # Unset
                 PROVE  IF answer'.cmd = "getmenxian"
                        THEN answer'.value[1] = promise[answer'.item][1]
                        ELSE answer'.value = promise[answer'.item]
    OBVIOUS
  <2>2. Respond
    BY <1>3, <2>1 DEF Next, vars, Command, ReadVer, GetIpandport, Ignored, SetVer,
       SetIpandport, SetMenxian, GetMenxian, GetMenxianV3, ReadLimits, SetDpinfo,
       GetDpinfo, DelDpinfo, Asks, Crash, Handle, Truncate, WriteTree, EditShare,
       ControlReads, Restart
  <2>3. answer' = request /\ todo # <<>> BY <2>2 DEF Respond, Step
  <2>4. Told BY <1>3, <2>3 DEF SettingsInv
  <2> QED BY <2>1, <2>3, <2>4 DEF Told
<1>4. ControlUpToDate <=> [][Current]_vars BY DEF ControlUpToDate
<1>5. ReadsBack <=> [][Answers]_vars BY DEF ReadsBack
<1> HIDE DEF Current, Answers
<1>6. Spec => [][Current]_vars /\ [][Answers]_vars BY <1>1, <1>2, <1>3, PTL DEF Spec
<1> QED BY <1>4, <1>5, <1>6 DEF SettingsSeen

=============================================================================
