-------------------------- MODULE ConfigStoreProofs --------------------------
(***************************************************************************)
(* ConfigStore keeps the configuration sound, for every set of boxes and   *)
(* devices, every number of commands and power cycles and every archive.   *)
(*                                                                         *)
(* The properties say nothing about the steps a command has yet to do, so  *)
(* they are not inductive.  StoreInv adds what the lists of steps promise: *)
(* a file that is truncated will be printed, a change in memory too, an    *)
(* answer comes last, and what a deletion is about to be answered for is   *)
(* no longer in memory.                                                    *)
(***************************************************************************)
EXTENDS ConfigStore, SequenceTheorems, TLAPS

Codes == {"success", "notfound", "notxml"}
Steps == {"truncate", "print", "shareadd", "sharedel", "replaceself"} \union Codes

(* Lists of steps. *)
In(s, q) == \E i \in DOMAIN q : q[i] = s
Paired(q) == \A i \in DOMAIN q :
               q[i] = "truncate" => i + 1 \in DOMAIN q /\ q[i + 1] = "print"
CodesLast(q) == \A i \in DOMAIN q : q[i] \in Codes => i = Len(q)
NoCode(q) == \A i \in DOMAIN q : q[i] \notin Codes

(* Of a tree: there is such a device, whatever At returns. *)
Listed(tree, b, x) ==
  \E k \in DOMAIN tree : tree[k].id = b /\ x \in Ids(tree[k].dev)

Promises ==
  /\ Paired(todo) /\ CodesLast(todo)
  /\ alive /\ ~In("print", todo) => config \in Printed
  /\ In("shareadd", todo) => request.box \in Boxes
  /\ In("success", todo) /\ request.cmd = "delv3" =>
       /\ <<request.box, request.dev>> \in Boxes \X Devs
       /\ ~Listed(jsonroot, request.box, request.dev)
  /\ In("success", todo) /\ request.cmd = "del" =>
       request.box \in Boxes /\ request.box \notin Ids(jsonroot)

Forgotten(tree) == \A g \in gone : ~Listed(tree, g[1], g[2])

StoreInv ==
  /\ TypeOK /\ UniqueIds
  /\ config # Torn => UniqueTree(config) /\ Forgotten(config)
  /\ Forgotten(jsonroot)
  /\ Promises

-----------------------------------------------------------------------------
(* Arrays. *)

(* With unique ids a search finds the one entry. *)
LEMMA AtIs ==
  ASSUME NEW S, NEW q \in Seq(S), Unique(q), NEW x \in Ids(q)
  PROVE  /\ At(q, x) \in DOMAIN q /\ q[At(q, x)].id = x
         /\ \A k \in DOMAIN q : q[k].id = x => k = At(q, x)
<1> DEFINE First(i) == q[i].id = x /\ \A j \in 1..(i - 1) : q[j].id # x
<1>1. Len(q) \in Nat /\ DOMAIN q = 1..Len(q) BY LenProperties
<1>2. PICK i \in DOMAIN q : q[i].id = x BY DEF Ids
<1>3. ASSUME NEW j \in 1..(i - 1) PROVE q[j].id # x
  <2>1. j \in DOMAIN q /\ j # i BY <1>1, <1>3
  <2> QED BY <1>2, <2>1 DEF Unique
<1>4. First(i) BY <1>2, <1>3
<1>5. At(q, x) = CHOOSE k \in DOMAIN q : First(k) BY DEF At
<1> HIDE DEF First
<1>6. At(q, x) \in DOMAIN q /\ First(At(q, x)) BY <1>4, <1>5
<1>7. At(q, x) \in DOMAIN q /\ q[At(q, x)].id = x BY <1>6 DEF First
<1> QED BY <1>7 DEF Unique

(* What is left of an array from which one entry is deleted. *)
LEMMA RemoveAtIs ==
  ASSUME NEW S, NEW q \in Seq(S), NEW i \in DOMAIN q, NEW r, r = RemoveAt(q, i)
  PROVE  /\ r \in Seq(S) /\ DOMAIN r = 1..(Len(q) - 1)
         /\ Len(q) \in Nat /\ DOMAIN q = 1..Len(q)
         /\ \A k \in DOMAIN r : r[k] = IF k < i THEN q[k] ELSE q[k + 1]
<1> DEFINE s == SubSeq(q, 1, i - 1)
           t == SubSeq(q, i + 1, Len(q))
<1>1. /\ Len(q) \in Nat /\ DOMAIN q = 1..Len(q) /\ i \in 1..Len(q)
      /\ \A k \in 1..Len(q) : q[k] \in S
  BY LenProperties, ElementOfSeq
<1>2. /\ s \in Seq(S) /\ Len(s) = i - 1
      /\ \A k \in 1..(i - 1) : s[k] = q[k]
  <2>1. \A k \in 1..(i - 1) : q[k] \in S BY <1>1
  <2>2. /\ s \in Seq(S) /\ Len(s) = IF 1 <= i - 1 THEN (i - 1) - 1 + 1 ELSE 0
        /\ \A k \in 1..((i - 1) - 1 + 1) : s[k] = q[1 + k - 1]
    BY <1>1, <2>1, SubSeqProperties
  <2> QED BY <1>1, <2>2
<1>3. /\ t \in Seq(S) /\ Len(t) = Len(q) - i
      /\ \A k \in 1..(Len(q) - i) : t[k] = q[i + k]
  <2>1. \A k \in (i + 1)..Len(q) : q[k] \in S BY <1>1
  <2>2. /\ t \in Seq(S)
        /\ Len(t) = IF i + 1 <= Len(q) THEN Len(q) - (i + 1) + 1 ELSE 0
        /\ \A k \in 1..(Len(q) - (i + 1) + 1) : t[k] = q[(i + 1) + k - 1]
    BY <1>1, <2>1, SubSeqProperties
  <2> HIDE DEF s, t
  <2>3. Len(q) \in Nat /\ i \in 1..Len(q) BY <1>1
  <2>4. Len(t) = Len(q) - i BY <2>2, <2>3
  <2>5. ASSUME NEW k \in 1..(Len(q) - i) PROVE t[k] = q[i + k]
    <3>1. k \in 1..(Len(q) - (i + 1) + 1) /\ (i + 1) + k - 1 = i + k
      BY <2>3
    <3> QED BY <2>2, <3>1
  <2> QED BY <2>2, <2>4, <2>5
<1> HIDE DEF s, t
<1>4. /\ s \o t \in Seq(S) /\ Len(s \o t) = Len(s) + Len(t)
      /\ \A k \in 1..(Len(s) + Len(t)) :
           (s \o t)[k] = IF k <= Len(s) THEN s[k] ELSE t[k - Len(s)]
  BY <1>2, <1>3, ConcatProperties
<1>5. r = s \o t BY DEF RemoveAt, s, t
<1>6. r \in Seq(S) /\ Len(r) = Len(q) - 1 /\ DOMAIN r = 1..(Len(q) - 1)
  <2>1. Len(r) = Len(q) - 1
    <3>1. Len(r) = Len(s) + Len(t) BY <1>4, <1>5
    <3>2. Len(q) \in Nat /\ i \in 1..Len(q) BY <1>1
    <3>3. Len(s) = i - 1 /\ Len(t) = Len(q) - i BY <1>2, <1>3
    <3> HIDE DEF s, t
    <3> QED BY <3>1, <3>2, <3>3
  <2>2. r \in Seq(S) BY <1>4, <1>5
  <2> QED BY <2>1, <2>2, LenProperties
<1>7. ASSUME NEW k \in DOMAIN r
      PROVE  r[k] = IF k < i THEN q[k] ELSE q[k + 1]
  <2>1. k \in 1..(Len(q) - 1) BY <1>6
  <2>2. CASE k < i
    <3>1. k \in 1..(i - 1) /\ k \in 1..(Len(s) + Len(t)) /\ k <= Len(s)
      BY <1>1, <1>2, <1>3, <2>1, <2>2
    <3>2. r[k] = s[k] BY <1>4, <1>5, <3>1
    <3>3. s[k] = q[k] BY <1>2, <3>1
    <3> QED BY <2>2, <3>2, <3>3
  <2>3. CASE ~(k < i)
    <3>1. k - (i - 1) \in 1..(Len(q) - i) BY <1>1, <2>1, <2>3
    <3>2. r[k] = t[k - (i - 1)] BY <1>1, <1>2, <1>3, <1>4, <1>5, <2>1, <2>3
    <3>3. i + (k - (i - 1)) = k + 1 BY <1>1, <2>1
    <3> QED BY <1>3, <2>3, <3>1, <3>2, <3>3
  <2> QED BY <2>2, <2>3
<1> QED BY <1>1, <1>6, <1>7

(* r has nothing but what q has. *)
Part(r, q) == \A k \in DOMAIN r : \E i \in DOMAIN q : r[k] = q[i]

(* Deleting by id, and every other entry, keeps the rest as it is.         *)
LEMMA DropIs ==
  ASSUME NEW S, NEW q \in Seq(S), Unique(q), NEW x, NEW r, r = Drop(q, x)
  PROVE  r \in Seq(S) /\ Unique(r) /\ Part(r, q) /\ x \notin Ids(r)
<1>1. CASE x \notin Ids(q) BY <1>1 DEF Drop, Part
<1>2. CASE x \in Ids(q)
  <2> DEFINE i == At(q, x)
  <2>1. /\ i \in DOMAIN q /\ q[i].id = x
        /\ \A k \in DOMAIN q : q[k].id = x => k = i
    BY <1>2, AtIs
  <2>2. r = RemoveAt(q, i) BY <1>2 DEF Drop
  <2> HIDE DEF i
  <2>3. /\ r \in Seq(S) /\ DOMAIN r = 1..(Len(q) - 1)
        /\ Len(q) \in Nat /\ DOMAIN q = 1..Len(q)
        /\ \A k \in DOMAIN r : r[k] = IF k < i THEN q[k] ELSE q[k + 1]
    BY <2>1, <2>2, RemoveAtIs
  <2>4. \A k \in DOMAIN r : k \in DOMAIN q /\ k + 1 \in DOMAIN q BY <2>3
  <2>5. Part(r, q) BY <2>3, <2>4 DEF Part
  <2>6. ASSUME NEW j \in DOMAIN r, NEW k \in DOMAIN r, r[j].id = r[k].id
        PROVE  j = k
    <3>1. \/ j < i /\ r[j] = q[j]
          \/ ~(j < i) /\ r[j] = q[j + 1]
      BY <2>3
    <3>2. \/ k < i /\ r[k] = q[k]
          \/ ~(k < i) /\ r[k] = q[k + 1]
      BY <2>3
    <3>3. j \in Int /\ k \in Int BY <2>3
    <3> QED BY <2>1, <2>3, <2>4, <2>6, <3>1, <3>2, <3>3 DEF Unique
  <2>7. ASSUME NEW k \in DOMAIN r PROVE r[k].id # x
    <3>1. \/ k < i /\ r[k] = q[k]
          \/ ~(k < i) /\ r[k] = q[k + 1]
      BY <2>3
    <3>2. k \in Int /\ i \in Int BY <2>1, <2>3
    <3> QED BY <2>1, <2>4, <3>1, <3>2
  <2> QED BY <2>3, <2>5, <2>6, <2>7 DEF Unique, Ids
<1> QED BY <1>1, <1>2

LEMMA EverySecondIs ==
  ASSUME NEW S, NEW q \in Seq(S), Unique(q), NEW r, r = EverySecond(q)
  PROVE  r \in Seq(S) /\ Unique(r) /\ Part(r, q)
<1>1. Len(q) \in Nat /\ DOMAIN q = 1..Len(q) /\ \A k \in 1..Len(q) : q[k] \in S
  BY LenProperties, ElementOfSeq
<1>2. r = [i \in 1..(Len(q) \div 2) |-> q[2 * i]] BY DEF EverySecond
<1>3. Len(q) \div 2 \in Nat /\ 2 * (Len(q) \div 2) <= Len(q) BY <1>1
<1> DEFINE n == Len(q) \div 2
<1> HIDE DEF n
<1>4. n \in Nat /\ 2 * n <= Len(q) /\ DOMAIN r = 1..n
        /\ \A i \in 1..n : r[i] = q[2 * i]
  BY <1>2, <1>3 DEF n
<1>5. \A i \in 1..n : 2 * i \in DOMAIN q BY <1>1, <1>4
<1>6. r \in Seq(S)
  <2>1. \A i \in 1..n : r[i] \in S BY <1>1, <1>4, <1>5
  <2>2. r = [i \in 1..n |-> r[i]] BY <1>2 DEF n
  <2>3. r \in [1..n -> S] BY <2>1, <2>2
  <2> QED BY <1>4, <2>3, SeqDef
<1>7. Part(r, q) BY <1>4, <1>5 DEF Part
<1>8. ASSUME NEW i \in DOMAIN r, NEW j \in DOMAIN r, r[i].id = r[j].id
      PROVE  i = j
  <2>1. 2 * i = 2 * j BY <1>4, <1>5, <1>8 DEF Unique
  <2> QED BY <1>4, <2>1
<1> QED BY <1>6, <1>7, <1>8 DEF Unique

(* Setting a device replaces the one with its id, or adds it. *)
LEMMA PutIs ==
  ASSUME NEW q \in Seq(Device), Unique(q), NEW d \in Device, NEW r, r = Put(q, d)
  PROVE  r \in Seq(Device) /\ Unique(r) /\ Ids(r) \subseteq Ids(q) \union {d.id}
<1>1. Len(q) \in Nat /\ DOMAIN q = 1..Len(q) BY LenProperties
<1>2. CASE d.id \in Ids(q)
  <2> DEFINE i == At(q, d.id)
  <2>1. /\ i \in DOMAIN q /\ q[i].id = d.id
    BY <1>2, AtIs
  <2>2. r = [q EXCEPT ![i] = d] BY <1>2 DEF Put
  <2> HIDE DEF i
  <2>3. r \in Seq(Device) BY <2>1, <2>2, ExceptSeq
  <2>4. DOMAIN r = DOMAIN q /\ \A k \in DOMAIN q : r[k].id = q[k].id
    BY <2>1, <2>2
  <2> QED BY <2>3, <2>4 DEF Unique, Ids
<1>3. CASE d.id \notin Ids(q)
  <2>1. r = Append(q, d) BY <1>3 DEF Put
  <2>2. /\ r \in Seq(Device) /\ DOMAIN r = 1..(Len(q) + 1)
        /\ r[Len(q) + 1] = d /\ \A k \in 1..Len(q) : r[k] = q[k]
    BY <2>1, AppendProperties, LenProperties
  <2>3. \A k \in 1..(Len(q) + 1) : k \in 1..Len(q) \/ k = Len(q) + 1 BY <1>1
  <2>4. \A k \in DOMAIN q : q[k].id # d.id BY <1>3 DEF Ids
  <2>5. Unique(r)
    <3>1. SUFFICES ASSUME NEW j \in DOMAIN r, NEW k \in DOMAIN r,
                          r[j].id = r[k].id
                   PROVE  j = k
      BY DEF Unique
    <3> QED BY <1>1, <2>2, <2>3, <2>4, <3>1 DEF Unique
  <2> QED BY <1>1, <2>2, <2>3, <2>5 DEF Ids
<1> QED BY <1>2, <1>3

(* A device is in a tree with unique ids where the search looks for it.    *)
LEMMA HasIs ==
  ASSUME NEW tree \in Tree, UniqueTree(tree), NEW b, NEW x
  PROVE  Has(tree, b, x) <=> Listed(tree, b, x)
<1>1. tree \in Seq(Box) /\ Unique(tree) BY DEF Tree, UniqueTree
<1>2. CASE b \in Ids(tree)
  <2> DEFINE i == At(tree, b)
  <2>1. /\ i \in DOMAIN tree /\ tree[i].id = b
        /\ \A k \in DOMAIN tree : tree[k].id = b => k = i
    BY <1>1, <1>2, AtIs
  <2>2. Has(tree, b, x) <=> x \in Ids(tree[i].dev) BY <1>2 DEF Has
  <2> HIDE DEF i
  <2> QED BY <2>1, <2>2 DEF Listed
<1>3. CASE b \notin Ids(tree) BY <1>3 DEF Has, Listed, Ids
<1> QED BY <1>2, <1>3

(* Part of a tree has none but its devices. *)
LEMMA PartOfTree ==
  ASSUME NEW q \in Tree, UniqueTree(q), NEW r \in Tree, Unique(r), Part(r, q)
  PROVE  /\ UniqueTree(r) /\ Ids(r) \subseteq Ids(q)
         /\ \A b, x : Listed(r, b, x) => Listed(q, b, x)
<1>1. UniqueTree(r) BY DEF UniqueTree, Part
<1>2. Ids(r) \subseteq Ids(q) BY DEF Ids, Part
<1>3. ASSUME NEW b, NEW x, Listed(r, b, x) PROVE Listed(q, b, x)
  <2>1. PICK k \in DOMAIN r : r[k].id = b /\ x \in Ids(r[k].dev)
    BY <1>3 DEF Listed
  <2>2. PICK i \in DOMAIN q : r[k] = q[i] BY DEF Part
  <2> QED BY <2>1, <2>2 DEF Listed
<1> QED BY <1>1, <1>2, <1>3

(* An edit of the devices of one box. *)
WithDev(q, i, e) == [q EXCEPT ![i].dev = e]
Edited(r, q, i, e) ==
  /\ r \in Tree /\ UniqueTree(r) /\ Ids(r) = Ids(q) /\ DOMAIN r = DOMAIN q
  /\ \A k \in DOMAIN q : /\ r[k].id = q[k].id
                         /\ r[k].dev = IF k = i THEN e ELSE q[k].dev

LEMMA EditIs ==
  ASSUME NEW q \in Tree, UniqueTree(q), NEW i \in DOMAIN q,
         NEW e \in Seq(Device), Unique(e), NEW r, r = WithDev(q, i, e)
  PROVE  Edited(r, q, i, e)
<1> DEFINE f == [q[i] EXCEPT !.dev = e]
<1>1. q \in Seq(Box) /\ q[i] \in Box BY ElementOfSeq DEF Tree
<1>2. f \in Box /\ f.id = q[i].id /\ f.dev = e BY <1>1 DEF Box
<1>3. /\ DOMAIN r = DOMAIN q /\ r[i] = f
      /\ \A k \in DOMAIN q : k # i => r[k] = q[k]
  BY <1>1 DEF Box, WithDev
<1>4. r = [k \in DOMAIN q |-> r[k]] BY DEF WithDev
<1> HIDE DEF f
<1>5. r \in Seq(Box)
  <2>1. Len(q) \in Nat /\ DOMAIN q = 1..Len(q) /\ \A k \in DOMAIN q : q[k] \in Box
    BY <1>1, LenProperties, ElementOfSeq
  <2>2. \A k \in DOMAIN q : r[k] \in Box BY <1>2, <1>3, <2>1
  <2>3. r \in [1..Len(q) -> Box] BY <1>4, <2>1, <2>2
  <2> QED BY <2>1, <2>3, SeqDef
<1>6. \A k \in DOMAIN q : r[k].id = q[k].id BY <1>2, <1>3
<1>7. \A k \in DOMAIN q : Unique(r[k].dev) BY <1>2, <1>3 DEF UniqueTree
<1>8. Tree = Seq(Box) /\ Ids(r) = Ids(q) /\ UniqueTree(r)
  BY <1>3, <1>6, <1>7 DEF Tree, UniqueTree, Unique, Ids
<1>9. \A k \in DOMAIN q : r[k].dev = IF k = i THEN e ELSE q[k].dev
  BY <1>2, <1>3
<1> QED BY <1>3, <1>5, <1>6, <1>8, <1>9 DEF Edited

-----------------------------------------------------------------------------
(* Lists of steps. *)

Plan(q) == q \in Seq(Steps) /\ Paired(q) /\ CodesLast(q)

LEMMA PlanConcat ==
  ASSUME NEW p \in Seq(Steps), Paired(p), NoCode(p), NEW q, Plan(q),
         NEW r, r = p \o q
  PROVE  Plan(r) /\ \A s : In(s, r) <=> In(s, p) \/ In(s, q)
<1>1. /\ q \in Seq(Steps) /\ Len(p) \in Nat /\ DOMAIN p = 1..Len(p)
      /\ Len(q) \in Nat /\ DOMAIN q = 1..Len(q)
  BY LenProperties DEF Plan
<1>2. /\ r \in Seq(Steps) /\ Len(r) = Len(p) + Len(q)
      /\ \A k \in 1..(Len(p) + Len(q)) :
           r[k] = IF k <= Len(p) THEN p[k] ELSE q[k - Len(p)]
  BY <1>1, ConcatProperties
<1>3. DOMAIN r = 1..(Len(p) + Len(q)) BY <1>2, LenProperties
<1>4. \A k \in DOMAIN p : k \in DOMAIN r /\ r[k] = p[k] BY <1>1, <1>2, <1>3
<1>5. ASSUME NEW k \in DOMAIN q
      PROVE  k + Len(p) \in DOMAIN r /\ r[k + Len(p)] = q[k]
  <2>1. k + Len(p) \in 1..(Len(p) + Len(q)) /\ ~(k + Len(p) <= Len(p))
          /\ (k + Len(p)) - Len(p) = k
    BY <1>1
  <2> QED BY <1>2, <1>3, <2>1
<1>6. ASSUME NEW k \in DOMAIN r
      PROVE  \/ k \in DOMAIN p
             \/ k - Len(p) \in DOMAIN q /\ k = (k - Len(p)) + Len(p)
  BY <1>1, <1>3
<1>7. ASSUME NEW s PROVE In(s, r) <=> In(s, p) \/ In(s, q)
  <2>1. In(s, p) => In(s, r) BY <1>4 DEF In
  <2>2. In(s, q) => In(s, r) BY <1>5 DEF In
  <2>3. In(s, r) => In(s, p) \/ In(s, q) BY <1>4, <1>5, <1>6 DEF In
  <2> QED BY <2>1, <2>2, <2>3
<1>8. Paired(r)
  <2>1. SUFFICES ASSUME NEW k \in DOMAIN r, r[k] = "truncate"
                 PROVE  k + 1 \in DOMAIN r /\ r[k + 1] = "print"
    BY DEF Paired
  <2>2. CASE k \in DOMAIN p BY <1>4, <2>1, <2>2 DEF Paired
  <2>3. CASE k - Len(p) \in DOMAIN q /\ k = (k - Len(p)) + Len(p)
    <3>1. q[k - Len(p)] = "truncate" BY <1>5, <2>1, <2>3
    <3>2. (k - Len(p)) + 1 \in DOMAIN q /\ q[(k - Len(p)) + 1] = "print"
      BY <2>3, <3>1 DEF Plan, Paired
    <3>3. ((k - Len(p)) + 1) + Len(p) = k + 1 BY <1>1, <1>3
    <3> QED BY <1>5, <3>2, <3>3
  <2> QED BY <1>6, <2>2, <2>3
<1>9. CodesLast(r)
  <2>1. SUFFICES ASSUME NEW k \in DOMAIN r, r[k] \in Codes PROVE k = Len(r)
    BY DEF CodesLast
  <2>2. k \notin DOMAIN p BY <1>4, <2>1 DEF NoCode
  <2>3. k - Len(p) \in DOMAIN q /\ r[k] = q[k - Len(p)] BY <1>5, <1>6, <2>2
  <2>4. k - Len(p) = Len(q) BY <2>1, <2>3 DEF Plan, CodesLast
  <2> QED BY <1>1, <1>2, <1>3, <2>4
<1> QED BY <1>2, <1>7, <1>8, <1>9 DEF Plan

LEMMA PlanTail ==
  ASSUME NEW q, Plan(q), q # <<>>
  PROVE  /\ Plan(Tail(q))
         /\ \A s : In(s, q) <=> s = Head(q) \/ In(s, Tail(q))
         /\ Head(q) = "truncate" => In("print", Tail(q))
         /\ Head(q) \in Codes => Tail(q) = <<>>
<1> DEFINE r == Tail(q)
<1>1. /\ q \in Seq(Steps) /\ Len(q) \in Nat /\ DOMAIN q = 1..Len(q)
      /\ 1 \in DOMAIN q /\ Head(q) = q[1]
  BY LenProperties, EmptySeq DEF Plan
<1>2. /\ r \in Seq(Steps) /\ Len(r) = Len(q) - 1
      /\ DOMAIN r = 1..(Len(q) - 1) /\ \A k \in DOMAIN r : r[k] = q[k + 1]
  BY <1>1, HeadTailProperties, LenProperties
<1> HIDE DEF r
<1>3. \A k \in DOMAIN r : k + 1 \in DOMAIN q BY <1>1, <1>2
<1>4. ASSUME NEW k \in DOMAIN q PROVE k = 1 \/ (k - 1 \in DOMAIN r /\ r[k - 1] = q[k])
  <2>1. k = 1 \/ (k - 1 \in 1..(Len(q) - 1) /\ (k - 1) + 1 = k) BY <1>1
  <2> QED BY <1>2, <2>1
<1>5. Paired(r)
  <2>1. SUFFICES ASSUME NEW k \in DOMAIN r, r[k] = "truncate"
                 PROVE  k + 1 \in DOMAIN r /\ r[k + 1] = "print"
    BY DEF Paired
  <2>2. (k + 1) + 1 \in DOMAIN q /\ q[(k + 1) + 1] = "print"
    BY <1>2, <1>3, <2>1 DEF Plan, Paired
  <2>3. k + 1 \in DOMAIN r BY <1>1, <1>2, <2>2
  <2> QED BY <1>2, <2>2, <2>3
<1>6. CodesLast(r)
  <2>1. SUFFICES ASSUME NEW k \in DOMAIN r, r[k] \in Codes PROVE k = Len(r)
    BY DEF CodesLast
  <2>2. k + 1 = Len(q) BY <1>2, <1>3, <2>1 DEF Plan, CodesLast
  <2> QED BY <1>1, <1>2, <2>2
<1>7. \A s : In(s, q) <=> s = Head(q) \/ In(s, r)
  <2>1. ASSUME NEW s, In(s, q) PROVE s = Head(q) \/ In(s, r)
    BY <1>1, <1>4, <2>1 DEF In
  <2>2. ASSUME NEW s, s = Head(q) \/ In(s, r) PROVE In(s, q)
    BY <1>1, <1>2, <1>3, <2>2 DEF In
  <2> QED BY <2>1, <2>2
<1>8. Head(q) = "truncate" => In("print", r)
  <2>1. SUFFICES ASSUME Head(q) = "truncate" PROVE In("print", r) OBVIOUS
  <2>2. 1 + 1 \in DOMAIN q /\ q[1 + 1] = "print"
    BY <1>1, <2>1 DEF Plan, Paired
  <2>3. 1 \in DOMAIN r BY <1>1, <1>2, <2>2
  <2> QED BY <1>2, <2>2, <2>3 DEF In
<1>9. Head(q) \in Codes => r = <<>>
  <2>1. SUFFICES ASSUME Head(q) \in Codes PROVE r = <<>> OBVIOUS
  <2>2. Len(q) = 1 BY <1>1, <2>1 DEF Plan, CodesLast
  <2> QED BY <1>2, <2>2, EmptySeq
<1> QED BY <1>2, <1>5, <1>6, <1>7, <1>8, <1>9 DEF Plan, r

(* A list of exactly these steps. *)
Does(q, S) == Plan(q) /\ \A s : In(s, q) <=> s \in S

LEMMA DoesNothing == Does(<<>>, {})
BY DEF Does, Plan, In, Paired, CodesLast

LEMMA DoesOne ==
  ASSUME NEW s \in Steps, s # "truncate" PROVE Does(<<s>>, {s})
<1> DEFINE q == <<s>>
<1>1. q \in Seq(Steps) /\ DOMAIN q = {1} /\ q[1] = s /\ Len(q) = 1 OBVIOUS
<1> HIDE DEF q
<1>2. Paired(q) /\ CodesLast(q) BY <1>1 DEF Paired, CodesLast
<1>3. \A x : In(x, q) <=> x \in {s} BY <1>1 DEF In
<1>4. Does(q, {s}) BY <1>1, <1>2, <1>3 DEF Does, Plan
<1> QED BY <1>4 DEF q

LEMMA DoesSave == Does(Save, {"truncate", "print"})
<1> DEFINE q == <<"truncate", "print">>
<1>1. q \in Seq(Steps) BY DEF Steps
<1>2. DOMAIN q = {1, 2} /\ q[1] = "truncate" /\ q[2] = "print" OBVIOUS
<1>3. q[1] \notin Codes /\ q[2] \notin Codes BY <1>2 DEF Codes
<1>4. q = Save BY DEF Save
<1> HIDE DEF q
<1>5. Paired(q) /\ CodesLast(q) BY <1>2, <1>3 DEF Paired, CodesLast
<1>6. \A s : In(s, q) <=> s \in {"truncate", "print"} BY <1>2 DEF In
<1> QED BY <1>1, <1>4, <1>5, <1>6 DEF Does, Plan

LEMMA DoesBoth ==
  ASSUME NEW p, NEW P, Does(p, P), P \cap Codes = {}, NEW q, NEW Q, Does(q, Q)
  PROVE  Does(p \o q, P \union Q)
<1>1. p \in Seq(Steps) /\ Paired(p) BY DEF Does, Plan
<1>2. NoCode(p)
  <2>1. \A i \in DOMAIN p : p[i] \in P BY DEF Does, In
  <2> QED BY <2>1 DEF NoCode
<1>3. Plan(q) BY DEF Does
<1>4. Plan(p \o q) /\ \A s : In(s, p \o q) <=> In(s, p) \/ In(s, q)
  BY <1>1, <1>2, <1>3, PlanConcat
<1> QED BY <1>4 DEF Does

(* The lists of steps of the commands. *)
LEMMA DoesAnswer ==
  ASSUME NEW c \in Codes
  PROVE  /\ Does(Answer(c), {c})
         /\ Does(Save \o Answer(c), {"truncate", "print", c})
<1>1. Does(Answer(c), {c})
  <2>1. c \in Steps /\ c # "truncate" BY DEF Codes, Steps
  <2> QED BY <2>1, DoesOne DEF Answer
<1>2. {"truncate", "print"} \cap Codes = {} BY DEF Codes
<1>3. Does(Save \o Answer(c), {"truncate", "print"} \union {c})
  BY <1>1, <1>2, DoesSave, DoesBoth
<1>4. {"truncate", "print"} \union {c} = {"truncate", "print", c} OBVIOUS
<1> QED BY <1>1, <1>3, <1>4

LEMMA DoesSet ==
  ASSUME NEW replaced \in BOOLEAN,
         NEW q, q = (IF replaced THEN <<>> ELSE <<"shareadd">>) \o Save
                      \o Answer("success")
  PROVE  Plan(q) /\ In("print", q)
<1> DEFINE p == IF replaced THEN <<>> ELSE <<"shareadd">>
           P == IF replaced THEN {} ELSE {"shareadd"}
<1>1. Does(p, P)
  <2>1. "shareadd" \in Steps /\ "shareadd" # "truncate" BY DEF Steps
  <2>2. Does(<<"shareadd">>, {"shareadd"}) BY <2>1, DoesOne
  <2>3. CASE replaced BY <2>3, DoesNothing
  <2>4. CASE ~replaced BY <2>2, <2>4
  <2> QED BY <2>3, <2>4
<1>2. P \cap Codes = {} /\ P \subseteq {"shareadd"} BY DEF Codes
<1>3. q = (p \o Save) \o Answer("success") OBVIOUS
<1> HIDE DEF p, P
<1>4. Does(p \o Save, P \union {"truncate", "print"})
  BY <1>1, <1>2, DoesSave, DoesBoth
<1>5. (P \union {"truncate", "print"}) \cap Codes = {} BY <1>2 DEF Codes
<1>6. "success" \in Codes BY DEF Codes
<1>7. Does(Answer("success"), {"success"}) BY <1>6, DoesAnswer
<1> DEFINE Q == P \union {"truncate", "print"}
<1>8. Does(q, Q \union {"success"})
  <2> HIDE DEF Q
  <2>1. Does((p \o Save) \o Answer("success"), Q \union {"success"})
    BY <1>4, <1>5, <1>7, DoesBoth DEF Q
  <2> QED BY <1>3, <2>1
<1>9. "print" \in Q \union {"success"} OBVIOUS
<1> QED BY <1>8, <1>9 DEF Does

LEMMA DoesDelete ==
  ASSUME NEW q, q = Save \o <<"sharedel">> \o Answer("success")
  PROVE  Plan(q) /\ In("print", q) /\ ~In("shareadd", q)
<1>1. "sharedel" \in Steps /\ "sharedel" # "truncate" /\ "success" \in Codes
  BY DEF Steps, Codes
<1>2. Does(<<"sharedel">>, {"sharedel"}) BY <1>1, DoesOne
<1>3. {"truncate", "print"} \cap Codes = {} BY DEF Codes
<1>4. Does(Save \o <<"sharedel">>, {"truncate", "print"} \union {"sharedel"})
  BY <1>2, <1>3, DoesSave, DoesBoth
<1>5. ({"truncate", "print"} \union {"sharedel"}) \cap Codes = {} BY DEF Codes
<1>6. Does(Answer("success"), {"success"}) BY <1>1, DoesAnswer
<1>7. Does(q, ({"truncate", "print"} \union {"sharedel"}) \union {"success"})
  BY <1>4, <1>5, <1>6, DoesBoth
<1> QED BY <1>7 DEF Does

LEMMA DoesReplace ==
  ASSUME NEW q, q = Save \o <<"replaceself">> \o Save \o Answer("success")
  PROVE  Plan(q) /\ In("print", q) /\ ~In("shareadd", q)
<1>1. "replaceself" \in Steps /\ "replaceself" # "truncate" /\ "success" \in Codes
  BY DEF Steps, Codes
<1>2. Does(<<"replaceself">>, {"replaceself"}) BY <1>1, DoesOne
<1> DEFINE P == {"truncate", "print"} \union {"replaceself"}
<1>3. {"truncate", "print"} \cap Codes = {} BY DEF Codes
<1>4. Does(Save \o <<"replaceself">>, P) BY <1>2, <1>3, DoesSave, DoesBoth
<1>5. P \cap Codes = {} BY DEF Codes
<1>6. Does((Save \o <<"replaceself">>) \o Save, P \union {"truncate", "print"})
  <2> HIDE DEF P
  <2> QED BY <1>4, <1>5, DoesSave, DoesBoth
<1>7. (P \union {"truncate", "print"}) \cap Codes = {} BY DEF Codes
<1>8. Does(Answer("success"), {"success"}) BY <1>1, DoesAnswer
<1>9. Does(q, (P \union {"truncate", "print"}) \union {"success"})
  <2> HIDE DEF P
  <2> QED BY <1>6, <1>7, <1>8, DoesBoth
<1> QED BY <1>9 DEF Does

-----------------------------------------------------------------------------
(* What may be printed is a sound tree with no other devices. *)
LEMMA PrintedIs ==
  ASSUME jsonroot \in Tree, UniqueTree(jsonroot), NEW t \in Printed, t # Torn
  PROVE  /\ t \in Tree /\ UniqueTree(t)
         /\ \A b, x : Listed(t, b, x) => Listed(jsonroot, b, x)
<1>1. CASE t = jsonroot BY <1>1
<1>2. CASE t = [i \in DOMAIN jsonroot |-> [jsonroot[i] EXCEPT !.dev = <<>>]]
  <2>1. /\ Len(jsonroot) \in Nat /\ DOMAIN jsonroot = 1..Len(jsonroot)
        /\ \A k \in DOMAIN jsonroot : jsonroot[k] \in Box
    BY LenProperties, ElementOfSeq DEF Tree
  <2>2. <<>> \in Seq(Device) OBVIOUS
  <2>3. \A k \in DOMAIN jsonroot :
          /\ t[k] \in Box /\ t[k].id = jsonroot[k].id /\ t[k].dev = <<>>
    BY <1>2, <2>1, <2>2 DEF Box
  <2>4. DOMAIN t = DOMAIN jsonroot BY <1>2
  <2>5. t \in Tree
    <3>1. t = [k \in 1..Len(jsonroot) |-> t[k]] BY <1>2, <2>1
    <3>2. t \in [1..Len(jsonroot) -> Box] BY <2>1, <2>3, <3>1
    <3> QED BY <2>1, <3>2, SeqDef DEF Tree
  <2>6. \A k \in DOMAIN t : Ids(t[k].dev) = {} /\ Unique(t[k].dev)
    BY <2>3, <2>4 DEF Ids, Unique
  <2>7. UniqueTree(t) BY <2>3, <2>4, <2>6 DEF UniqueTree, Unique
  <2>8. \A b, x : ~Listed(t, b, x) BY <2>6 DEF Listed
  <2> QED BY <2>5, <2>7, <2>8
<1> QED BY <1>1, <1>2 DEF Printed

(* The list of sharemem.json that a tree makes. *)
LEMMA IdListIs ==
  ASSUME NEW tree \in Tree, UniqueTree(tree)
  PROVE  IdList(tree) \in Seq([id : Boxes]) /\ Unique(IdList(tree))
<1>1. /\ Len(tree) \in Nat /\ DOMAIN tree = 1..Len(tree)
      /\ \A k \in DOMAIN tree : tree[k].id \in Boxes
  <2>1. /\ Len(tree) \in Nat /\ DOMAIN tree = 1..Len(tree)
        /\ \A k \in DOMAIN tree : tree[k] \in Box
    BY LenProperties, ElementOfSeq DEF Tree
  <2> QED BY <2>1 DEF Box
<1>2. IdList(tree) \in [1..Len(tree) -> [id : Boxes]] BY <1>1 DEF IdList
<1>3. IdList(tree) \in Seq([id : Boxes]) BY <1>1, <1>2, SeqDef
<1>4. Unique(IdList(tree)) BY DEF IdList, UniqueTree, Unique
<1> QED BY <1>3, <1>4

LEMMA StepsAre ==
  /\ Steps = {"truncate", "print", "shareadd", "sharedel", "replaceself",
              "success", "notfound", "notxml"}
  /\ <<>> \in Seq(Steps)
BY DEF Steps, Codes

LEMMA TodoType == TypeOK => todo \in Seq(Steps)
BY StepsAre DEF TypeOK

-----------------------------------------------------------------------------
(* What a command leaves: a sound tree in memory, a list of steps that     *)
(* saves it if it has changed, and no device that had been deleted, but    *)
(* for the one it sets.                                                    *)
LEMMA HandleKeeps ==
  ASSUME StoreInv, NEW r, NEW steps, Handle(r, steps), freed' = freed,
         alive' \in BOOLEAN,
         jsonroot' \in Tree, UniqueTree(jsonroot'),
         \A b, x : Listed(jsonroot', b, x) =>
           Listed(jsonroot, b, x) \/ <<b, x>> \notin gone',
         Plan(steps),
         jsonroot' = jsonroot \/ In("print", steps),
         In("shareadd", steps) => r.box \in Boxes,
         In("success", steps) /\ r.cmd = "delv3" =>
           <<r.box, r.dev>> \in Boxes \X Devs /\ ~Listed(jsonroot', r.box, r.dev),
         In("success", steps) /\ r.cmd = "del" =>
           r.box \in Boxes /\ r.box \notin Ids(jsonroot')
  PROVE  StoreInv'
<1>1. /\ config' = config /\ share' = share /\ restarts' = restarts
      /\ answer' = answer /\ gone' \subseteq gone /\ request' = r
      /\ todo' = steps /\ alive /\ todo = <<>>
  BY DEF Handle
<1>2. sent' \in 0..MaxCommands
  BY ConfigAssumption DEF Handle, StoreInv, TypeOK
<1>3. TypeOK'
  <2>1. todo' \in Seq(Steps) BY <1>1 DEF Plan
  <2> QED BY <1>1, <1>2, <2>1, StepsAre DEF StoreInv, TypeOK
<1>4. UniqueIds' BY <1>1 DEF StoreInv, UniqueIds
<1>5. (config # Torn => UniqueTree(config) /\ Forgotten(config))'
  BY <1>1 DEF StoreInv, Forgotten
<1>6. Forgotten(jsonroot)'
  <2>1. \A g \in gone' : g = <<g[1], g[2]>>
    BY <1>1 DEF StoreInv, TypeOK
  <2>2. \A g \in gone' : ~Listed(jsonroot, g[1], g[2])
    BY <1>1 DEF StoreInv, Forgotten
  <2> QED BY <2>1, <2>2 DEF Forgotten
<1>7. Promises'
  <2>1. (alive /\ ~In("print", todo) => config \in Printed)'
    <3>1. ~In("print", todo) BY <1>1 DEF In
    <3>2. config \in Printed BY <1>1, <3>1 DEF StoreInv, Promises
    <3>3. jsonroot' = jsonroot => Printed' = Printed BY DEF Printed
    <3> QED BY <1>1, <3>2, <3>3
  <2>2. (Paired(todo) /\ CodesLast(todo))' BY <1>1 DEF Plan
  <2> QED BY <1>1, <2>1, <2>2 DEF Promises
<1> QED BY <1>3, <1>4, <1>5, <1>6, <1>7 DEF StoreInv

(* The tree after a device d of box b has been set. *)
LEMMA PutInTree ==
  ASSUME NEW q \in Tree, UniqueTree(q), NEW b \in Ids(q), NEW d \in Device,
         NEW r, r = WithDev(q, At(q, b), Put(q[At(q, b)].dev, d))
  PROVE  /\ r \in Tree /\ UniqueTree(r)
         /\ \A c, x : Listed(r, c, x) => Listed(q, c, x) \/ (c = b /\ x = d.id)
<1> DEFINE i == At(q, b)
           e == Put(q[i].dev, d)
<1>1. q \in Seq(Box) /\ Unique(q) BY DEF Tree, UniqueTree
<1>2. i \in DOMAIN q /\ q[i].id = b BY <1>1, AtIs
<1>3. q[i] \in Box BY <1>1, <1>2, ElementOfSeq
<1>4. q[i].dev \in Seq(Device) /\ Unique(q[i].dev)
  BY <1>2, <1>3 DEF Box, UniqueTree
<1> HIDE DEF e
<1>5. /\ e \in Seq(Device) /\ Unique(e)
      /\ Ids(e) \subseteq Ids(q[i].dev) \union {d.id}
  BY <1>4, PutIs DEF e
<1>6. r = WithDev(q, i, e) BY DEF e
<1> HIDE DEF i
<1>7. /\ r \in Tree /\ UniqueTree(r) /\ DOMAIN r = DOMAIN q
      /\ \A k \in DOMAIN q : r[k].id = q[k].id
      /\ r[i].dev = e
      /\ \A k \in DOMAIN q : k # i => r[k].dev = q[k].dev
  <2>1. Edited(r, q, i, e) BY <1>2, <1>5, <1>6, EditIs
  <2> QED BY <1>2, <2>1 DEF Edited
<1>8. ASSUME NEW c, NEW x, Listed(r, c, x), ~(c = b /\ x = d.id)
      PROVE  Listed(q, c, x)
  <2>1. PICK k \in DOMAIN q : q[k].id = c /\ x \in Ids(r[k].dev)
    BY <1>7, <1>8 DEF Listed
  <2>2. CASE k = i BY <1>2, <1>5, <1>7, <1>8, <2>1, <2>2 DEF Listed
  <2>3. CASE k # i BY <1>7, <2>1, <2>3 DEF Listed
  <2> QED BY <2>2, <2>3
<1> QED BY <1>7, <1>8

(* The tree after device x of box b has been deleted. *)
LEMMA DropFromTree ==
  ASSUME NEW q \in Tree, UniqueTree(q), NEW b \in Ids(q), NEW x,
         NEW r, r = WithDev(q, At(q, b), Drop(q[At(q, b)].dev, x))
  PROVE  /\ r \in Tree /\ UniqueTree(r) /\ ~Listed(r, b, x)
         /\ \A c, y : Listed(r, c, y) => Listed(q, c, y)
<1> DEFINE i == At(q, b)
           e == Drop(q[i].dev, x)
<1>1. q \in Seq(Box) /\ Unique(q) BY DEF Tree, UniqueTree
<1>2. /\ i \in DOMAIN q /\ q[i].id = b
      /\ \A k \in DOMAIN q : q[k].id = b => k = i
  BY <1>1, AtIs
<1>3. q[i] \in Box BY <1>1, <1>2, ElementOfSeq
<1>4. q[i].dev \in Seq(Device) /\ Unique(q[i].dev)
  BY <1>2, <1>3 DEF Box, UniqueTree
<1> HIDE DEF e
<1>5. e \in Seq(Device) /\ Unique(e) /\ Part(e, q[i].dev) /\ x \notin Ids(e)
  BY <1>4, DropIs DEF e
<1>6. Ids(e) \subseteq Ids(q[i].dev) BY <1>5 DEF Ids, Part
<1>7. r = WithDev(q, i, e) BY DEF e
<1> HIDE DEF i
<1>8. /\ r \in Tree /\ UniqueTree(r) /\ DOMAIN r = DOMAIN q
      /\ \A k \in DOMAIN q : r[k].id = q[k].id
      /\ r[i].dev = e
      /\ \A k \in DOMAIN q : k # i => r[k].dev = q[k].dev
  <2>1. Edited(r, q, i, e) BY <1>2, <1>5, <1>7, EditIs
  <2> QED BY <1>2, <2>1 DEF Edited
<1>9. ASSUME NEW c, NEW y, Listed(r, c, y) PROVE Listed(q, c, y)
  <2>1. PICK k \in DOMAIN q : q[k].id = c /\ y \in Ids(r[k].dev)
    BY <1>8, <1>9 DEF Listed
  <2>2. CASE k = i BY <1>2, <1>6, <1>8, <2>1, <2>2 DEF Listed
  <2>3. CASE k # i BY <1>8, <2>1, <2>3 DEF Listed
  <2> QED BY <2>2, <2>3
<1>10. ~Listed(r, b, x) BY <1>2, <1>5, <1>8 DEF Listed
<1> QED BY <1>8, <1>9, <1>10

-----------------------------------------------------------------------------
(* Each command keeps StoreInv. *)

LEMMA SetKeeps ==
  ASSUME StoreInv, NEW b \in Boxes, SetDpcontrol(b) PROVE StoreInv'
<1> DEFINE r == [cmd |-> "set", box |-> b, dev |-> DevOne]
           d == [id |-> DevOne, rev |-> sent + 1, full |-> FALSE]
           i == At(jsonroot, b)
           replaced == b \in Ids(jsonroot) /\ DevOne \in Ids(jsonroot[i].dev)
           steps == (IF replaced THEN <<>> ELSE <<"shareadd">>) \o Save
                      \o Answer("success")
<1>1. jsonroot \in Tree /\ UniqueTree(jsonroot) /\ alive \in BOOLEAN
  BY DEF StoreInv, TypeOK, UniqueIds
<1>2. Handle(r, steps) /\ freed' = freed /\ alive' = alive BY DEF SetDpcontrol
<1>3. d \in Device BY <1>2, ConfigAssumption DEF Handle, Device, StoreInv, TypeOK
<1>4. gone' = gone \ {<<b, DevOne>>} BY <1>2 DEF Handle
<1>5. jsonroot' = IF b \in Ids(jsonroot)
                  THEN WithDev(jsonroot, i, Put(jsonroot[i].dev, d))
                  ELSE jsonroot
  BY DEF SetDpcontrol, WithDev
<1>6. Plan(steps) /\ In("print", steps)
  <2>1. replaced \in BOOLEAN OBVIOUS
  <2> HIDE DEF replaced
  <2> QED BY <2>1, DoesSet
<1>7. d.id = DevOne /\ r.box = b /\ r.cmd = "set" OBVIOUS
<1> HIDE DEF r, d, i, replaced, steps
<1>8. /\ jsonroot' \in Tree /\ UniqueTree(jsonroot')
      /\ \A c, x : Listed(jsonroot', c, x) =>
           Listed(jsonroot, c, x) \/ <<c, x>> \notin gone'
  <2>1. CASE b \in Ids(jsonroot)
    <3>1. /\ jsonroot' \in Tree /\ UniqueTree(jsonroot')
          /\ \A c, x : Listed(jsonroot', c, x) =>
               Listed(jsonroot, c, x) \/ (c = b /\ x = d.id)
      BY <1>1, <1>3, <1>5, <2>1, PutInTree DEF i
    <3> QED BY <1>4, <1>7, <3>1
  <2>2. CASE b \notin Ids(jsonroot) BY <1>1, <1>5, <2>2
  <2> QED BY <2>1, <2>2
<1> QED BY <1>1, <1>2, <1>6, <1>7, <1>8, HandleKeeps

LEMMA DelKeeps ==
  ASSUME StoreInv, NEW b \in Boxes, DelDpcontrol(b) PROVE StoreInv'
<1> DEFINE r == [cmd |-> "del", box |-> b]
           steps == Save \o <<"sharedel">> \o Answer("success")
<1>1. jsonroot \in Tree /\ UniqueTree(jsonroot) /\ alive \in BOOLEAN
  BY DEF StoreInv, TypeOK, UniqueIds
<1>2. Handle(r, steps) /\ freed' = freed /\ alive' = alive
        /\ jsonroot' = Drop(jsonroot, b)
  BY DEF DelDpcontrol
<1>3. jsonroot' \in Tree /\ Unique(jsonroot') /\ Part(jsonroot', jsonroot)
        /\ b \notin Ids(jsonroot')
  BY <1>1, <1>2, DropIs DEF Tree, UniqueTree
<1>4. /\ UniqueTree(jsonroot')
      /\ \A c, x : Listed(jsonroot', c, x) => Listed(jsonroot, c, x)
  BY <1>1, <1>3, PartOfTree
<1>5. Plan(steps) /\ In("print", steps) /\ ~In("shareadd", steps) BY DoesDelete
<1>6. r.cmd = "del" /\ r.box = b OBVIOUS
<1> HIDE DEF r, steps
<1> QED BY <1>1, <1>2, <1>3, <1>4, <1>5, <1>6, HandleKeeps

LEMMA ClearKeeps ==
  ASSUME StoreInv, DelAllDpcontrol \/ ClearAlldev PROVE StoreInv'
<1> DEFINE deletes == Save \o <<"sharedel">> \o Answer("success")
           clears == Save \o Answer("success")
<1>1. jsonroot \in Tree /\ UniqueTree(jsonroot) /\ alive \in BOOLEAN
  BY DEF StoreInv, TypeOK, UniqueIds
<1>2. /\ freed' = freed /\ alive' = alive /\ jsonroot' = EverySecond(jsonroot)
      /\ \/ Handle([cmd |-> "delall"], deletes)
         \/ Handle([cmd |-> "clear"], clears)
  BY DEF DelAllDpcontrol, ClearAlldev
<1>3. jsonroot' \in Tree /\ Unique(jsonroot') /\ Part(jsonroot', jsonroot)
  BY <1>1, <1>2, EverySecondIs DEF Tree, UniqueTree
<1>4. /\ UniqueTree(jsonroot')
      /\ \A c, x : Listed(jsonroot', c, x) => Listed(jsonroot, c, x)
  BY <1>1, <1>3, PartOfTree
<1>5. Plan(deletes) /\ In("print", deletes) /\ ~In("shareadd", deletes)
  BY DoesDelete
<1>6. Plan(clears) /\ In("print", clears) /\ ~In("shareadd", clears)
  <2>1. "success" \in Codes BY DEF Codes
  <2>2. Does(clears, {"truncate", "print", "success"}) BY <2>1, DoesAnswer
  <2> QED BY <2>2 DEF Does
<1>7. PICK r \in {[cmd |-> "delall"], [cmd |-> "clear"]},
           steps \in {deletes, clears} : Handle(r, steps)
  BY <1>2
<1>8. r.cmd # "del" /\ r.cmd # "delv3" BY <1>7
<1> HIDE DEF deletes, clears
<1>9. Plan(steps) /\ In("print", steps) /\ ~In("shareadd", steps)
  BY <1>5, <1>6, <1>7
<1> QED BY <1>1, <1>2, <1>3, <1>4, <1>7, <1>8, <1>9, HandleKeeps

LEMMA SetV3Keeps ==
  ASSUME StoreInv, NEW b \in Boxes, NEW x \in Devs, NEW full \in BOOLEAN,
         SetDpcontrolV3(b, x, full)
  PROVE  StoreInv'
<1> DEFINE r == [cmd |-> "setv3", box |-> b, dev |-> x]
           d == [id |-> x, rev |-> sent + 1, full |-> full]
           i == At(jsonroot, b)
           f == [id |-> b, dev |-> <<d>>]
           saves == Save \o Answer("success")
           replaces == Save \o <<"replaceself">> \o Save \o Answer("success")
<1>1. jsonroot \in Tree /\ UniqueTree(jsonroot) /\ alive \in BOOLEAN
  BY DEF StoreInv, TypeOK, UniqueIds
<1>2. PICK steps \in {saves, replaces, Answer("success")} :
        /\ Handle(r, steps) /\ freed' = freed /\ alive' = alive
        /\ \/ jsonroot = <<>> /\ jsonroot' = <<f>> /\ steps = replaces
           \/ /\ b \in Ids(jsonroot) /\ steps = saves
              /\ jsonroot' = WithDev(jsonroot, i, Put(jsonroot[i].dev, d))
           \/ jsonroot' = jsonroot /\ steps = Answer("success")
  BY DEF SetDpcontrolV3, WithDev
<1>3. d \in Device BY <1>2, ConfigAssumption DEF Handle, Device, StoreInv, TypeOK
<1>4. gone' = gone \ {<<b, x>>} BY <1>2 DEF Handle
<1>5. /\ Plan(replaces) /\ In("print", replaces) /\ ~In("shareadd", replaces)
      /\ Plan(saves) /\ In("print", saves) /\ ~In("shareadd", saves)
      /\ Plan(Answer("success")) /\ ~In("shareadd", Answer("success"))
  <2>1. "success" \in Codes BY DEF Codes
  <2>2. /\ Does(saves, {"truncate", "print", "success"})
        /\ Does(Answer("success"), {"success"})
    BY <2>1, DoesAnswer
  <2>3. Plan(replaces) /\ In("print", replaces) /\ ~In("shareadd", replaces)
    BY DoesReplace
  <2> QED BY <2>2, <2>3 DEF Does
<1>6. <<d>> \in Seq(Device) /\ DOMAIN <<d>> = {1} /\ <<d>>[1] = d BY <1>3
<1>7. /\ f \in Box /\ f.id = b /\ f.dev = <<d>> BY <1>6 DEF Box
<1>8. d.id = x /\ r.box = b /\ r.cmd = "setv3" OBVIOUS
<1> HIDE DEF r, d, f, i, saves, replaces
<1>9. /\ jsonroot' \in Tree /\ UniqueTree(jsonroot')
      /\ \A c, y : Listed(jsonroot', c, y) =>
           Listed(jsonroot, c, y) \/ <<c, y>> \notin gone'
  <2>1. CASE jsonroot' = <<f>>
    <3>1. /\ <<f>> \in Seq(Box) /\ DOMAIN <<f>> = {1} /\ <<f>>[1] = f
      BY <1>7
    <3>2. Unique(<<d>>) /\ Ids(<<d>>) = {x} BY <1>6, <1>8 DEF Unique, Ids
    <3>3. Unique(<<f>>) BY <3>1 DEF Unique
    <3>4. UniqueTree(<<f>>) BY <1>7, <3>1, <3>2, <3>3 DEF UniqueTree
    <3>5. \A c, y : Listed(<<f>>, c, y) => c = b /\ y = x
      BY <1>7, <3>1, <3>2 DEF Listed
    <3> QED BY <1>4, <2>1, <3>1, <3>4, <3>5 DEF Tree
  <2>2. CASE b \in Ids(jsonroot)
               /\ jsonroot' = WithDev(jsonroot, i, Put(jsonroot[i].dev, d))
    <3>1. /\ jsonroot' \in Tree /\ UniqueTree(jsonroot')
          /\ \A c, y : Listed(jsonroot', c, y) =>
               Listed(jsonroot, c, y) \/ (c = b /\ y = d.id)
      BY <1>1, <1>3, <2>2, PutInTree DEF i
    <3> QED BY <1>4, <1>8, <3>1
  <2>3. CASE jsonroot' = jsonroot BY <1>1, <2>3
  <2> QED BY <1>2, <2>1, <2>2, <2>3
<1>10. Plan(steps) /\ ~In("shareadd", steps)
         /\ (jsonroot' = jsonroot \/ In("print", steps))
  BY <1>2, <1>5
<1> QED BY <1>1, <1>2, <1>8, <1>9, <1>10, HandleKeeps

LEMMA DelV3Keeps ==
  ASSUME StoreInv, NEW b \in Boxes, NEW x \in Devs, DelDpcontrolV3(b, x)
  PROVE  StoreInv'
<1> DEFINE r == [cmd |-> "delv3", box |-> b, dev |-> x]
           i == At(jsonroot, b)
           found == b \in Ids(jsonroot) /\ x \in Ids(jsonroot[i].dev)
           saves == Save \o Answer("success")
           steps == IF found THEN saves ELSE Answer("notfound")
<1>1. jsonroot \in Tree /\ UniqueTree(jsonroot) /\ alive \in BOOLEAN
  BY DEF StoreInv, TypeOK, UniqueIds
<1>2. /\ Handle(r, steps) /\ freed' = freed /\ alive' = alive
      /\ jsonroot' = IF found THEN WithDev(jsonroot, i, Drop(jsonroot[i].dev, x))
                     ELSE jsonroot
  BY DEF DelDpcontrolV3, WithDev
<1>3. /\ Plan(saves) /\ In("print", saves) /\ ~In("shareadd", saves)
      /\ Plan(Answer("notfound")) /\ ~In("shareadd", Answer("notfound"))
      /\ ~In("success", Answer("notfound"))
  <2>1. "success" \in Codes /\ "notfound" \in Codes BY DEF Codes
  <2>2. /\ Does(saves, {"truncate", "print", "success"})
        /\ Does(Answer("notfound"), {"notfound"})
    BY <2>1, DoesAnswer
  <2> QED BY <2>2 DEF Does
<1>4. r.cmd = "delv3" /\ <<r.box, r.dev>> \in Boxes \X Devs
        /\ r.box = b /\ r.dev = x
  OBVIOUS
<1>5. found => b \in Ids(jsonroot) OBVIOUS
<1> HIDE DEF r, i, found, saves
<1>6. CASE found
  <2>1. /\ jsonroot' \in Tree /\ UniqueTree(jsonroot')
        /\ ~Listed(jsonroot', b, x)
        /\ \A c, y : Listed(jsonroot', c, y) => Listed(jsonroot, c, y)
    BY <1>1, <1>2, <1>5, <1>6, DropFromTree DEF i
  <2>2. Plan(steps) /\ In("print", steps) /\ ~In("shareadd", steps)
    BY <1>3, <1>6
  <2> QED BY <1>1, <1>2, <1>4, <2>1, <2>2, HandleKeeps
<1>7. CASE ~found
  <2>1. Plan(steps) /\ ~In("success", steps) /\ ~In("shareadd", steps)
    BY <1>3, <1>7
  <2>2. jsonroot' = jsonroot BY <1>2, <1>7
  <2> QED BY <1>1, <1>2, <1>4, <2>1, <2>2, HandleKeeps
<1> QED BY <1>6, <1>7

LEMMA RejectKeeps ==
  ASSUME StoreInv, RejectSetXml \/ RejectDelXml PROVE StoreInv'
<1> DEFINE r == [cmd |-> "badxml"]
<1>1. jsonroot \in Tree /\ UniqueTree(jsonroot) /\ alive \in BOOLEAN
  BY DEF StoreInv, TypeOK, UniqueIds
<1>2. PICK c \in Codes : Handle(r, Answer(c))
  BY DEF RejectSetXml, RejectDelXml, Codes
<1>3. /\ freed' = freed /\ alive' = alive /\ jsonroot' = jsonroot
  BY DEF RejectSetXml, RejectDelXml
<1>4. Plan(Answer(c)) /\ ~In("shareadd", Answer(c))
  <2>1. Does(Answer(c), {c}) BY DoesAnswer
  <2> QED BY <1>2, <2>1 DEF Does, Codes
<1>5. r.cmd = "badxml" OBVIOUS
<1> HIDE DEF r
<1> QED BY <1>1, <1>2, <1>3, <1>4, <1>5, HandleKeeps

LEMMA BrokenKeeps ==
  ASSUME StoreInv, BrokenXml PROVE StoreInv'
<1> DEFINE r == [cmd |-> "badxml"]
<1>1. jsonroot \in Tree /\ UniqueTree(jsonroot)
  BY DEF StoreInv, TypeOK, UniqueIds
<1>2. /\ Handle(r, <<>>) /\ freed' = freed /\ jsonroot' = jsonroot
      /\ alive' \in BOOLEAN
  BY DEF BrokenXml
<1>3. Plan(<<>>) /\ ~In("shareadd", <<>>) BY DoesNothing DEF Does
<1>4. r.cmd = "badxml" OBVIOUS
<1> HIDE DEF r
<1> QED BY <1>1, <1>2, <1>3, <1>4, HandleKeeps

LEMMA GetV3Keeps ==
  ASSUME StoreInv, NEW b \in Boxes, NEW x \in Devs, GetDpcontrolV3(b, x)
  PROVE  StoreInv'
<1> DEFINE r == [cmd |-> "getv3", box |-> b, dev |-> x]
<1>1. jsonroot \in Tree /\ UniqueTree(jsonroot)
  BY DEF StoreInv, TypeOK, UniqueIds
<1>2. PICK steps \in {<<>>, Answer("success")} : Handle(r, steps)
  BY DEF GetDpcontrolV3
<1>3. freed' = freed /\ jsonroot' = jsonroot /\ alive' \in BOOLEAN
  BY DEF GetDpcontrolV3
<1>4. Plan(steps) /\ ~In("shareadd", steps)
  <2>1. "success" \in Codes BY DEF Codes
  <2>2. Does(Answer("success"), {"success"}) BY <2>1, DoesAnswer
  <2> QED BY <1>2, <2>2, DoesNothing DEF Does
<1>5. r.cmd = "getv3" OBVIOUS
<1> HIDE DEF r
<1> QED BY <1>1, <1>2, <1>3, <1>4, <1>5, HandleKeeps

-----------------------------------------------------------------------------
(* Each step of a command keeps StoreInv. *)

(* A step has its list shortened by one. *)
LEMMA StepIs ==
  ASSUME StoreInv, NEW s, Step(s)
  PROVE  /\ alive /\ In(s, todo) /\ Plan(todo') /\ todo' \in Seq(Steps)
         /\ \A t : In(t, todo) <=> t = s \/ In(t, todo')
         /\ s = "truncate" => In("print", todo')
         /\ s \in Codes => todo' = <<>>
<1>1. Plan(todo) BY TodoType DEF StoreInv, Promises, Plan
<1>2. alive /\ todo # <<>> /\ Head(todo) = s /\ todo' = Tail(todo) BY DEF Step
<1> QED BY <1>1, <1>2, PlanTail DEF Plan

LEMMA TypeStep ==
  ASSUME StoreInv, todo' \in Seq(Steps), config' \in Tree \union {Torn},
         share' \in Seq([id : Boxes]), freed' \in BOOLEAN,
         gone' \subseteq Boxes \X Devs,
         UNCHANGED <<jsonroot, alive, sent, restarts>>
  PROVE  TypeOK'
BY StepsAre DEF StoreInv, TypeOK

(* Steps that leave memory and the deletions as they are. *)
LEMMA StepKeeps ==
  ASSUME StoreInv, NEW s, Step(s), s \notin Codes,
         UNCHANGED <<jsonroot, request, alive, sent, restarts, gone>>,
         freed' \in BOOLEAN, Printed \subseteq Printed',
         share' \in Seq([id : Boxes]), Unique(share'),
         config' \in Tree \union {Torn},
         config' # Torn => UniqueTree(config') /\ Forgotten(config'),
         In("print", todo') \/ config' \in Printed'
           \/ (config' = config /\ s # "print")
  PROVE  StoreInv'
<1>1. /\ alive /\ Plan(todo') /\ todo' \in Seq(Steps)
      /\ \A t : In(t, todo) <=> t = s \/ In(t, todo')
  BY StepIs
<1>2. TypeOK'
  <2>1. gone' \subseteq Boxes \X Devs BY DEF StoreInv, TypeOK
  <2> QED BY <1>1, <2>1, TypeStep
<1>3. UniqueIds' BY DEF StoreInv, UniqueIds
<1>4. (config # Torn => UniqueTree(config) /\ Forgotten(config))'
  BY DEF Forgotten
<1>5. Forgotten(jsonroot)' BY DEF StoreInv, Forgotten
<1>6. Promises'
  <2>1. (alive /\ ~In("print", todo) => config \in Printed)'
    <3>1. CASE config' = config /\ s # "print"
      <4>1. In("print", todo) <=> In("print", todo') BY <1>1, <3>1
      <4>2. alive /\ ~In("print", todo) => config \in Printed
        BY DEF StoreInv, Promises
      <4> QED BY <3>1, <4>1, <4>2
    <3> QED BY <3>1
  <2>2. (Paired(todo) /\ CodesLast(todo))' BY <1>1 DEF Plan
  <2>3. /\ In("shareadd", todo') => In("shareadd", todo)
        /\ In("success", todo') => In("success", todo)
    BY <1>1
  <2> QED BY <2>1, <2>2, <2>3 DEF StoreInv, Promises
<1> QED BY <1>2, <1>3, <1>4, <1>5, <1>6 DEF StoreInv

LEMMA TruncateKeeps == ASSUME StoreInv, Truncate PROVE StoreInv'
<1>1. Step("truncate") /\ config' = Torn BY DEF Truncate
<1>2. UNCHANGED <<jsonroot, freed, share, request, alive, sent, restarts, gone>>
  BY DEF Truncate
<1>3. In("print", todo') BY <1>1, StepIs
<1>4. "truncate" \notin Codes BY DEF Codes
<1>5. Printed' = Printed BY <1>2 DEF Printed
<1>6. freed' \in BOOLEAN /\ share' \in Seq([id : Boxes]) /\ Unique(share')
  BY <1>2 DEF StoreInv, TypeOK, UniqueIds
<1> QED BY <1>1, <1>2, <1>3, <1>4, <1>5, <1>6, StepKeeps

LEMMA WriteTreeKeeps == ASSUME StoreInv, WriteTree PROVE StoreInv'
<1>1. Step("print") /\ config' \in Printed BY DEF WriteTree
<1>2. UNCHANGED <<jsonroot, freed, share, request, alive, sent, restarts, gone>>
  BY DEF WriteTree
<1>3. "print" \notin Codes BY DEF Codes
<1>4. Printed' = Printed BY <1>2 DEF Printed
<1>5. freed' \in BOOLEAN /\ share' \in Seq([id : Boxes]) /\ Unique(share')
  BY <1>2 DEF StoreInv, TypeOK, UniqueIds
<1>6. jsonroot \in Tree /\ UniqueTree(jsonroot) BY DEF StoreInv, TypeOK, UniqueIds
<1>7. config' # Torn => config' \in Tree /\ UniqueTree(config') /\ Forgotten(config')
  <2>1. SUFFICES ASSUME config' # Torn
                 PROVE  config' \in Tree /\ UniqueTree(config') /\ Forgotten(config')
    OBVIOUS
  <2>2. /\ config' \in Tree /\ UniqueTree(config')
        /\ \A b, x : Listed(config', b, x) => Listed(jsonroot, b, x)
    BY <1>1, <1>6, <2>1, PrintedIs
  <2> QED BY <2>2 DEF StoreInv, Forgotten
<1> QED BY <1>1, <1>2, <1>3, <1>4, <1>5, <1>7, StepKeeps

LEMMA ReplaceSelfKeeps == ASSUME StoreInv, ReplaceSelf PROVE StoreInv'
<1>1. Step("replaceself") /\ freed' = TRUE BY DEF ReplaceSelf
<1>2. UNCHANGED <<jsonroot, config, share, request, alive, sent, restarts, gone>>
  BY DEF ReplaceSelf
<1>3. "replaceself" \notin Codes BY DEF Codes
<1>4. Printed \subseteq Printed' BY <1>1, <1>2 DEF Printed
<1>5. /\ share' \in Seq([id : Boxes]) /\ Unique(share')
      /\ config' \in Tree \union {Torn}
      /\ config' # Torn => UniqueTree(config') /\ Forgotten(config')
  BY <1>2 DEF StoreInv, TypeOK, UniqueIds
<1> QED BY <1>1, <1>2, <1>3, <1>4, <1>5, StepKeeps

LEMMA ShareAddKeeps == ASSUME StoreInv, ShareAdd PROVE StoreInv'
<1>1. /\ Step("shareadd")
      /\ share' = IF request.box \in Ids(share) THEN share
                  ELSE Append(share, [id |-> request.box])
  BY DEF ShareAdd
<1>2. UNCHANGED <<jsonroot, freed, config, request, alive, sent, restarts, gone>>
  BY DEF ShareAdd
<1>3. "shareadd" \notin Codes BY DEF Codes
<1>4. Printed' = Printed BY <1>2 DEF Printed
<1>5. /\ freed' \in BOOLEAN /\ config' \in Tree \union {Torn}
      /\ config' # Torn => UniqueTree(config') /\ Forgotten(config')
  BY <1>2 DEF StoreInv, TypeOK
<1>6. share \in Seq([id : Boxes]) /\ Unique(share)
  BY DEF StoreInv, TypeOK, UniqueIds
<1>7. share' \in Seq([id : Boxes]) /\ Unique(share')
  <2>1. CASE request.box \in Ids(share) BY <1>1, <1>6, <2>1
  <2>2. CASE request.box \notin Ids(share)
    <3>1. request.box \in Boxes
      <4>1. In("shareadd", todo) BY <1>1, StepIs
      <4> QED BY <4>1 DEF StoreInv, Promises
    <3> DEFINE e == [id |-> request.box]
    <3>2. e \in [id : Boxes] /\ e.id = request.box BY <3>1
    <3>3. share' = Append(share, e) BY <1>1, <2>2
    <3>4. \A k \in DOMAIN share : share[k].id # e.id BY <2>2, <3>2 DEF Ids
    <3> HIDE DEF e
    <3>5. /\ share' \in Seq([id : Boxes])
          /\ Len(share) \in Nat /\ DOMAIN share = 1..Len(share)
          /\ DOMAIN share' = 1..(Len(share) + 1) /\ share'[Len(share) + 1] = e
          /\ \A k \in 1..Len(share) : share'[k] = share[k]
      BY <1>6, <3>2, <3>3, AppendProperties, LenProperties
    <3>6. \A k \in 1..(Len(share) + 1) : k \in 1..Len(share) \/ k = Len(share) + 1
      BY <3>5
    <3> QED BY <1>6, <3>4, <3>5, <3>6 DEF Unique
  <2> QED BY <2>1, <2>2
<1> QED BY <1>1, <1>2, <1>3, <1>4, <1>5, <1>7, StepKeeps

LEMMA ShareDelKeeps == ASSUME StoreInv, ShareDel PROVE StoreInv'
<1>1. /\ Step("sharedel")
      /\ share' = EverySecond(share) \/ share' = Drop(share, request.box)
  BY DEF ShareDel
<1>2. UNCHANGED <<jsonroot, freed, config, request, alive, sent, restarts, gone>>
  BY DEF ShareDel
<1>3. "sharedel" \notin Codes BY DEF Codes
<1>4. Printed' = Printed BY <1>2 DEF Printed
<1>5. /\ freed' \in BOOLEAN /\ config' \in Tree \union {Torn}
      /\ config' # Torn => UniqueTree(config') /\ Forgotten(config')
  BY <1>2 DEF StoreInv, TypeOK
<1>6. share \in Seq([id : Boxes]) /\ Unique(share)
  BY DEF StoreInv, TypeOK, UniqueIds
<1>7. share' \in Seq([id : Boxes]) /\ Unique(share')
  <2>1. CASE share' = EverySecond(share) BY <1>6, <2>1, EverySecondIs
  <2>2. CASE share' = Drop(share, request.box) BY <1>6, <2>2, DropIs
  <2> QED BY <1>1, <2>1, <2>2
<1> QED BY <1>1, <1>2, <1>3, <1>4, <1>5, <1>7, StepKeeps

(* What an answer tells the web to be gone is gone from memory, and the    *)
(* file is a print of it.                                                  *)
LEMMA ReplyKeeps == ASSUME StoreInv, Reply PROVE StoreInv'
<1>1. PICK code \in Codes :
        /\ Step(code)
        /\ gone' = CASE code = "success" /\ request.cmd = "delv3" ->
                          gone \union {<<request.box, request.dev>>}
                     [] code = "success" /\ request.cmd = "del" ->
                          gone \union ({request.box} \X Devs)
                     [] OTHER -> gone
  BY DEF Reply, Codes
<1>2. UNCHANGED <<jsonroot, freed, config, share, alive, sent, restarts>>
  BY DEF Reply
<1>3. /\ alive /\ In(code, todo) /\ todo' \in Seq(Steps) /\ Plan(todo')
      /\ \A t : In(t, todo) <=> t = code \/ In(t, todo')
      /\ todo' = <<>>
  BY <1>1, StepIs
<1>4. \A t : ~In(t, todo') BY <1>3 DEF In
<1>5. jsonroot \in Tree /\ UniqueTree(jsonroot) BY DEF StoreInv, TypeOK, UniqueIds
<1>6. /\ gone' \subseteq Boxes \X Devs
      /\ \A g \in gone' : ~Listed(jsonroot, g[1], g[2])
  <2>1. /\ gone \subseteq Boxes \X Devs
        /\ \A g \in gone : ~Listed(jsonroot, g[1], g[2])
    BY DEF StoreInv, TypeOK, Forgotten
  <2>2. CASE code = "success" /\ request.cmd = "delv3"
    <3>1. gone' = gone \union {<<request.box, request.dev>>} BY <1>1, <2>2
    <3>2. /\ <<request.box, request.dev>> \in Boxes \X Devs
          /\ ~Listed(jsonroot, request.box, request.dev)
      BY <1>3, <2>2 DEF StoreInv, Promises
    <3> QED BY <2>1, <3>1, <3>2
  <2>3. CASE code = "success" /\ request.cmd = "del"
    <3>1. gone' = gone \union ({request.box} \X Devs) BY <1>1, <2>3
    <3>2. request.box \in Boxes /\ request.box \notin Ids(jsonroot)
      BY <1>3, <2>3 DEF StoreInv, Promises
    <3>3. \A x : ~Listed(jsonroot, request.box, x) BY <3>2 DEF Listed, Ids
    <3> QED BY <2>1, <3>1, <3>2, <3>3
  <2>4. CASE ~(code = "success" /\ request.cmd = "delv3")
               /\ ~(code = "success" /\ request.cmd = "del")
    BY <1>1, <2>1, <2>4
  <2> QED BY <2>2, <2>3, <2>4
<1>7. config \in Printed
  <2>1. ~In("print", todo) BY <1>3, <1>4 DEF Codes
  <2> QED BY <1>3, <2>1 DEF StoreInv, Promises
<1>8. TypeOK'
  BY <1>2, <1>3, <1>6, TypeStep DEF StoreInv, TypeOK
<1>9. (config # Torn => UniqueTree(config) /\ Forgotten(config))'
  <2>1. SUFFICES ASSUME config # Torn
                 PROVE  /\ UniqueTree(config)
                        /\ \A g \in gone' : ~Listed(config, g[1], g[2])
    BY <1>2 DEF Forgotten
  <2>2. \A b, x : Listed(config, b, x) => Listed(jsonroot, b, x)
    BY <1>5, <1>7, <2>1, PrintedIs
  <2> QED BY <1>6, <2>1, <2>2 DEF StoreInv
<1>10. UniqueIds' BY <1>2 DEF StoreInv, UniqueIds
<1>11. Forgotten(jsonroot)' BY <1>2, <1>6 DEF Forgotten
<1>12. Printed' = Printed BY <1>2 DEF Printed
<1>13. Promises' BY <1>2, <1>3, <1>4, <1>7, <1>12 DEF Promises, Plan
<1> QED BY <1>8, <1>9, <1>10, <1>11, <1>13 DEF StoreInv

LEMMA DieKeeps == ASSUME StoreInv, Die PROVE StoreInv'
<1>1. /\ alive' = FALSE /\ todo' = <<>>
      /\ UNCHANGED <<jsonroot, freed, config, share, sent, restarts, gone>>
  BY DEF Die
<1>2. TypeOK' BY <1>1, StepsAre DEF StoreInv, TypeOK
<1>3. (UniqueIds /\ Forgotten(jsonroot)
         /\ (config # Torn => UniqueTree(config) /\ Forgotten(config)))'
  BY <1>1 DEF StoreInv, UniqueIds, Forgotten
<1>4. Plan(todo') /\ \A t : ~In(t, todo')
  BY <1>1, DoesNothing DEF Does
<1>5. Promises' BY <1>1, <1>4 DEF Promises, Plan
<1> QED BY <1>2, <1>3, <1>5 DEF StoreInv

(* What boot starts from. *)
LEMMA BootIs ==
  ASSUME NEW tree \in Tree, UniqueTree(tree), NEW u, u = IdList(tree)
  PROVE  tree # Torn /\ u \in Seq([id : Boxes]) /\ Unique(u)
BY IdListIs, TreeAssumption

LEMMA DefaultIs ==
  Default \in Tree /\ UniqueTree(Default) /\ \A b, x : ~Listed(Default, b, x)
<1>1. Default = <<>> /\ DOMAIN Default = {} BY DEF Default
<1> QED BY <1>1 DEF Tree, UniqueTree, Unique, Listed

LEMMA RestartKeeps == ASSUME StoreInv, Restart PROVE StoreInv'
<1>1. /\ jsonroot' = IF config = Torn THEN Default ELSE config
      /\ config' = jsonroot' /\ share' = IdList(jsonroot')
      /\ freed' = FALSE /\ alive' = TRUE /\ todo' = <<>>
      /\ sent' = sent /\ gone' = gone
  BY DEF Restart
<1>2. restarts' \in 0..MaxRestarts
  BY ConfigAssumption DEF Restart, StoreInv, TypeOK
<1>3. /\ jsonroot' \in Tree /\ UniqueTree(jsonroot')
      /\ \A g \in gone : ~Listed(jsonroot', g[1], g[2])
  BY <1>1, DefaultIs DEF StoreInv, TypeOK, Forgotten
<1>4. share' \in Seq([id : Boxes]) /\ Unique(share')
  BY <1>1, <1>3, BootIs
<1>5. TypeOK' BY <1>1, <1>2, <1>3, <1>4, StepsAre DEF StoreInv, TypeOK
<1>6. (UniqueIds /\ Forgotten(jsonroot)
         /\ (config # Torn => UniqueTree(config) /\ Forgotten(config)))'
  BY <1>1, <1>3, <1>4 DEF UniqueIds, Forgotten
<1>7. Plan(todo') /\ \A t : ~In(t, todo')
  BY <1>1, DoesNothing DEF Does
<1>8. Promises' BY <1>1, <1>7 DEF Promises, Plan, Printed
<1> QED BY <1>5, <1>6, <1>8 DEF StoreInv

LEMMA StoreInit == Init => StoreInv
<1>1. SUFFICES ASSUME Init PROVE StoreInv OBVIOUS
<1>2. jsonroot \in Tree /\ UniqueTree(jsonroot)
  BY <1>1, DefaultIs, TreeAssumption DEF Init
<1>3. share \in Seq([id : Boxes]) /\ Unique(share)
  BY <1>1, <1>2, BootIs DEF Init
<1>4. TypeOK
  <2>1. sent \in 0..MaxCommands /\ restarts \in 0..MaxRestarts
    BY <1>1, ConfigAssumption DEF Init
  <2> QED BY <1>1, <1>2, <1>3, <2>1, StepsAre DEF Init, TypeOK
<1>5. UniqueIds /\ Forgotten(jsonroot) /\ UniqueTree(config) /\ Forgotten(config)
  BY <1>1, <1>2, <1>3 DEF Init, UniqueIds, Forgotten
<1>6. Plan(todo) /\ \A t : ~In(t, todo) BY <1>1, DoesNothing DEF Init, Does
<1>7. Promises BY <1>1, <1>6 DEF Init, Promises, Plan, Printed
<1> QED BY <1>4, <1>5, <1>7 DEF StoreInv

LEMMA StoreStep == StoreInv /\ [Next]_vars => StoreInv'
<1>1. SUFFICES ASSUME StoreInv, [Next]_vars PROVE StoreInv' OBVIOUS
<1>2. CASE Command
  BY <1>1, <1>2, SetKeeps, DelKeeps, ClearKeeps, SetV3Keeps, DelV3Keeps,
     RejectKeeps, BrokenKeeps, GetV3Keeps DEF Command
<1>3. CASE Truncate BY <1>1, <1>3, TruncateKeeps
<1>4. CASE WriteTree BY <1>1, <1>4, WriteTreeKeeps
<1>5. CASE ReplaceSelf BY <1>1, <1>5, ReplaceSelfKeeps
<1>6. CASE ShareAdd BY <1>1, <1>6, ShareAddKeeps
<1>7. CASE ShareDel BY <1>1, <1>7, ShareDelKeeps
<1>8. CASE Reply BY <1>1, <1>8, ReplyKeeps
<1>9. CASE Die BY <1>1, <1>9, DieKeeps
<1>10. CASE Restart BY <1>1, <1>10, RestartKeeps
<1>11. CASE UNCHANGED vars
  BY <1>1, <1>11 DEF vars, StoreInv, TypeOK, UniqueIds, Forgotten, Promises, Printed
<1> QED BY <1>1, <1>2, <1>3, <1>4, <1>5, <1>6, <1>7, <1>8, <1>9, <1>10, <1>11
        DEF Next

LEMMA StoreInvSound == StoreInv => StoreSound
<1>1. SUFFICES ASSUME StoreInv PROVE StoreSound OBVIOUS
<1>2. TypeOK /\ UniqueIds BY <1>1 DEF StoreInv
<1>3. DiskMatchesMemory
  <2>1. SUFFICES ASSUME Idle, ~freed PROVE config = jsonroot
    BY DEF DiskMatchesMemory
  <2>2. ~In("print", todo) BY <2>1 DEF Idle, In
  <2> QED BY <1>1, <2>1, <2>2 DEF StoreInv, Promises, Idle, Printed
<1>4. DeletedStaysDeleted
  <2>1. SUFFICES ASSUME NEW g \in gone
                 PROVE  /\ ~Has(jsonroot, g[1], g[2])
                        /\ config # Torn => ~Has(config, g[1], g[2])
    BY DEF DeletedStaysDeleted
  <2>2. ~Listed(jsonroot, g[1], g[2]) BY <1>1 DEF StoreInv, Forgotten
  <2>3. config # Torn => ~Listed(config, g[1], g[2]) BY <1>1 DEF StoreInv, Forgotten
  <2>4. jsonroot \in Tree /\ UniqueTree(jsonroot) BY <1>2 DEF TypeOK, UniqueIds
  <2>5. config # Torn => config \in Tree /\ UniqueTree(config)
    BY <1>1 DEF StoreInv, TypeOK
  <2> QED BY <2>2, <2>3, <2>4, <2>5, HasIs
<1> QED BY <1>2, <1>3, <1>4 DEF StoreSound

-----------------------------------------------------------------------------
(* Ids stay unique, the file follows the memory and nothing that was       *)
(* deleted comes back, whatever the commands and the power cuts between    *)
(* their steps (Recv_Function, the two XML functions, SaveJsonToFile).     *)
THEOREM StoreIsSound == Spec => []StoreSound
<1>1. Spec => []StoreInv BY StoreInit, StoreStep, PTL DEF Spec
<1> QED BY <1>1, StoreInvSound, PTL

-----------------------------------------------------------------------------
(* The other boxes. *)

LEMMA OthersAre ==
  ASSUME NEW t, NEW b, NEW z
  PROVE  z \in Others(t, b) <=>
           \E i, k \in DOMAIN t :
             t[i].id # b /\ t[k].id # b /\ i <= k /\ z = <<t[i], t[k]>>
<1> DEFINE rest == {i \in DOMAIN t : t[i].id # b}
           pairs == {r \in rest \X rest : r[1] <= r[2]}
<1>1. z \in Others(t, b) <=> \E p \in pairs : z = <<t[p[1]], t[p[2]]>>
  BY DEF Others
<1>2. ASSUME NEW p \in pairs, z = <<t[p[1]], t[p[2]]>>
      PROVE  \E i, k \in DOMAIN t :
               t[i].id # b /\ t[k].id # b /\ i <= k /\ z = <<t[i], t[k]>>
  BY <1>2
<1>3. ASSUME NEW i \in DOMAIN t, NEW k \in DOMAIN t,
             t[i].id # b, t[k].id # b, i <= k, z = <<t[i], t[k]>>
      PROVE  \E p \in pairs : z = <<t[p[1]], t[p[2]]>>
  <2>1. <<i, k>> \in pairs BY <1>3
  <2>2. <<i, k>>[1] = i /\ <<i, k>>[2] = k OBVIOUS
  <2> HIDE DEF pairs
  <2> QED BY <1>3, <2>1, <2>2
<1> HIDE DEF pairs
<1> QED BY <1>1, <1>2, <1>3

(* Boxes that stay at their places, but for the one of the command. *)
LEMMA OthersInPlace ==
  ASSUME NEW q, NEW r, NEW b, DOMAIN r = DOMAIN q,
         \A k \in DOMAIN q : r[k] = q[k] \/ (r[k].id = b /\ q[k].id = b)
  PROVE  Others(r, b) = Others(q, b)
<1>1. ASSUME NEW z, z \in Others(r, b) PROVE z \in Others(q, b)
  <2>1. PICK i \in DOMAIN q, k \in DOMAIN q :
          r[i].id # b /\ r[k].id # b /\ i <= k /\ z = <<r[i], r[k]>>
    BY <1>1, OthersAre
  <2>2. r[i] = q[i] /\ r[k] = q[k] BY <2>1
  <2> QED BY <2>1, <2>2, OthersAre
<1>2. ASSUME NEW z, z \in Others(q, b) PROVE z \in Others(r, b)
  <2>1. PICK i \in DOMAIN q, k \in DOMAIN q :
          q[i].id # b /\ q[k].id # b /\ i <= k /\ z = <<q[i], q[k]>>
    BY <1>2, OthersAre
  <2>2. r[i] = q[i] /\ r[k] = q[k] BY <2>1
  <2> QED BY <2>1, <2>2, OthersAre
<1> QED BY <1>1, <1>2

(* Editing the devices of the box. *)
LEMMA OthersOfEdit ==
  ASSUME NEW q \in Tree, UniqueTree(q), NEW b \in Ids(q), NEW e
  PROVE  Others(WithDev(q, At(q, b), e), b) = Others(q, b)
<1> DEFINE i == At(q, b)
           r == WithDev(q, i, e)
<1>1. i \in DOMAIN q /\ q[i].id = b BY AtIs DEF Tree, UniqueTree
<1> HIDE DEF i
<1>2. q[i] \in [id : Boxes, dev : Seq(Device)]
  <2>1. q \in Seq(Box) /\ Len(q) \in Nat /\ DOMAIN q = 1..Len(q)
    BY LenProperties DEF Tree
  <2>2. q[i] \in Box BY <1>1, <2>1, ElementOfSeq
  <2> QED BY <2>2 DEF Box
<1>3. [q[i] EXCEPT !.dev = e].id = b BY <1>1, <1>2
<1>4. /\ DOMAIN r = DOMAIN q
      /\ \A k \in DOMAIN q : r[k] = IF k = i THEN [q[i] EXCEPT !.dev = e] ELSE q[k]
  BY <1>1 DEF WithDev, Tree
<1> HIDE DEF r
<1>5. \A k \in DOMAIN q : r[k] = q[k] \/ (r[k].id = b /\ q[k].id = b)
  BY <1>1, <1>3, <1>4
<1>6. Others(r, b) = Others(q, b) BY <1>4, <1>5, OthersInPlace
<1> QED BY <1>6 DEF r, i

(* Deleting the box. *)
LEMMA OthersOfDrop ==
  ASSUME NEW q \in Tree, UniqueTree(q), NEW b
  PROVE  Others(Drop(q, b), b) = Others(q, b)
<1> DEFINE r == Drop(q, b)
<1>1. CASE b \notin Ids(q) BY <1>1 DEF Drop
<1>2. CASE b \in Ids(q)
  <2> DEFINE i == At(q, b)
  <2>1. i \in DOMAIN q /\ q[i].id = b /\ q \in Seq(Box) BY <1>2, AtIs DEF Tree, UniqueTree
  <2>2. r = RemoveAt(q, i) BY <1>2 DEF Drop
  <2> HIDE DEF r, i
  <2>3. /\ DOMAIN r = 1..(Len(q) - 1) /\ Len(q) \in Nat /\ DOMAIN q = 1..Len(q)
        /\ \A k \in DOMAIN r : r[k] = IF k < i THEN q[k] ELSE q[k + 1]
    BY <2>1, <2>2, RemoveAtIs
  <2>4. ASSUME NEW z, z \in Others(r, b) PROVE z \in Others(q, b)
    <3>1. PICK m \in DOMAIN r, n \in DOMAIN r :
            r[m].id # b /\ r[n].id # b /\ m <= n /\ z = <<r[m], r[n]>>
      BY <2>4, OthersAre
    <3> DEFINE M == IF m < i THEN m ELSE m + 1
               N == IF n < i THEN n ELSE n + 1
    <3>2. M \in DOMAIN q /\ N \in DOMAIN q /\ M <= N BY <2>1, <2>3, <3>1
    <3>3. r[m] = q[M] /\ r[n] = q[N] BY <2>3
    <3> HIDE DEF M, N
    <3> QED BY <3>1, <3>2, <3>3, OthersAre
  <2>5. ASSUME NEW z, z \in Others(q, b) PROVE z \in Others(r, b)
    <3>1. PICK M \in DOMAIN q, N \in DOMAIN q :
            q[M].id # b /\ q[N].id # b /\ M <= N /\ z = <<q[M], q[N]>>
      BY <2>5, OthersAre
    <3> DEFINE m == IF M < i THEN M ELSE M - 1
               n == IF N < i THEN N ELSE N - 1
    <3>2. M # i /\ N # i BY <2>1, <3>1
    <3>3. m \in DOMAIN r /\ n \in DOMAIN r /\ m <= n BY <2>1, <2>3, <3>1, <3>2
    <3>4. r[m] = q[M] /\ r[n] = q[N]
      <4>1. CASE M < i /\ N < i BY <2>3, <3>3, <4>1
      <4>2. CASE M < i /\ ~(N < i) BY <2>1, <2>3, <3>2, <3>3, <4>2
      <4>3. CASE ~(M < i) /\ N < i BY <2>1, <2>3, <3>2, <3>3, <4>3
      <4>4. CASE ~(M < i) /\ ~(N < i) BY <2>1, <2>3, <3>2, <3>3, <4>4
      <4> QED BY <4>1, <4>2, <4>3, <4>4
    <3> HIDE DEF m, n
    <3> QED BY <3>1, <3>3, <3>4, OthersAre
  <2>6. Others(r, b) = Others(q, b) BY <2>4, <2>5
  <2> QED BY <2>6 DEF r
<1> QED BY <1>1, <1>2

(* One command. *)
LEMMA CommandLeavesOthers ==
  ASSUME StoreInv, Command,
         request'.cmd \in {"set", "del", "setv3", "delv3", "getv3"}
  PROVE  Others(jsonroot', request'.box) = Others(jsonroot, request'.box)
<1>1. jsonroot \in Tree /\ UniqueTree(jsonroot) BY DEF StoreInv, TypeOK, UniqueIds
<1>2. CASE UNCHANGED jsonroot BY <1>2
<1>3. ASSUME NEW b \in Boxes, SetDpcontrol(b), jsonroot' # jsonroot
      PROVE  Others(jsonroot', request'.box) = Others(jsonroot, request'.box)
  <2> DEFINE i == At(jsonroot, b)
             d == [id |-> DevOne, rev |-> sent + 1, full |-> FALSE]
  <2>1. b \in Ids(jsonroot) /\ jsonroot' = WithDev(jsonroot, i, Put(jsonroot[i].dev, d))
    BY <1>3 DEF SetDpcontrol, WithDev
  <2>2. request'.box = b BY <1>3 DEF SetDpcontrol, Handle
  <2> HIDE DEF d
  <2> QED BY <1>1, <2>1, <2>2, OthersOfEdit
<1>4. ASSUME NEW b \in Boxes, DelDpcontrol(b)
      PROVE  Others(jsonroot', request'.box) = Others(jsonroot, request'.box)
  <2>1. request'.box = b /\ jsonroot' = Drop(jsonroot, b)
    BY <1>4 DEF DelDpcontrol, Handle
  <2> QED BY <1>1, <2>1, OthersOfDrop
<1>5. ASSUME NEW b \in Boxes, NEW x \in Devs, NEW full \in BOOLEAN,
             SetDpcontrolV3(b, x, full), jsonroot' # jsonroot
      PROVE  Others(jsonroot', request'.box) = Others(jsonroot, request'.box)
  <2> DEFINE i == At(jsonroot, b)
             d == [id |-> x, rev |-> sent + 1, full |-> full]
             made == [id |-> b, dev |-> <<d>>]
  <2>1. request'.box = b BY <1>5 DEF SetDpcontrolV3, Handle
  <2>2. \/ jsonroot = <<>> /\ jsonroot' = <<made>>
        \/ b \in Ids(jsonroot) /\ jsonroot' = WithDev(jsonroot, i, Put(jsonroot[i].dev, d))
    BY <1>5 DEF SetDpcontrolV3, WithDev
  <2>3. CASE jsonroot = <<>> /\ jsonroot' = <<made>>
    <3>1. made.id = b OBVIOUS
    <3> HIDE DEF made
    <3>2. DOMAIN jsonroot = {} /\ DOMAIN jsonroot' = {1} /\ jsonroot'[1].id = b
      BY <2>3, <3>1
    <3>3. \A z : z \notin Others(jsonroot, b) /\ z \notin Others(jsonroot', b)
      BY <3>2, OthersAre
    <3> QED BY <2>1, <3>3
  <2>4. CASE b \in Ids(jsonroot)
             /\ jsonroot' = WithDev(jsonroot, i, Put(jsonroot[i].dev, d))
    <3> HIDE DEF d
    <3> QED BY <1>1, <2>1, <2>4, OthersOfEdit
  <2> QED BY <2>2, <2>3, <2>4
<1>6. ASSUME NEW b \in Boxes, NEW x \in Devs, DelDpcontrolV3(b, x), jsonroot' # jsonroot
      PROVE  Others(jsonroot', request'.box) = Others(jsonroot, request'.box)
  <2> DEFINE i == At(jsonroot, b)
  <2>1. request'.box = b BY <1>6 DEF DelDpcontrolV3, Handle
  <2>2. b \in Ids(jsonroot) /\ jsonroot' = WithDev(jsonroot, i, Drop(jsonroot[i].dev, x))
    BY <1>6 DEF DelDpcontrolV3, WithDev
  <2> QED BY <1>1, <2>1, <2>2, OthersOfEdit
<1>7. ASSUME DelAllDpcontrol \/ ClearAlldev PROVE FALSE
  BY <1>7 DEF DelAllDpcontrol, ClearAlldev, Handle
<1>8. ASSUME RejectSetXml \/ RejectDelXml \/ BrokenXml PROVE UNCHANGED jsonroot
  BY <1>8 DEF RejectSetXml, RejectDelXml, BrokenXml
<1>9. ASSUME NEW b \in Boxes, NEW x \in Devs, GetDpcontrolV3(b, x)
      PROVE  UNCHANGED jsonroot
  BY <1>9 DEF GetDpcontrolV3
<1> QED BY <1>2, <1>3, <1>4, <1>5, <1>6, <1>7, <1>8, <1>9 DEF Command

(* A command for one box leaves the others as they are, whatever the tree  *)
(* in memory has come to.                                                  *)
THEOREM OthersAreUntouched == Spec => OthersUntouched
<1>1. ASSUME StoreInv, [Next]_vars
      PROVE  [(sent' # sent /\ request'.cmd \in {"set", "del", "setv3", "delv3", "getv3"})
                => LET b == request'.box IN
                     Others(jsonroot', b) = Others(jsonroot, b)]_vars
  <2>1. CASE UNCHANGED vars BY <2>1
  <2>2. CASE Command BY <2>2, <1>1, CommandLeavesOthers
  <2>3. CASE Truncate \/ WriteTree \/ ReplaceSelf \/ ShareAdd \/ ShareDel \/ Reply \/ Die
             \/ Restart
    BY <2>3 DEF Truncate, WriteTree, ReplaceSelf, ShareAdd, ShareDel, Reply, Die, Restart
  <2> QED BY <1>1, <2>1, <2>2, <2>3 DEF Next
<1> QED BY <1>1, StoreInit, StoreStep, PTL DEF Spec, OthersUntouched
=============================================================================
