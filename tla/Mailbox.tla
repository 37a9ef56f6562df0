------------------------------ MODULE Mailbox ------------------------------
(***************************************************************************)
(* What sharemem.json promises the web about its relay commands, without   *)
(* the file, its copies and its lock.  A command that has been echoed is   *)
(* sent to its relay box in one message; the commands of a box go out in   *)
(* the order of the echoes, and none that was never echoed.  A message may *)
(* be repeated, up to MaxWrites times in all, but only before any other is *)
(* sent: no box is ever sent an old command behind a newer one.  A save    *)
(* that overwrites what its writer has not read ends the promise until the *)
(* next power cycle, which also drops what was waiting.                    *)
(***************************************************************************)
EXTENDS Naturals, Sequences, FiniteSets

CONSTANTS
  Boxes,      \* the relay boxes
  MaxWrites   \* how often a message may be sent

VARIABLES
  acked,    \* commands that have been echoed since the last power cycle
  done,     \* what each relay box has been sent, in order, with repetitions
  message,  \* the message sent last
  writes,   \* how often; 0 when it will not be repeated
  broken    \* the promise is off

vars == <<acked, done, message, writes, broken>>

(* A command is its number of arrival and its relay box. *)
Delivered(c) == {done[c][i] : i \in DOMAIN done[c]}
Undelivered(c) == {t \in acked : t[2] = c /\ t \notin Delivered(c)}

(* The commands of a set in the order of their numbers: the one sequence. *)
InOrder(S) ==
  {q \in [1..Cardinality(S) -> S] :
     \A i, j \in DOMAIN q : i < j => q[i][1] < q[j][1]}

Nothing == [id |-> "none", cmd |-> <<>>]

Init ==
  /\ acked = {} /\ done = [c \in Boxes |-> <<>>]
  /\ message = Nothing /\ writes = 0 /\ broken = FALSE

Acknowledge ==
  /\ ~broken
  /\ \E t \in acked' \ acked :
       /\ acked' = acked \union {t}
       /\ \A u \in acked : u[1] < t[1]
  /\ UNCHANGED <<done, message, writes, broken>>

(* A relay box gets some of the commands that wait for it, none of those   *)
(* that stay behind being older.                                           *)
Deliver(c) ==
  /\ ~broken
  /\ \E batch \in SUBSET Undelivered(c) :
       /\ batch # {}
       /\ \A t \in batch : \A u \in Undelivered(c) \ batch : t[1] < u[1]
       /\ \E q \in InOrder(batch) :
            /\ done' = [done EXCEPT ![c] = @ \o q]
            /\ message' = [id |-> c, cmd |-> q]
  /\ writes' = 1
  /\ UNCHANGED <<acked, broken>>

(* Nothing answers. *)
Repeat ==
  /\ ~broken
  /\ writes \in 1..(MaxWrites - 1)
  /\ done' = [done EXCEPT ![message.id] = @ \o message.cmd]
  /\ writes' = writes + 1
  /\ UNCHANGED <<acked, message, broken>>

(* It was answered, or is given up. *)
Settle ==
  /\ message' = Nothing /\ writes' = 0
  /\ UNCHANGED <<acked, done, broken>>

Break == broken'

PowerCycle ==
  /\ acked' = {} /\ broken' = FALSE
  /\ message' = Nothing /\ writes' = 0
  /\ UNCHANGED done

Next == \/ Acknowledge \/ \E c \in Boxes : Deliver(c)
        \/ Repeat \/ Settle \/ Break \/ PowerCycle

Safety == Init /\ [][Next]_vars

(* A relay box is not left waiting for ever. *)
Spec == Safety /\ \A c \in Boxes : WF_vars(Deliver(c))
=============================================================================
