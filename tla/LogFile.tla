------------------------------ MODULE LogFile ------------------------------
(***************************************************************************)
(* log.txt and log-old.txt (log.c).  Every thread of the program logs      *)
(* through xh_log, which holds log_mutex while get_fp opens the file,      *)
(* looks at its position, moves a file that has reached the limit aside    *)
(* and tries again, and while the entry is printed into the buffer of the  *)
(* stream.  An entry is the number of its call and counts 1 in a size.     *)
(***************************************************************************)
EXTENDS Naturals, Sequences, FiniteSets, Functions

CONSTANTS
  Threads,      \* the threads that log
  OpensAt,      \* positions the C library may report after fopen "a+"
  Limit,        \* LOG_FILE_SIZE_LIMIT, in entries
  MaxEntries,   \* bound: calls of xh_log
  MaxOverdue    \* bound: failing mv and power cycles since the last rotation

ASSUME LogAssumption ==
  /\ OpensAt \subseteq {"start", "end"} /\ OpensAt # {}
  /\ Limit \in Nat \ {0} /\ MaxEntries \in Nat /\ MaxOverdue \in Nat
  /\ "none" \notin Threads

VARIABLES
  log, log_old,    \* what log.txt and log-old.txt have on the disk
  buffer,      \* what has been printed but not written out
  position,    \* of fp: "closed" (NULL), "start" or "end" (where ftell is)
  waiting,     \* threads that have called xh_log and not returned
  holder,      \* the owner of log_mutex, or "none"
  step,        \* of the owner: where it is in xh_log; "free" without one
  calls,       \* entries so far
  (* ghosts *)
  lost,        \* entries that no file got, and the buffers lost with power
  overdue      \* openings since the last rotation that may report a 0

streamVars == <<log, log_old, buffer, position>>
callVars == <<waiting, holder, step, calls>>
vars == <<streamVars, callVars, lost, overdue>>

Call(t) ==
  /\ t \notin waiting
  /\ calls + Cardinality(waiting) < MaxEntries
  /\ waiting' = waiting \union {t}
  /\ UNCHANGED <<streamVars, holder, step, calls, lost, overdue>>

(* pthread_mutex_lock *)
Enter(t) ==
  /\ t \in waiting /\ holder = "none"
  /\ holder' = t /\ step' = "open"
  /\ calls' = calls + 1
  /\ UNCHANGED <<streamVars, waiting, lost, overdue>>

(* Mutant of Open: fopen "w+". *)
OpenTruncating ==
  /\ step = "open"
  /\ IF position = "closed"
     THEN position' \in OpensAt /\ log' = <<>>
     ELSE UNCHANGED <<position, log>>
  /\ step' = "check"
  /\ UNCHANGED <<log_old, buffer, waiting, holder, calls, lost, overdue>>

(* fopen "a+", when fp is NULL.  Whether the position of a stream nothing  *)
(* was written to is 0 or the size is up to the library.                   *)
Open ==
  /\ step = "open"
  /\ IF position = "closed" THEN position' \in OpensAt ELSE UNCHANGED position
  /\ step' = "check"
  /\ UNCHANGED <<log, log_old, buffer, waiting, holder, calls, lost, overdue>>

(* Mutant of OpenFails: xh_log returns with the mutex taken. *)
OpenFailsLocked ==
  /\ step = "open" /\ position = "closed"
  /\ lost' = lost \union {calls}
  /\ waiting' = waiting \ {holder}
  /\ step' = "free"
  /\ UNCHANGED <<streamVars, holder, calls, overdue>>

(* fopen fails, get_fp returns NULL and the entry is dropped. *)
OpenFails ==
  /\ step = "open" /\ position = "closed"
  /\ lost' = lost \union {calls}
  /\ step' = "leave"
  /\ UNCHANGED <<streamVars, waiting, holder, calls, overdue>>

Ftell == IF position = "start" THEN 0 ELSE Len(log) + Len(buffer)

(* Mutant of Check: the limit is passed by one entry. *)
CheckAbove ==
  /\ step = "check"
  /\ IF Ftell > Limit
     THEN /\ log' = log \o buffer /\ buffer' = <<>>
          /\ step' = "moving"
     ELSE step' = "print" /\ UNCHANGED <<log, buffer>>
  /\ UNCHANGED <<log_old, position, waiting, holder, calls, lost, overdue>>

(* The comparison with the limit, and fclose when it has been reached. *)
Check ==
  /\ step = "check"
  /\ IF Ftell >= Limit
     THEN /\ log' = log \o buffer /\ buffer' = <<>>
          /\ step' = "moving"
     ELSE step' = "print" /\ UNCHANGED <<log, buffer>>
  /\ UNCHANGED <<log_old, position, waiting, holder, calls, lost, overdue>>

(* system("mv log.txt log-old.txt"), fp = NULL, goto label_openfile *)
Moved ==
  /\ step = "moving"
  /\ log_old' = log /\ log' = <<>>
  /\ overdue' = 0
  /\ position' = "closed" /\ step' = "open"
  /\ UNCHANGED <<buffer, waiting, holder, calls, lost>>

(* The shell cannot be started or mv fails; nobody looks at the result. *)
MoveFails ==
  /\ step = "moving" /\ overdue < MaxOverdue
  /\ overdue' = overdue + 1
  /\ position' = "closed" /\ step' = "open"
  /\ UNCHANGED <<log, log_old, buffer, waiting, holder, calls, lost>>

(* fprintf and vfprintf *)
PrintEntry ==
  /\ step = "print"
  /\ buffer' = Append(buffer, calls)
  /\ position' = "end"
  /\ step' = "leave"
  /\ UNCHANGED <<log, log_old, waiting, holder, calls, lost, overdue>>

(* pthread_mutex_unlock *)
Leave ==
  /\ step = "leave"
  /\ waiting' = waiting \ {holder}
  /\ holder' = "none" /\ step' = "free"
  /\ UNCHANGED <<streamVars, calls, lost, overdue>>

(* The library writes out a buffer that is full. *)
Flush ==
  /\ buffer # <<>>
  /\ log' = log \o buffer /\ buffer' = <<>>
  /\ UNCHANGED <<log_old, position, callVars, lost, overdue>>

(* A power cut, or the reboot of an update. *)
Restart ==
  /\ overdue < MaxOverdue
  /\ overdue' = overdue + 1
  /\ lost' = lost \union Range(buffer)
               \union (IF step \in {"open", "check", "moving", "print"}
                       THEN {calls} ELSE {})
  /\ buffer' = <<>> /\ position' = "closed"
  /\ waiting' = {} /\ holder' = "none" /\ step' = "free"
  /\ UNCHANGED <<log, log_old, calls>>

Init ==
  /\ log = <<>> /\ log_old = <<>> /\ buffer = <<>> /\ position = "closed"
  /\ waiting = {} /\ holder = "none" /\ step = "free" /\ calls = 0
  /\ lost = {} /\ overdue = 0

Owner == Open \/ OpenFails \/ Check \/ Moved \/ MoveFails \/ PrintEntry \/ Leave

Next ==
  \/ \E t \in Threads : Call(t) \/ Enter(t)
  \/ Owner \/ Flush \/ Restart

(* The owner runs, and a mutex that is released is handed on; a mv that is *)
(* tried again and again succeeds (MaxOverdue).  Nothing makes a thread    *)
(* log.                                                                    *)
Fairness == WF_vars(Owner) /\ \A t \in Threads : WF_vars(Enter(t))

Spec == Init /\ [][Next]_vars /\ Fairness

-----------------------------------------------------------------------------
(* Properties. *)

(* The owner is a caller, and there is one exactly while a call is inside. *)
TypeOK ==
  /\ log \in Seq(1..MaxEntries) /\ log_old \in Seq(1..MaxEntries)
  /\ buffer \in Seq(1..MaxEntries)
  /\ position \in {"closed"} \union OpensAt \union {"end"}
  /\ waiting \in SUBSET Threads /\ holder \in waiting \union {"none"}
  /\ step \in {"free", "open", "check", "moving", "print", "leave"}
  /\ (holder = "none") = (step = "free")
  /\ calls \in 0..MaxEntries /\ overdue \in 0..MaxOverdue
  /\ lost \in SUBSET (1..MaxEntries)

(* The two files and the buffer, read one after the other. *)
Kept == log_old \o log \o buffer

(* Whatever rotations, failing moves and power cycles there were, the two  *)
(* files read one after the other are the last entries in the order of the *)
(* calls: what is missing in the middle was lost with the power or could   *)
(* not be opened, never to a rotation (get_fp).                            *)
LogWhole ==
  /\ \A i, j \in DOMAIN Kept : i < j => Kept[i] < Kept[j]
  /\ \A n \in 1..calls :
       \/ n \in Range(Kept) \union lost
       \/ n = calls /\ step # "free"
       \/ log_old # <<>> /\ \A i \in DOMAIN Kept : n < Kept[i]

LogSound == TypeOK /\ LogWhole

(* The file outgrows the limit by one entry for each opening that may have *)
(* reported position 0, and by no more: a rotation puts it right (get_fp). *)
SizeBounded == Len(log) + Len(buffer) <= Limit + overdue

(* Whoever logs gets out of xh_log again, also when the file cannot be     *)
(* opened or moved and the owner goes back to label_openfile (get_fp).     *)
CallsReturn == \A t \in Threads : t \in waiting ~> t \notin waiting
=============================================================================
