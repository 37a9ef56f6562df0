------------------------------ MODULE Launcher ------------------------------
(***************************************************************************)
(* The update thread (launcher.c).  Every ten seconds it mounts the USB    *)
(* stick; if there is an ota.tar.gz on it, it copies the archive to /job,  *)
(* removes it from the stick, unpacks it to /job/system_org, moves         *)
(* /job/system to /job/system_old, moves /job/system_org to /job/system    *)
(* and reboots.  Each of these is a shell command that may fail, and the   *)
(* power may go between, or in the middle of, any two of them.             *)
(***************************************************************************)
EXTENDS Naturals

CONSTANTS
  None,          \* no such file or directory
  MaxUpdates,    \* bound: archives put on the stick
  MaxFaults,     \* bound: commands that fail without an inner reason
  MaxCrashes     \* bound: power failures

ASSUME UpdatesAssumption ==
  MaxUpdates \in Nat /\ MaxFaults \in Nat /\ MaxCrashes \in Nat

VARIABLES
  card,      \* /mnt/nand/ota.tar.gz
  normal,    \* /job/fw_update_normal.tar.gz
  org,       \* /job/system_org
  system,    \* /job/system
  inner,     \* there is a /job/system/system_org
  old,       \* /job/system_old: absent, plain, or with a system inside
  running,   \* the firmware that was booted
  pc,        \* the next step of function_for_launcher
  ret,       \* ret of launcher_replace_system is still 0
  updates, faults, crashes

files == <<normal, org, system, inner, old>>
launcherVars == <<card, files, running, pc, ret, updates, faults, crashes>>

(* An archive or an unpacked directory; it is whole or was cut short. *)
Firmware == [ver : 0..MaxUpdates, whole : BOOLEAN]

(* The absence of a file is not a firmware. *)
ASSUME NoneAssumption == None \notin Firmware

Cut(f) == [f EXCEPT !.whole = FALSE]

(* A shell command fails although nothing of the state explains it. *)
Fault == faults < MaxFaults /\ faults' = faults + 1
NoFault == UNCHANGED faults

(* The user puts the next archive on the stick; it may be damaged. *)
PutArchive ==
  /\ pc = "idle" /\ card = None /\ updates < MaxUpdates
  /\ updates' = updates + 1
  /\ card' \in {[ver |-> updates + 1, whole |-> w] : w \in BOOLEAN}
  /\ UNCHANGED <<files, running, pc, ret, faults, crashes>>

-----------------------------------------------------------------------------
(* lanucher_is_update_fw_exist *)
FindUpdate ==
  /\ pc = "idle" /\ card # None
  /\ pc' = "backup"
  /\ UNCHANGED <<card, files, running, ret, updates, faults, crashes>>

(* launcher_backup_update_fw: without a copy the update is put off, *)
Backup ==
  /\ pc = "backup"
  /\ \/ /\ NoFault
        /\ normal' = card
        /\ pc' = "remove"
     \/ /\ Fault
        /\ normal' \in {normal, Cut(card)}
        /\ pc' = "idle"
  /\ UNCHANGED <<card, org, system, inner, old, running, ret, updates, crashes>>

(* but an archive that cannot be removed is only logged. *)
RemoveArchive ==
  /\ pc = "remove"
  /\ \/ NoFault /\ card' = None
     \/ Fault /\ UNCHANGED card
  /\ pc' = "extract"
  /\ UNCHANGED <<files, running, ret, updates, crashes>>

(* Mutant of Extract: the status of tar is ignored. *)
ExtractUnchecked ==
  /\ pc = "extract"
  /\ \/ NoFault /\ org' = normal
     \/ Fault /\ org' \in {org, Cut(normal)}
  /\ pc' = IF org' = None THEN "idle" ELSE "shelve"
  /\ UNCHANGED <<card, normal, system, inner, old, running, ret, updates,
                 crashes>>

(* launcher_decompress_update_fw: tar unpacks over what an earlier attempt *)
(* has left, and fails on a damaged archive when it reaches the damage.    *)
Extract ==
  /\ pc = "extract"
  /\ \/ /\ NoFault
        /\ org' = normal
        /\ pc' = IF normal.whole THEN "shelve" ELSE "idle"
     \/ /\ Fault
        /\ org' \in {org, Cut(normal)}
        /\ pc' = "idle"
  /\ UNCHANGED <<card, normal, system, inner, old, running, ret, updates,
                 crashes>>

(* mv /job/system /job/system_old.  mv moves into a directory that exists, *)
(* and refuses if what it would replace there is not empty.                *)
Shelved ==
  /\ system' = None /\ inner' = FALSE
  /\ old' = IF old = "absent" THEN "plain" ELSE "nested"
  /\ UNCHANGED ret

(* Mutants of Shelve: a system_old that exists is an error; and the status *)
(* of mv is tested the wrong way round.                                    *)
ShelveOnce ==
  /\ pc = "shelve"
  /\ \/ NoFault /\ system = None /\ UNCHANGED <<system, inner, old, ret>>
     \/ NoFault /\ system # None /\ old = "absent" /\ Shelved
     \/ /\ system # None
        /\ IF old # "absent" THEN NoFault ELSE Fault
        /\ ret' = FALSE
        /\ UNCHANGED <<system, inner, old>>
  /\ pc' = "install"
  /\ UNCHANGED <<card, normal, org, running, updates, crashes>>

ShelveInverted ==
  /\ pc = "shelve"
  /\ \/ /\ NoFault /\ system # None /\ old # "nested" /\ Shelved
        /\ pc' = "idle"
     \/ /\ system = None \/ old = "nested"
        /\ NoFault /\ UNCHANGED <<system, inner, old, ret>>
        /\ pc' = "install"
  /\ UNCHANGED <<card, normal, org, running, updates, crashes>>

(* launcher_replace_system, first half: a failing mv sets ret, no more. *)
Shelve ==
  /\ pc = "shelve"
  /\ \/ NoFault /\ system = None /\ UNCHANGED <<system, inner, old, ret>>
     \/ NoFault /\ system # None /\ old # "nested" /\ Shelved
     \/ /\ system # None
        /\ IF old = "nested" THEN NoFault ELSE Fault
        /\ ret' = FALSE
        /\ UNCHANGED <<system, inner, old>>
  /\ pc' = "install"
  /\ UNCHANGED <<card, normal, org, running, updates, crashes>>

(* mv /job/system_org /job/system, with the same habits. *)
Install ==
  /\ pc = "install"
  /\ \/ /\ NoFault /\ system = None
        /\ system' = org /\ org' = None
        /\ pc' = "reboot" /\ UNCHANGED <<inner, ret>>
     \/ /\ NoFault /\ system # None /\ ~inner
        /\ inner' = TRUE /\ org' = None
        /\ pc' = "reboot" /\ UNCHANGED <<system, ret>>
     \/ /\ IF system # None /\ inner THEN NoFault ELSE Fault
        /\ pc' = "idle" /\ ret' = TRUE
        /\ UNCHANGED <<system, org, inner>>
  /\ UNCHANGED <<card, normal, old, running, updates, crashes>>

(* Mutant of Reboot: what launcher_replace_system returned is ignored. *)
RebootAlways ==
  /\ pc = "reboot"
  /\ pc' = "down" /\ ret' = TRUE
  /\ UNCHANGED <<card, files, running, updates, faults, crashes>>

(* function_for_launcher: reboot, if launcher_replace_system returned 0. *)
Reboot ==
  /\ pc = "reboot"
  /\ pc' = IF ret THEN "down" ELSE "idle"
  /\ ret' = TRUE
  /\ UNCHANGED <<card, files, running, updates, faults, crashes>>

(* Mutant of Boot: nobody looks whether there is a system. *)
BootBlindly ==
  /\ pc = "down"
  /\ running' = system
  /\ pc' = "idle" /\ ret' = TRUE
  /\ UNCHANGED <<card, files, updates, faults, crashes>>

(* The system starts what it finds in /job/system. *)
Boot ==
  /\ pc = "down" /\ system # None
  /\ running' = system
  /\ pc' = "idle" /\ ret' = TRUE
  /\ UNCHANGED <<card, files, updates, faults, crashes>>

(* The power fails.  cp and tar leave a part behind, mv does not. *)
Crash ==
  /\ pc # "down" /\ crashes < MaxCrashes
  /\ crashes' = crashes + 1
  /\ pc' = "down"
  /\ normal' \in IF pc = "backup" THEN {normal, Cut(card)} ELSE {normal}
  /\ org' \in IF pc = "extract" THEN {org, Cut(normal)} ELSE {org}
  /\ UNCHANGED <<card, system, inner, old, running, ret, updates, faults>>

LauncherInit ==
  /\ card = None /\ normal = None /\ org = None
  /\ system = [ver |-> 0, whole |-> TRUE] /\ running = system
  /\ inner = FALSE /\ old = "absent"
  /\ pc = "idle" /\ ret = TRUE
  /\ updates = 0 /\ faults = 0 /\ crashes = 0

Update ==
  \/ FindUpdate \/ Backup \/ RemoveArchive \/ Extract \/ Shelve \/ Install
  \/ Reboot \/ Boot

LauncherNext == PutArchive \/ Update \/ Crash

(* The thread is an endless loop; the user and the power are not ours. *)
LauncherSpec ==
  LauncherInit /\ [][LauncherNext]_launcherVars /\ WF_launcherVars(Update)

-----------------------------------------------------------------------------
(* Properties. *)

Places == {"idle", "backup", "remove", "extract", "shelve", "install",
           "reboot", "down"}

(* The directories hold firmware of the versions there are, and what was   *)
(* booted is a firmware.                                                   *)
LauncherTypeOK ==
  /\ card \in Firmware \union {None} /\ normal \in Firmware \union {None}
  /\ org \in Firmware \union {None} /\ system \in Firmware \union {None}
  /\ running \in Firmware
  /\ inner \in BOOLEAN /\ old \in {"absent", "plain", "nested"}
  /\ pc \in Places /\ ret \in BOOLEAN
  /\ updates \in 0..MaxUpdates /\ faults \in 0..MaxFaults
  /\ crashes \in 0..MaxCrashes

(* Whatever fails and whenever the power goes, a half unpacked archive is  *)
(* never put in the place of the system (launcher_decompress_update_fw     *)
(* before launcher_replace_system).                                        *)
NeverPartial == system # None => system.whole

Quiet == faults = 0 /\ crashes = 0

(* As long as no command fails by itself and the power stays on, there is  *)
(* a system to boot, except between the two moves of                       *)
(* launcher_replace_system.                                                *)
SystemPresent == Quiet => (system # None \/ pc = "install")

(* The gateway reboots only into the firmware it has just unpacked: a move *)
(* that failed is seen in ret (function_for_launcher).                     *)
RebootsIntoUpdate ==
  [][(pc = "reboot" /\ pc' = "down" /\ crashes' = crashes)
       => system = normal]_launcherVars

(* An undamaged archive n on the stick gets to run, or a later one. *)
Installs(n) ==
  (card # None /\ card.whole /\ card.ver = n)
    ~> (running.ver >= n \/ ~Quiet)

(* The first and the second update reach the system that is booted         *)
(* (function_for_launcher from the stick to the reboot).                   *)
FirstTwoInstalled == Installs(1) /\ Installs(2)

(* README: the gateway is updated by USB, so every update is.              *)
EveryUpdateInstalled == \A n \in 1..MaxUpdates : Installs(n)
=============================================================================
