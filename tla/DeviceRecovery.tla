--------------------------- MODULE DeviceRecovery ---------------------------
(* The ambient bridge's recovery watchdog: RecoveryState and reboot_device     *)
(* (bridges/ambient_bridge/esphome_recovery.py) as driven by the health loop   *)
(* and the reboot task of server.py.  A wedged device never reconnects by      *)
(* itself; pressing its Restart button may bring it back.  Wall-clock instants *)
(* are ages in health ticks, counted no further than Escalation.               *)
EXTENDS Integers, Sequences

CONSTANTS
    DarkAfter, SeenWindow, Cooldown, MaxPerWindow, Window, Escalation, MinReboots,
    MaxRestarts,     \* bound: restarts of the bridge
    MaxFailedSaves   \* bound: saves that fail

VARIABLES
    device,    \* "up" (streaming), "wedged", "absent" (switched off or rebooting)
    active,    \* the bridge counts a live connection
    mem,       \* RecoveryState: [seen, reboots: ages, since: attempts]
    disk,      \* its file
    task,      \* the reboot task: "none", "pressing", "pressed", "failed"
    late,      \* a tick passed over the task: its 15 + 5 s see no second one
    presses,   \* ages of the presses of the last Window, whoever remembers them
    forgotten, \* presses a restart lost the record of
    tried,     \* reboot tasks scheduled since the device was last seen
    restarts, failedSaves

vars == <<device, active, mem, disk, task, late, presses, forgotten, tried, restarts, failedSaves>>

None == -1
Older(a) == IF a = None \/ a >= Escalation THEN a ELSE a + 1
AllOlder(s) == [i \in DOMAIN s |-> Older(s[i])]
UpTo(n, a) == IF a > n THEN n ELSE a

Fresh == [seen |-> None, reboots |-> <<>>, since |-> 0]
(* The list is in order of time: what is as old as the window comes first. *)
Prune(s) ==
    LET old == {0} \cup {i \in DOMAIN s : s[i] >= Window}
        last == CHOOSE i \in old : \A j \in old : j <= i
    IN  SubSeq(s, last + 1, Len(s))
Aged(r) == [r EXCEPT !.seen = Older(@), !.reboots = Prune(AllOlder(@))]

Init ==
    /\ device = "absent" /\ active = FALSE /\ mem = Fresh /\ disk = Fresh /\ task = "none" /\ late = FALSE
    /\ presses = <<>> /\ forgotten = 0 /\ tried = 0 /\ restarts = 0 /\ failedSaves = 0

(* _save: the whole state or, when the write fails, only a log line. *)
Save(r, old) ==
    \/ disk' = r /\ UNCHANGED failedSaves
    \/ failedSaves < MaxFailedSaves /\ failedSaves' = failedSaves + 1 /\ disk' = old

MarkSeen(r) == [r EXCEPT !.seen = 0, !.since = 0]
\* Mutated form: the attempt counts towards escalation but not towards the budget.
RecordAttemptOnly(r) == [r EXCEPT !.since = UpTo(MinReboots, @ + 1)]

RecordReboot(r) == [r EXCEPT !.reboots = Append(@, 0), !.since = UpTo(MinReboots, @ + 1)]


CanReboot(r) ==
    /\ r.reboots = <<>> \/ r.reboots[Len(r.reboots)] >= Cooldown
    /\ Len(r.reboots) < MaxPerWindow
ShouldReboot(r) == ~active /\ r.seen # None /\ r.seen \in DarkAfter .. SeenWindow /\ CanReboot(r)
RecoveryFailing == ~active /\ mem.seen # None /\ mem.seen >= Escalation /\ mem.since >= MinReboots

(* The world: the device connects, wedges, is switched off; the keep-alive     *)
(* notices a dead connection only later.                                       *)
Connects ==
    /\ device = "absent" /\ device' = "up" /\ active' = TRUE
    /\ UNCHANGED <<mem, disk, task, late, presses, forgotten, tried, restarts, failedSaves>>
Leaves ==
    /\ device = "up" /\ device' \in {"wedged", "absent"}
    /\ UNCHANGED <<active, mem, disk, task, late, presses, forgotten, tried, restarts, failedSaves>>
Reaped ==
    /\ active /\ device # "up" /\ active' = FALSE
    /\ UNCHANGED <<device, mem, disk, task, late, presses, forgotten, tried, restarts, failedSaves>>

(* _health_loop, _maybe_recover: time passes; a connected device is marked     *)
(* seen, a dark one may get one reboot task.                                   *)
HealthTick ==
    /\ ~late /\ late' = (task # "none")
    /\ presses' = Prune(AllOlder(presses))
    /\ \/ /\ active
          /\ mem' = MarkSeen(Aged(mem)) /\ Save(mem', Aged(disk))
          /\ tried' = 0 /\ UNCHANGED task
       \/ /\ ~active
          /\ mem' = Aged(mem) /\ disk' = Aged(disk) /\ UNCHANGED failedSaves
          /\ IF task = "none" /\ ShouldReboot(mem')
             THEN task' = "pressing" /\ tried' = UpTo(MinReboots, tried + 1)
             ELSE UNCHANGED <<task, tried>>
    /\ UNCHANGED <<device, active, forgotten, restarts>>

(* reboot_device: connect, list the entities, press; any step may fail or time *)
(* out, the wait after the press included, and the device may or may not obey. *)
Press ==
    /\ task = "pressing" /\ device # "absent"
    /\ task' \in {"pressed", "failed"}
    /\ presses' = Append(presses, 0)
    /\ device' \in {device, "absent"}
    /\ UNCHANGED <<late, active, mem, disk, forgotten, tried, restarts, failedSaves>>
PressFails ==
    /\ task = "pressing" /\ task' = "failed"
    /\ UNCHANGED <<late, device, active, mem, disk, presses, forgotten, tried, restarts, failedSaves>>

(* The rest of _do_device_reboot: the attempt counts whether it worked or not. *)
Record ==
    /\ task \in {"pressed", "failed"} /\ task' = "none" /\ late' = FALSE
    /\ mem' = RecordReboot(mem) /\ Save(mem', disk)
    /\ UNCHANGED <<device, active, presses, forgotten, tried, restarts>>

(* The bridge restarts: _load reads the file; the connection and a reboot task *)
(* die with the process.  A task past its press, or a record that was never    *)
(* saved, is a press nobody remembers.                                         *)
Restart ==
    /\ restarts < MaxRestarts /\ restarts' = restarts + 1
    /\ mem' = disk /\ active' = FALSE /\ task' = "none" /\ late' = FALSE
    /\ forgotten' = forgotten + (IF task \in {"pressed", "failed"} THEN 1 ELSE 0)
                  + (IF Len(mem.reboots) > Len(disk.reboots)
                     THEN Len(mem.reboots) - Len(disk.reboots) ELSE 0)
    /\ device' = IF device = "up" THEN "wedged" ELSE device
    /\ UNCHANGED <<disk, presses, tried, failedSaves>>

Next ==
    \/ Connects \/ Leaves \/ Reaped \/ HealthTick \/ Press \/ PressFails \/ Record \/ Restart

Spec == Init /\ [][Next]_vars

-----------------------------------------------------------------------------
TypeOK ==
    /\ device \in {"up", "wedged", "absent"} /\ active \in BOOLEAN
    /\ task \in {"none", "pressing", "pressed", "failed"}
    /\ \A r \in {mem, disk} : r.seen \in -1 .. Escalation /\ r.since \in 0 .. MinReboots
                              /\ Len(r.reboots) <= MaxPerWindow
    /\ tried \in 0 .. MinReboots

(* "A cooldown + a rolling-window cap make reboot-loops impossible": over any  *)
(* Window the button is pressed at most MaxPerWindow times, and one more for   *)
(* each press whose record a restart lost; two presses are Cooldown apart      *)
(* unless a record was lost between them.                                      *)
PressBudget ==
    /\ Len(presses) <= MaxPerWindow + forgotten
    /\ forgotten = 0 => \A i \in 1 .. Len(presses) - 1 : presses[i] - presses[i + 1] >= Cooldown

(* recovery_failing, which pages a human, is never raised unless recovery did  *)
(* try since the device was last seen, however attempts, reconnections and     *)
(* restarts interleave, as long as every save reached the disk.                *)
FailingIsTrue == RecoveryFailing /\ failedSaves = 0 => tried >= MinReboots

(* Both: the watchdog presses no more than it may, and says no more than it    *)
(* did.                                                                        *)
RecoveryTrue == PressBudget /\ FailingIsTrue
=============================================================================
