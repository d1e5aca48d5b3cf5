--------------------------------- MODULE Fleet ---------------------------------
(***************************************************************************)
(* The scripts that look after a set of devices: device_recovery.py (with  *)
(* device_status.py), provision_devices.py and device_monitor.py, each a   *)
(* process of its own with one thread per device, and the blacklist file   *)
(* they share.  A lock keeps the threads of one process apart while they   *)
(* read, extend or reset the blacklist; nothing keeps the processes apart. *)
(***************************************************************************)
EXTENDS Naturals, Sequences

CONSTANTS Devices,
          Steps,  \* of provisioning: sequence of [kind, reboot]
          Scenes  \* bound: sets of threads that run

VARIABLES form,     \* of the blacklist file: "gone", "torn" while it is written or when it cannot be parsed, "whole"
          file,     \* the serials on it
          acc,      \* [Threads -> the access to the blacklist under way]
          pc,       \* [Threads -> where the thread is]
          step,     \* [Devices -> step of provisioning]
          bad,      \* devices that are not seen by USB or adb in the survey
          reboot,   \* should_reboot_device
          stopped,  \* devices whose framework is stopped
          due,      \* serials that were added to the blacklist since the last Reset
          dropped,  \* history: serials that a Reset took off it although the recovery is not to restart their devices
          overlap   \* two processes were at the file at the same time

vars == <<form, file, acc, pc, step, bad, reboot, stopped, due, dropped, overlap>>
script == <<step, bad, reboot, stopped>>

Threads == {<<p, d>> : p \in {"recovery", "provision"}, d \in Devices \union {"main"}} \union {<<"monitor", "main">>}
Main(p) == <<p, "main">>
OfProcess(p) == {t \in Threads : t[1] = p}

\* The threads of a script come with its main thread, and a recovery looks after all devices that are provisioned.
FleetAssumption ==
  /\ "main" \notin Devices
  /\ Steps \in Seq([kind : STRING, reboot : BOOLEAN]) \ {<<>>}
  /\ \A scene \in Scenes, p \in {"recovery", "provision"}, d \in Devices :
       <<p, d>> \in scene => Main(p) \in scene /\ (Main("recovery") \in scene => <<"recovery", d>> \in scene)

Idle == [for |-> "none", at |-> "idle", got |-> {}]
Over == {"done", "died", "over"}
PC == {"survey", "look", "surveyed", "reset", "usb", "recover", "wait", "choose", "booted", "act", "read", "watch", "extend"} \union Over

TypeOK ==
  /\ form \in {"gone", "torn", "whole"} /\ file \subseteq Devices /\ (form # "whole" => file = {})
  /\ acc \in [Threads -> [for : {"none", "read", "extend", "reset"},
                          at : {"idle", "check", "load", "remove", "open", "dump"},
                          got : SUBSET Devices]]
  /\ pc \in [Threads -> PC \X PC]
  /\ step \in [Devices -> 1..Len(Steps)]
  /\ bad \subseteq Devices /\ reboot \subseteq Devices /\ stopped \subseteq Devices
  /\ due \subseteq Devices /\ dropped \subseteq Devices
  /\ overlap \in BOOLEAN

\* The second part of a pc is where an Extend leads.
At(l) == <<l, l>>
Init ==
  /\ form = "gone" /\ file = {} /\ due = {} /\ dropped = {} /\ overlap = FALSE
  /\ acc = [t \in Threads |-> Idle]
  /\ \E scene \in Scenes : pc = [t \in Threads |-> At(IF t \notin scene THEN "over"
                                  ELSE CASE t = Main("provision") -> "choose" [] t = Main("monitor") -> "watch"
                                         [] t[1] = "recovery" /\ t[2] # "main" -> "survey" [] OTHER -> "done")]
  /\ step = [d \in Devices |-> 1]
  /\ bad \in SUBSET Devices /\ reboot = {} /\ stopped = {}

-----------------------------------------------------------------------------
(* The blacklist (device_blacklist.py) *)

Unlocked(t) == TRUE
Lock(t) == \A u \in OfProcess(t[1]) : acc[u].at = "idle"

Wants(t) == CASE pc[t][1] \in {"survey", "surveyed", "recover", "choose", "read", "watch"} -> "read"
              [] pc[t][1] = "extend" -> "extend"
              [] pc[t][1] = "reset" -> "reset"
              [] OTHER -> "none"

noted == <<due, dropped>>
Sees(other) == overlap' = (overlap \/ \E u \in Threads : u[1] # other[1] /\ acc[u].at # "idle")
Moves(t, at, got) == acc' = [acc EXCEPT ![t].at = at, ![t].got = got]

Begin(t) ==
  /\ Wants(t) # "none" /\ acc[t].at = "idle" /\ Lock(t)
  /\ acc' = [acc EXCEPT ![t] = [for |-> Wants(t), at |-> "check", got |-> {}]]
  /\ Sees(t)
  /\ UNCHANGED <<form, file, pc, script, noted>>

File(f, on) == form' = f /\ file' = on

\* What Read returns: an absent file is an empty blacklist, one that cannot be read is removed.
Read(t) ==
  /\ acc[t].for # "reset"
  /\ \/ acc[t].at = "check" /\ Moves(t, IF form = "gone" THEN "open" ELSE "load", {}) /\ UNCHANGED <<form, file>>
     \/ acc[t].at = "load" /\ form = "whole" /\ Moves(t, "open", file) /\ UNCHANGED <<form, file>>
     \/ acc[t].at = "load" /\ form # "whole" /\ Moves(t, "remove", {}) /\ UNCHANGED <<form, file>>
     \/ acc[t].at = "remove" /\ form # "gone" /\ Moves(t, "open", {}) /\ File("gone", {})
  /\ UNCHANGED <<pc, script, noted, overlap>>

\* os.remove of a file that has gone.
Dies(t) ==
  /\ acc[t].at = "remove" /\ form = "gone"
  /\ acc' = [acc EXCEPT ![t] = Idle] /\ pc' = [pc EXCEPT ![t] = At("died")]
  /\ UNCHANGED <<form, file, script, noted, overlap>>

\* Extend writes what it has read with the device added; Reset removes the file, whoever else uses it.
Write(t) ==
  /\ acc[t].for = "extend"
  /\ \/ acc[t].at = "open" /\ File("torn", {}) /\ Moves(t, "dump", acc[t].got) /\ UNCHANGED <<pc, noted>>
     \/ /\ acc[t].at = "dump"
        /\ \/ form # "gone" /\ File("whole", acc[t].got \union {t[2]})
           \/ form # "gone" /\ File("torn", {}) /\ \E u \in Threads \ {t} : acc[u].at = "dump"
           \/ form = "gone" /\ UNCHANGED <<form, file>>
        /\ acc' = [acc EXCEPT ![t] = Idle] /\ pc' = [pc EXCEPT ![t] = At(pc[t][2])]
        /\ due' = due \union {t[2]} /\ dropped' = dropped \ {t[2]}
  /\ UNCHANGED <<script, overlap>>

\* The devices to restart were chosen before: an entry that came after the survey is gone without a restart.
ResetEnds(t, l) ==
  /\ acc' = [acc EXCEPT ![t] = Idle] /\ pc' = [pc EXCEPT ![t] = At(l)]
  /\ due' = {} /\ dropped' = dropped \union (due \ reboot)
Reset(t) ==
  /\ acc[t].for = "reset"
  /\ \/ acc[t].at = "check" /\ form # "gone" /\ Moves(t, "remove", {}) /\ UNCHANGED <<form, file, pc, noted>>
     \/ acc[t].at = "check" /\ form = "gone" /\ ResetEnds(t, "usb") /\ UNCHANGED <<form, file>>
     \/ acc[t].at = "remove" /\ form # "gone" /\ File("gone", {}) /\ ResetEnds(t, "usb")
  /\ UNCHANGED <<script, overlap>>

-----------------------------------------------------------------------------
(* The scripts, between two accesses *)

Goes(t, l) == pc' = [pc EXCEPT ![t] = At(l)]
Extends(t, l) == pc' = [pc EXCEPT ![t] = <<"extend", l>>]
Ended(p) == \A t \in OfProcess(p) : pc[t][1] \in Over
Died(p) == \E t \in OfProcess(p) : pc[t][1] = "died"

\* Where RecoverDevice goes on: a device that is not to be restarted is not waited for either.
RecoverDevice(listed, should) == IF listed \/ ~should THEN "done" ELSE "act"

\* A thread that has read the blacklist: IsBlacklisted of DeviceStatus and RecoverDevice, HealthyDevices, the last Read of provisioning.
HasRead(t) ==
  /\ acc[t].for = "read" /\ acc[t].at = "open" /\ acc' = [acc EXCEPT ![t] = Idle]
  /\ LET listed == t[2] \in acc[t].got IN
       \/ pc[t][1] = "survey" /\ Goes(t, IF listed THEN "surveyed" ELSE "look") /\ UNCHANGED script
       \/ /\ pc[t][1] = "surveyed" /\ Goes(t, "done")
          /\ reboot' = IF listed \/ t[2] \in bad THEN reboot \union {t[2]} ELSE reboot
          /\ UNCHANGED <<step, bad, stopped>>
       \/ pc[t][1] = "recover" /\ Goes(t, RecoverDevice(listed, t[2] \in reboot)) /\ UNCHANGED script
       \/ /\ pc[t][1] = "choose" /\ UNCHANGED script
          /\ pc' = [u \in Threads |-> IF u = t THEN At("done")
                                      ELSE IF u[1] = t[1] /\ u[2] \notin acc[t].got /\ pc[u] = At("done") THEN At("booted") ELSE pc[u]]
       \/ pc[t][1] = "read" /\ Goes(t, "over") /\ UNCHANGED script
       \/ pc[t][1] = "watch" /\ UNCHANGED <<pc, script>>
  /\ UNCHANGED <<form, file, noted, overlap>>

\* DeviceStatus: a device in a good state may have a low battery, or fail to answer.
Look(t) ==
  /\ pc[t][1] = "look"
  /\ \/ Extends(t, "surveyed")
     \/ t[2] \notin bad /\ Goes(t, "surveyed")
  /\ UNCHANGED <<form, file, acc, script, noted, overlap>>

\* RecoverDevices goes on when the threads of the survey have ended: Reset, then the USB ports of the bad devices, then RecoverDevice.
NextPhase ==
  /\ pc[Main("recovery")][1] = "done" /\ Ended("recovery")
  /\ Goes(Main("recovery"), IF Died("recovery") THEN "over" ELSE "reset")
  /\ UNCHANGED <<form, file, acc, script, noted, overlap>>
ResetUsb ==
  /\ pc[Main("recovery")][1] = "usb"
  /\ \E failed \in SUBSET bad :
       pc' = [t \in Threads |-> IF t[1] # "recovery" \/ pc[t] = At("over") THEN pc[t]
                                ELSE IF t[2] = "main" THEN At("wait")
                                ELSE IF t[2] \in failed THEN <<"extend", "recover">> ELSE At("recover")]
  /\ UNCHANGED <<form, file, acc, script, noted, overlap>>
RecoveryEnds ==
  /\ pc[Main("recovery")][1] = "wait" /\ \A d \in Devices : pc[<<"recovery", d>>][1] \in Over
  /\ Goes(Main("recovery"), "over")
  /\ UNCHANGED <<form, file, acc, script, noted, overlap>>

Restarted(d) == stopped' = stopped \ {d}

\* RecoverDevice: the restart, if need be by sysrq, and the wait for the boot, which a device without its framework never ends.
Restart(t) ==
  /\ t[1] = "recovery" /\ pc[t][1] = "act"
  /\ Goes(t, "wait") \/ Extends(t, "wait")
  /\ Restarted(t[2]) \/ UNCHANGED stopped
  /\ UNCHANGED <<form, file, acc, step, bad, reboot, noted, overlap>>
WaitUntilFullyBooted(t) ==
  /\ t[1] = "recovery" /\ t[2] # "main" /\ pc[t][1] = "wait"
  /\ \/ t[2] \notin stopped /\ Goes(t, "done")
     \/ Extends(t, "done")
  /\ UNCHANGED <<form, file, acc, script, noted, overlap>>

\* ProvisionDevice: each step waits for the boot and restarts the device if it does not come.
Booted(t) ==
  /\ pc[t][1] = "booted"
  /\ \/ t[2] \notin stopped /\ Goes(t, "act") /\ UNCHANGED stopped
     \/ Restarted(t[2]) /\ Goes(t, "act")
     \/ Extends(t, "done") /\ stopped' \in {stopped, stopped \ {t[2]}}
  /\ UNCHANGED <<form, file, acc, step, bad, reboot, noted, overlap>>

\* A step function returns; the failures that Wipe and WaitForBatteryTemperature swallow are among its successes.
StepPasses(t, s) ==
  /\ IF step[t[2]] = Len(Steps) THEN Goes(t, "done") /\ UNCHANGED step
     ELSE Goes(t, "booted") /\ step' = [step EXCEPT ![t[2]] = @ + 1]
  /\ IF s.reboot THEN Restarted(t[2]) ELSE UNCHANGED stopped
\* It raises: RemoveSystemApps has stopped the framework, and starts it again only if nothing fails between.
StepFails(t, s) ==
  /\ Extends(t, "done") /\ UNCHANGED step
  /\ \/ UNCHANGED stopped
     \/ s.kind = "RemoveSystemApps" /\ stopped' = stopped \union {t[2]}
Act(t) ==
  /\ t[1] = "provision" /\ pc[t][1] = "act"
  /\ LET s == Steps[step[t[2]]] IN StepPasses(t, s) \/ StepFails(t, s)
  /\ UNCHANGED <<form, file, acc, bad, reboot, noted, overlap>>

ProvisionEnds ==
  /\ pc[Main("provision")][1] \in {"done", "died"} /\ Ended("provision")
  /\ Goes(Main("provision"), IF Died("provision") THEN "over" ELSE "read")
  /\ UNCHANGED <<form, file, acc, script, noted, overlap>>

Thread(t) ==
  \/ Begin(t) \/ Read(t) \/ Dies(t) \/ Write(t) \/ Reset(t) \/ HasRead(t)
  \/ Look(t) \/ Restart(t) \/ WaitUntilFullyBooted(t) \/ Booted(t) \/ Act(t)
Next == NextPhase \/ ResetUsb \/ RecoveryEnds \/ ProvisionEnds \/ \E t \in Threads : Thread(t)

Spec == Init /\ [][Next]_vars

-----------------------------------------------------------------------------
(* Properties *)

\* No thread makes another one's entry of the blacklist disappear: as long as no two processes were at the file at the same time,
\* it lists what was added since the last Reset whenever nobody is at it.
BlacklistKept == ~overlap /\ (\A t \in Threads : acc[t].at = "idle") => file = due

\* A device that provisioning left without its framework is on the blacklist when the scripts have ended, even if the recovery has
\* emptied the blacklist after it got there: unless its entry came between the recovery's survey and its Reset, when nothing
\* restarts the device or lists it again.
StoppedIsListed ==
  ~overlap /\ (\A p \in {"recovery", "provision"} : pc[Main(p)][1] = "over") => stopped \subseteq file \union dropped
=============================================================================
