----------------------------- MODULE BatteryUtils -----------------------------
(***************************************************************************)
(* Charging and power measurement of a device (devil's battery_utils.py).  *)
(*                                                                         *)
(* A measurement is a context: it stops the charging, by a command to the  *)
(* hardware where the device's profile has one and else by overriding what *)
(* dumpsys battery shows, and resumes it at the end.  Every command may    *)
(* fail, before or after the device obeyed; the whole operation is then    *)
(* tried again, from what the device shows by that time.                   *)
(***************************************************************************)
EXTENDS Naturals, Sequences

CONSTANTS Retries,   \* retries of an operation
          MaxLevel,  \* a full battery
          MaxErrors  \* _MAX_CHARGE_ERROR

BatteryAssumption == Retries \in Nat /\ MaxLevel \in Nat /\ MaxErrors \in Nat \ {0}

VARIABLES profile,       \* whether the profile has commands for the hardware
          kind, phase,   \* the operation, and where it is
          fresh,         \* whether a try is about to read what the device shows
          todo, tries,   \* the commands of the try that are left, and the retries made
          failed,        \* whether entering or leaving raised
          hw,            \* whether the hardware lets the battery charge
          stopped,       \* dumpsys battery shows what was set, not what is
          ac, usb,       \* what dumpsys battery shows
          level, last, errors  \* of the battery, and of ChargeDeviceToLevel: last_charge_value, charge_failure_count

vars == <<profile, kind, phase, fresh, todo, tries, failed, hw, stopped, ac, usb, level, last, errors>>
charge == <<level, last, errors>>
shown == <<stopped, ac, usb>>

Commands == {"usb1", "ac1", "stats", "reset", "ac0", "usb0", "hwOn", "hwOff", "isOn", "isOff", "updates"}

TypeOK ==
  /\ profile \in BOOLEAN /\ kind \in {"power", "battery", "charge"}
  /\ phase \in {"out", "entering", "in", "leaving"}
  /\ fresh \in BOOLEAN /\ todo \in Seq(Commands) /\ tries \in 0..Retries /\ failed \in BOOLEAN
  /\ hw \in BOOLEAN /\ stopped \in BOOLEAN /\ ac \in BOOLEAN /\ usb \in BOOLEAN
  /\ level \in 0..MaxLevel /\ last \in 0..MaxLevel /\ errors \in 0..MaxErrors

Init ==
  /\ profile \in BOOLEAN /\ kind = "power" /\ phase = "out"
  /\ fresh = FALSE /\ todo = <<>> /\ tries = 0 /\ failed = FALSE
  /\ hw = TRUE /\ stopped = FALSE /\ ac = FALSE /\ usb = TRUE
  /\ level \in 0..MaxLevel /\ last = 0 /\ errors = 0

-----------------------------------------------------------------------------
(* The operations as rows of commands, chosen by what the device shows. *)

GetCharging == ac \/ usb

ClearPowerData == <<"usb1", "ac1", "stats", "reset">>
DisableBatteryUpdates == ClearPowerData \o <<"ac0", "usb0", "isOff">>
EnableBatteryUpdates == <<"reset", "updates">>
\* A profile's command switches the hardware and then, unless that failed, overrides or resets what dumpsys battery shows.
HardwareSetCharging(on) == IF on THEN <<"hwOn", "reset", "isOn">> ELSE <<"hwOff", "ac0", "usb0", "isOff">>

SetChargingByHardware(on) ==
  IF hw = on THEN <<>>
  ELSE IF profile THEN (IF on THEN <<>> ELSE ClearPowerData) \o HardwareSetCharging(on)
  ELSE IF on THEN EnableBatteryUpdates ELSE DisableBatteryUpdates
SetCharging(on) ==
  IF GetCharging = on THEN <<>>
  ELSE IF profile THEN (IF on THEN <<>> ELSE ClearPowerData) \o HardwareSetCharging(on)
  ELSE IF on THEN EnableBatteryUpdates ELSE DisableBatteryUpdates

Script(k, ph) ==
  IF k = "battery"
  THEN IF ph = "entering" THEN DisableBatteryUpdates ELSE EnableBatteryUpdates
  ELSE SetCharging(ph = "leaving" \/ k = "charge")

Begin(k, ph) == kind' = k /\ phase' = ph /\ fresh' = TRUE /\ todo' = <<>> /\ tries' = 0

Enter(k) ==
  /\ phase = "out"
  /\ Begin(k, "entering")
  /\ failed' = FALSE /\ last' = 0 /\ errors' = 0
  /\ UNCHANGED <<profile, hw, shown, level>>

Try ==
  /\ fresh
  /\ todo' = Script(kind, phase) /\ fresh' = FALSE
  /\ UNCHANGED <<profile, kind, phase, tries, failed, hw, shown, charge>>

-----------------------------------------------------------------------------
(* What the device does with a command. *)

Show(s, a, u) == stopped' = s /\ ac' = a /\ usb' = u

Obeys(c) ==
  /\ hw' = IF c \in {"hwOn", "hwOff"} THEN c = "hwOn" ELSE hw
  /\ CASE c = "usb1" -> Show(TRUE, ac, TRUE)
       [] c = "ac1" -> Show(TRUE, TRUE, usb)
       [] c = "usb0" -> Show(TRUE, ac, FALSE)
       [] c = "ac0" -> Show(TRUE, FALSE, usb)
       [] c = "reset" -> Show(FALSE, FALSE, hw)
       [] c \in {"hwOn", "hwOff"} /\ ~stopped -> Show(FALSE, FALSE, c = "hwOn")
       [] OTHER -> UNCHANGED shown

\* The condition of a WaitFor; other commands have none.  That of EnableBatteryUpdates looks for a line that is UPDATES STOPPED and
\* no more, so that it may be met whatever dumpsys battery shows.
Met(c) == (c = "isOn" => GetCharging) /\ (c = "isOff" => ~GetCharging)

Command ==
  /\ todo # <<>> /\ Met(Head(todo))
  /\ Obeys(Head(todo))
  /\ todo' = Tail(todo)
  /\ UNCHANGED <<profile, kind, phase, fresh, tries, failed, charge>>

\* A command fails or a WaitFor finds no time left.  _ClearPowerData resets the battery whatever becomes of the statistics.
FailsObeyed == Obeys(Head(todo)) \/ (Head(todo) = "stats" /\ Obeys("reset"))
Fails ==
  /\ todo # <<>>
  /\ FailsObeyed \/ UNCHANGED <<hw, shown>>
  /\ todo' = <<>>
  /\ IF tries < Retries
     THEN fresh' = TRUE /\ tries' = tries + 1 /\ UNCHANGED <<kind, phase, failed>>
     ELSE /\ failed' = TRUE
          /\ IF phase = "entering" /\ kind # "charge"
             THEN phase' = "leaving" /\ fresh' = TRUE /\ tries' = 0
             ELSE phase' = "out" /\ UNCHANGED <<fresh, tries>>
          /\ UNCHANGED kind
  /\ UNCHANGED <<profile, charge>>

\* The commands of the try are through.
Entered ==
  /\ phase = "entering" /\ ~fresh /\ todo = <<>>
  /\ phase' = "in"
  /\ UNCHANGED <<profile, kind, fresh, todo, tries, failed, hw, shown, charge>>
Left ==
  /\ phase = "leaving" /\ ~fresh /\ todo = <<>>
  /\ phase' = "out"
  /\ UNCHANGED <<profile, kind, fresh, todo, tries, failed, hw, shown, charge>>

\* The block of a measurement ends, by an exception perhaps.
Leave ==
  /\ phase = "in" /\ kind # "charge"
  /\ Begin(kind, "leaving")
  /\ UNCHANGED <<profile, failed, hw, shown, charge>>

-----------------------------------------------------------------------------
(* ChargeDeviceToLevel: polls until the level is reached or has not risen too often. *)

RisesOrStays(old, new) == new >= old
Rises(old, new) == new > old

Poll(target) ==
  /\ phase = "in" /\ kind = "charge"
  /\ IF Rises(last, level) THEN last' = level /\ errors' = 0 ELSE errors' = errors + 1 /\ UNCHANGED last
  /\ phase' = IF level >= target \/ errors' >= MaxErrors THEN "out" ELSE "in"
  /\ failed' = (level < target /\ errors' >= MaxErrors)
  /\ UNCHANGED <<profile, kind, fresh, todo, tries, hw, shown, level>>

\* The battery charges if the hardware lets it, or is used faster.
LevelChanges ==
  /\ phase = "in" /\ kind = "charge"
  /\ level' \in {l \in 0..MaxLevel : l = level - 1 \/ (hw /\ l = level + 1)}
  /\ UNCHANGED <<profile, kind, phase, fresh, todo, tries, failed, hw, shown, last, errors>>

Next ==
  \/ \E k \in {"power", "battery", "charge"} : Enter(k)
  \/ Try \/ Command \/ Fails \/ Entered \/ Left \/ Leave
  \/ Poll(MaxLevel) \/ LevelChanges

Spec == Init /\ [][Next]_vars

\* The caller goes on; a command is answered or fails.
FairSpec == Spec /\ WF_vars(Try \/ Command \/ Entered \/ Left) /\ WF_vars(Fails) /\ WF_vars(Poll(MaxLevel))

-----------------------------------------------------------------------------
(* Properties *)

\* A measurement that was entered runs on a device that shows no charging.  One that raised nothing, neither when it was entered nor
\* when it was left, leaves the device showing what is, and PowerMeasurement leaves it charging, whatever earlier failures left behind.
Restored ==
  /\ phase = "in" /\ kind # "charge" => ~GetCharging
  /\ phase = "out" /\ ~failed /\ kind = "battery" => ~stopped
  /\ phase = "out" /\ ~failed /\ kind = "power" => hw /\ ~stopped

\* ChargeDeviceToLevel ends, though its loop has no limit but the level and the count of polls without a rise.
ChargeEnds == phase = "in" /\ kind = "charge" ~> phase = "out"
=============================================================================
