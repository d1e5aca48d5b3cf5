------------------------------- MODULE MC_Services -------------------------------
(* What the tools do to a device and its host: measuring the battery,         *)
(* booting and flashing, caring for a fleet, changing flags and preferences,  *)
(* tuning the CPUs, recording the log and the frames, and numbering ports.    *)
(* They share no state, so that one of them runs per behaviour.               *)
EXTENDS Naturals, Sequences

CONSTANTS Retries, MaxLevel, MaxErrors, FlashRows, MaxBoots, Devices, Steps, Scenes, Flags, Lines, MaxDepth, Keys, Values,
          Models, MaxLog, MaxLines, MaxThreads, Ring, MaxFrames, MaxStarts, Tests, LastPort, MaxResets, MaxAllocs

VARIABLES part,
  profile, kind, phase, fresh, todo, tries, failed, hw, stopped, ac, usb, level, last, errors,
  stage, next, boots, rooted, offModeCharge, needsSu, op, images, pos, result, before, trouble,
  form, blacklist, acc, pc, step, bad, reboot, frameless, due, dropped, overlap,
  flagFile, stack, asked, enforcing, needs, flagPhase, writeFailed,
  prefsFile, alive, copy, outdated, wrote, xml, changed, prefsPhase, committed,
  model, hasMpdecision, adbRoot, mpdecision, online, governor, clocks, mode, row, spoilt, hot, log, throttled, missed,
  clear, lines, opened, record, given, recordStop, stopping, current, begun, state, at, outlived,
  frames, caller, starts, getData, stop, queue, thread, retries, lastFrame, timestamps, stats, first, skipped,
  portFile, lock, portStep, port, taken, issued, resetting, resets, allocs

Battery == INSTANCE BatteryUtils
Boot == INSTANCE DeviceBoot
Care == INSTANCE Fleet WITH file <- blacklist, stopped <- frameless
Flag == INSTANCE FlagChanger WITH file <- flagFile, phase <- flagPhase, failed <- writeFailed
Prefs == INSTANCE SharedPrefs WITH file <- prefsFile, phase <- prefsPhase
Tuning == INSTANCE DeviceTuning WITH rooted <- adbRoot
Logcat == INSTANCE LogcatMonitor WITH stop <- recordStop
Surface == INSTANCE SurfaceStats WITH last <- lastFrame, result <- stats
Tickets == INSTANCE Ports WITH file <- portFile, step <- portStep

ASSUME ServicesAssumption ==
  /\ Battery!BatteryAssumption /\ Boot!BootAssumption /\ Care!FleetAssumption /\ Tuning!TuningAssumption
  /\ Flag!FlagsAssumption /\ Logcat!LogcatAssumption /\ Surface!SurfaceAssumption /\ Tickets!PortsAssumption

batteryVars == <<profile, kind, phase, fresh, todo, tries, failed, hw, stopped, ac, usb, level, last, errors>>
bootVars == <<stage, next, boots, rooted, offModeCharge, needsSu, op, images, pos, result, before, trouble>>
careVars == <<form, blacklist, acc, pc, step, bad, reboot, frameless, due, dropped, overlap>>
flagVars == <<flagFile, stack, asked, enforcing, needs, flagPhase, writeFailed>>
prefsVars == <<prefsFile, alive, copy, outdated, wrote, xml, changed, prefsPhase, committed>>
tuningVars ==
  <<model, hasMpdecision, adbRoot, mpdecision, online, governor, clocks, mode, row, spoilt, hot, log, throttled, missed>>
logcatVars == <<clear, lines, opened, record, given, recordStop, stopping, current, begun, state, at, outlived>>
surfaceVars == <<frames, caller, starts, getData, stop, queue, thread, retries, lastFrame, timestamps, stats, first, skipped>>
portVars == <<portFile, lock, portStep, port, taken, issued, resetting, resets, allocs>>
restOfBattery == <<bootVars, careVars, flagVars, prefsVars, tuningVars, logcatVars, surfaceVars, portVars>>
restOfSurface == <<batteryVars, bootVars, careVars, flagVars, prefsVars, tuningVars, logcatVars, portVars>>

\* A part that does not run stays in one of its initial states.
Init ==
  /\ part \in {"battery", "boot", "care", "flag", "prefs", "tuning", "logcat", "surface", "ports"}
  /\ IF part = "battery" THEN Battery!Init ELSE Battery!Init /\ profile /\ level = 0
  /\ IF part = "boot" THEN Boot!Init ELSE Boot!Init /\ images = <<>>
  /\ IF part = "care" THEN Care!Init ELSE Care!Init /\ bad = {} /\ pc[<<"monitor", "main">>][1] = "watch"
  /\ IF part = "flag" THEN Flag!Init ELSE Flag!Init /\ flagFile = <<>>
  /\ IF part = "prefs" THEN Prefs!Init ELSE Prefs!Init /\ prefsFile = Prefs!Empty
  /\ IF part = "tuning" THEN Tuning!Init ELSE Tuning!Init /\ hasMpdecision /\ model.clocks
  /\ IF part = "logcat" THEN Logcat!Init ELSE Logcat!Init /\ clear
  /\ Surface!Init
  /\ IF part = "ports" THEN Tickets!Init ELSE Tickets!Init /\ taken = {}

Next ==
  /\ UNCHANGED part
  /\ \/ part = "battery" /\ Battery!Next /\ UNCHANGED restOfBattery
     \/ part = "boot" /\ Boot!Next
        /\ UNCHANGED <<batteryVars, careVars, flagVars, prefsVars, tuningVars, logcatVars, surfaceVars, portVars>>
     \/ part = "care" /\ Care!Next
        /\ UNCHANGED <<batteryVars, bootVars, flagVars, prefsVars, tuningVars, logcatVars, surfaceVars, portVars>>
     \/ part = "flag" /\ Flag!Next
        /\ UNCHANGED <<batteryVars, bootVars, careVars, prefsVars, tuningVars, logcatVars, surfaceVars, portVars>>
     \/ part = "prefs" /\ Prefs!Next
        /\ UNCHANGED <<batteryVars, bootVars, careVars, flagVars, tuningVars, logcatVars, surfaceVars, portVars>>
     \/ part = "tuning" /\ Tuning!Next
        /\ UNCHANGED <<batteryVars, bootVars, careVars, flagVars, prefsVars, logcatVars, surfaceVars, portVars>>
     \/ part = "logcat" /\ Logcat!Next
        /\ UNCHANGED <<batteryVars, bootVars, careVars, flagVars, prefsVars, tuningVars, surfaceVars, portVars>>
     \/ part = "surface" /\ Surface!Next /\ UNCHANGED restOfSurface
     \/ part = "ports" /\ Tickets!Next
        /\ UNCHANGED <<batteryVars, bootVars, careVars, flagVars, prefsVars, tuningVars, logcatVars, surfaceVars>>

vars ==
  <<part, batteryVars, bootVars, careVars, flagVars, prefsVars, tuningVars, logcatVars, surfaceVars, portVars>>

\* The fairness of BatteryUtils and of SurfaceStats.
Spec ==
  /\ Init /\ [][Next]_vars
  /\ WF_batteryVars(part = "battery" /\ (Battery!Try \/ Battery!Command \/ Battery!Entered \/ Battery!Left))
  /\ WF_batteryVars(part = "battery" /\ Battery!Fails)
  /\ WF_batteryVars(part = "battery" /\ Battery!Poll(MaxLevel))
  /\ WF_surfaceVars(part = "surface" /\ Surface!Collector)
  /\ WF_surfaceVars(part = "surface" /\ Surface!Gets)
  /\ WF_surfaceVars(part = "surface" /\ Surface!Join)

-----------------------------------------------------------------------------
(* The instance *)

MCFlashRows == {<<"flash", "again", "fastboot", "flash">>, <<>>}
MCSteps == <<[kind |-> "SetProperties", reboot |-> TRUE], [kind |-> "RemoveSystemApps", reboot |-> FALSE]>>
ThreadsOf(p, ds) == {<<p, d>> : d \in ds \union {"main"}}
MCScenes ==
  {ThreadsOf("recovery", {"d1"}) \union ThreadsOf("provision", {"d1"}) \union ThreadsOf("monitor", {}),
   ThreadsOf("recovery", Devices), ThreadsOf("provision", Devices)}
MCFlags == {<<"a", "=", "b", "s", "w", "b", "q">>, <<"s", "b", "q", "=", "a">>}
MCLines == {<<>>, <<"a", "w", "s", "a", "w", "q", "s">>}
MCModels == {[forces |-> f, clocks |-> FALSE] : f \in BOOLEAN} \union {[forces |-> TRUE, clocks |-> TRUE]}

-----------------------------------------------------------------------------
(* Properties *)

\* Every variable of the part that runs has its type.
TypesHold ==
  /\ part = "battery" => Battery!TypeOK
  /\ part = "boot" => Boot!TypeOK
  /\ part = "care" => Care!TypeOK
  /\ part = "flag" => Flag!TypeOK
  /\ part = "prefs" => Prefs!TypeOK
  /\ part = "tuning" => Tuning!TypeOK
  /\ part = "logcat" => Logcat!TypeOK
  /\ part = "surface" => Surface!TypeOK
  /\ part = "ports" => Tickets!TypeOK

\* A Reboot has restarted the device, su is known to be needed or not, and flashing leaves the bootloader, but for the named causes.
BootIsSound == part = "boot" => Boot!RebootIsReal /\ Boot!RootIsKnown /\ Boot!BootloaderIsLeft

\* Of the files that a lock guards: no thread loses another one's entry of the blacklist, and a device without its framework is on it
\* when the scripts have ended, but for the named Reset; no port is returned twice since the last reset, unless recording it failed.
LockedFilesAreSound ==
  /\ part = "care" => Care!BlacklistKept /\ Care!StoppedIsListed
  /\ part = "ports" => Tickets!PortsAreDistinct

\* What a context or a mode changed of the device is as before when it is left: the battery's state, SELinux, the preferences
\* as committed, the governor and the clocks; and throttling is known.
ContextsRestore ==
  /\ part = "battery" => Battery!Restored
  /\ part = "flag" => Flag!EnforcingRestored
  /\ part = "prefs" => Prefs!CommitIsSeen
  /\ part = "tuning" => Tuning!DefaultIsBack /\ Tuning!ThrottlingIsKnown

\* A line of the log and a frame are recorded once and in their order, but for the named causes.
RecordingsAreSound ==
  /\ part = "logcat" => Logcat!NoLineTwice
  /\ part = "surface" => Surface!FramesOnce

\* After a context the application has the flags that were asked for.
FlagsAreRestored == part = "flag" => Flag!FlagsRestored

\* Charging to a level ends, and so does stopping the collection of frames, whatever became of its thread, once.
WaitsEnd ==
  /\ part = "battery" => Battery!ChargeEnds
  /\ part = "surface" => Surface!StopEnds
=============================================================================
