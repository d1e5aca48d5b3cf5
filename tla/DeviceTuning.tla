----------------------------- MODULE DeviceTuning -----------------------------
(***************************************************************************)
(* Setting a device up for measurements (devil's perf_control.py) and      *)
(* watching its temperature (thermal_throttle.py).                         *)
(*                                                                         *)
(* A mode is a row of commands to the device; the first that fails ends    *)
(* it.  The thermal log is read and emptied by one command, which may      *)
(* empty it and yet fail, to be tried again.                               *)
(***************************************************************************)
EXTENDS Naturals, Sequences

CONSTANTS Models,  \* product models: [forces, clocks], whether high performance forces the CPUs online and sets the clocks
          MaxLog   \* bound: lines in the thermal log

\* A model that has clocks to set, which only some of those do whose CPUs are forced, is one of these.
TuningAssumption == Models \subseteq [forces : BOOLEAN, clocks : BOOLEAN] /\ MaxLog \in Nat

VARIABLES model, hasMpdecision,
          rooted, mpdecision, online,  \* of the device: adbd as root, mpdecision running, all CPUs online
          governor, clocks,  \* as set by it, or by which mode
          mode, row,  \* the mode being set or set last, and the commands left
          spoilt,     \* since the device was as it should be, a command failed or the CPUs were not all online when it mattered
          hot, log,   \* of the device: throttling, and the lines about it
          throttled, missed  \* _throttled, and a reading of the log whose answer was lost

vars == <<model, hasMpdecision, rooted, mpdecision, online, governor, clocks, mode, row, spoilt, hot, log, throttled, missed>>
perf == <<model, hasMpdecision, rooted, mpdecision, online, governor, clocks, mode, row, spoilt>>
thermal == <<hot, log, throttled, missed>>

TypeOK ==
  /\ model \in Models /\ hasMpdecision \in BOOLEAN
  /\ rooted \in BOOLEAN /\ mpdecision \in BOOLEAN /\ online \in BOOLEAN
  /\ governor \in {"default", "performance"} /\ clocks \in {"default", "low"}
  /\ mode \in {"default", "high", "profiling"}
  /\ row \in Seq({"root", "stop", "online", "clocks low", "clocks default", "performance", "ondemand", "start", "check", "if root", "if online"})
  /\ spoilt \in BOOLEAN
  /\ hot \in BOOLEAN /\ log \in Seq(BOOLEAN) /\ Len(log) <= MaxLog /\ throttled \in BOOLEAN /\ missed \in BOOLEAN

Init ==
  /\ model \in Models /\ hasMpdecision \in BOOLEAN
  /\ rooted = FALSE /\ mpdecision = hasMpdecision /\ online = TRUE
  /\ governor = "default" /\ clocks = "default" /\ mode = "default" /\ row = <<>> /\ spoilt = FALSE
  /\ hot = FALSE /\ log = <<>> /\ throttled = FALSE /\ missed = FALSE

-----------------------------------------------------------------------------
(* PerfControl *)

ForceAllCpusOnline(on) ==
  IF on THEN (IF hasMpdecision THEN <<"stop">> ELSE <<>>) \o <<"online">>
  ELSE IF hasMpdecision THEN <<"start">> ELSE <<>>
SetHighPerfMode ==
  <<"root">> \o (IF model.forces THEN ForceAllCpusOnline(TRUE) ELSE <<>>) \o <<"performance">>
  \o IF model.clocks THEN <<"clocks low">> ELSE <<>>
SetPerfProfilingMode == ForceAllCpusOnline(TRUE) \o <<"performance", "check">>
LeavePerfMode == <<"if root">> \o (IF model.clocks THEN <<"if online", "clocks default">> ELSE <<>>) \o <<"ondemand">>
SetDefaultPerfMode ==
  <<"if root">> \o (IF model.clocks THEN <<"if online", "clocks default">> ELSE <<>>) \o <<"ondemand">> \o ForceAllCpusOnline(FALSE)

Set(m) ==
  /\ row = <<>> /\ mode' = m
  /\ row' = CASE m = "high" -> SetHighPerfMode [] m = "profiling" -> SetPerfProfilingMode [] OTHER -> SetDefaultPerfMode
  /\ UNCHANGED <<model, hasMpdecision, rooted, mpdecision, online, governor, clocks, spoilt, thermal>>

\* The files of the device belong to root; a write that fails there is only logged.
Obeys(c) ==
  /\ mpdecision' = IF rooted /\ c = "stop" THEN FALSE ELSE IF rooted /\ c = "start" THEN TRUE ELSE mpdecision
  /\ online' \in IF rooted /\ c = "online" THEN {online, TRUE} ELSE {online}
  /\ governor' = IF rooted /\ c = "performance" THEN "performance" ELSE IF rooted /\ c = "ondemand" THEN "default" ELSE governor
  /\ clocks' = IF rooted /\ c = "clocks low" THEN "low" ELSE IF rooted /\ c = "clocks default" THEN "default" ELSE clocks
  /\ rooted' = (rooted \/ c = "root")

Command ==
  /\ row # <<>>
  /\ LET c == Head(row) IN
       /\ Obeys(c)
       /\ row' = CASE c = "if root" /\ ~rooted -> <<>>
                   [] c = "if online" /\ ~online -> SubSeq(row, 3, Len(row))
                   [] OTHER -> Tail(row)
       /\ spoilt' = (spoilt \/ (c = "if online" /\ ~online))
  /\ UNCHANGED <<model, hasMpdecision, mode, thermal>>

\* Without root, SetHighPerfMode gives up.
Fails ==
  /\ row # <<>>
  /\ (\/ UNCHANGED <<rooted, mpdecision, online, governor, clocks>>
      \/ Obeys(Head(row)))
  /\ row' = <<>> /\ spoilt' = (spoilt \/ Head(row) # "root")
  /\ UNCHANGED <<model, hasMpdecision, mode, thermal>>

\* CPUs go offline and online while nothing keeps them; a restart of the device undoes every mode.
Hotplug ==
  /\ mpdecision \/ ~hasMpdecision
  /\ online' = ~online
  /\ UNCHANGED <<model, hasMpdecision, rooted, mpdecision, governor, clocks, mode, row, spoilt, thermal>>
Restart ==
  /\ row = <<>>
  /\ rooted' = FALSE /\ mpdecision' = hasMpdecision /\ online' = TRUE /\ governor' = "default" /\ clocks' = "default"
  /\ spoilt' = FALSE
  /\ log' = <<>> /\ missed' = TRUE
  /\ UNCHANGED <<model, hasMpdecision, mode, row, hot, throttled>>

-----------------------------------------------------------------------------
(* ThermalThrottle *)

Throttles ==
  /\ Len(log) < MaxLog /\ hot' = ~hot /\ log' = Append(log, hot')
  /\ UNCHANGED <<perf, throttled, missed>>

\* The lines are taken in their order: the last one decides.
ReadFirst(t) == IF log = <<>> THEN t ELSE Head(log)
ReadLog(t) == IF log = <<>> THEN t ELSE log[Len(log)]
IsThrottled ==
  /\ throttled' = ReadLog(throttled) /\ log' = <<>> /\ missed' = (missed /\ log = <<>>)
  /\ UNCHANGED <<perf, hot>>
AnswerLost ==
  /\ log # <<>> /\ log' = <<>> /\ missed' = TRUE
  /\ UNCHANGED <<perf, hot, throttled>>

Next ==
  \/ Command \/ Fails \/ Hotplug \/ Restart \/ Throttles \/ IsThrottled \/ AnswerLost
  \/ \E m \in {"high", "profiling", "default"} : Set(m)

Spec == Init /\ [][Next]_vars

-----------------------------------------------------------------------------
(* Properties *)

\* After SetDefaultPerfMode on a device that still runs adbd as root nothing of the other modes is left, provided that no command
\* failed since the device started and that its CPUs were online when the clocks were to be set back.
DefaultIsBack ==
  mode = "default" /\ row = <<>> /\ ~spoilt => governor = "default" /\ clocks = "default" /\ mpdecision = hasMpdecision

\* With every line of the log read, IsThrottled knows whether the device throttles, unless an answer was lost.
ThrottlingIsKnown == log = <<>> /\ ~missed => throttled = hot
=============================================================================
