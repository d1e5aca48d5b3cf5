------------------------------ MODULE BattOrShell ------------------------------
(***************************************************************************)
(* BattOrWrapper, and the process battor_agent that it drives through a    *)
(* pipe: the firmware is checked, and flashed, before every trace, and the *)
(* process ends by itself once it has written what it recorded.  An        *)
(* assertion that fails changes nothing and is left out.                   *)
(***************************************************************************)
EXTENDS Naturals

CONSTANTS MaxShells, MaxTraces  \* bounds: processes, and traces

ShellAssumption == MaxShells \in Nat

VARIABLES alive,      \* the processes that run
          shell,      \* _battor_shell, 0 for None
          started,
          tracing, recording,  \* _tracing, and the process that records
          firmware, readable,  \* "old" or "new"; whether the answer is a hash
          flashing,   \* how far StartTracing has come: no, hash, off, flash, failed or ready
          file, wanted, got,  \* the traces the results file holds, StopTracing asked for, and CollectTraceData returned
          traces, over

vars == <<alive, shell, started, tracing, recording, firmware, readable, flashing, file, wanted, got, traces, over>>
files == <<file, wanted, got, traces>>
device == <<firmware, readable>>

TypeOK ==
  /\ alive \subseteq 1..MaxShells /\ shell \in 0..MaxShells /\ started \in 0..MaxShells
  /\ tracing \in BOOLEAN /\ recording \in 0..MaxShells /\ over \in BOOLEAN
  /\ firmware \in {"old", "new"} /\ readable \in BOOLEAN /\ flashing \in {"no", "hash", "off", "flash", "failed", "ready"}
  /\ file <= traces /\ wanted <= traces /\ got <= traces

Init ==
  /\ alive = {} /\ shell = 0 /\ started = 0 /\ tracing = FALSE /\ recording = 0
  /\ firmware \in {"old", "new"} /\ readable \in BOOLEAN /\ flashing = "no"
  /\ file = 0 /\ wanted = 0 /\ got = 0 /\ traces = 0 /\ over = FALSE

-----------------------------------------------------------------------------
(* Helpers *)

\* A new process; one that ends at once fails an assertion, and stays the shell.
Opens ==
  /\ started < MaxShells /\ started' = started + 1 /\ shell' = started + 1
  /\ alive' \in {alive, alive \union {started + 1}}
Kill == alive' = alive \ {shell}
\* Out of a command that is given to a process that ended comes an IOError.
Answers == shell \in alive
Idle == ~over /\ flashing = "no"

-----------------------------------------------------------------------------
(* Operations *)

StartShell ==
  /\ Idle /\ shell = 0 /\ Opens
  /\ UNCHANGED <<tracing, recording, device, flashing, files, over>>

\* The process is asked to exit, and killed if it does not in time.
Abandoned(p) == alive
Reaped(p) == alive \ {p}
Close == /\ shell # 0 /\ Answers /\ alive' = Reaped(shell) /\ shell' = 0
StopShell ==
  /\ Idle /\ ~tracing /\ Close
  /\ UNCHANGED <<started, tracing, recording, device, flashing, files, over>>

StartTracing ==
  /\ Idle /\ shell # 0 /\ ~tracing /\ traces < MaxTraces /\ flashing' = "hash"
  /\ UNCHANGED <<alive, shell, started, tracing, recording, device, files, over>>
\* _FlashBattOr: an answer that is no hash is only logged.
ReadHash ==
  /\ flashing = "hash"
  /\ flashing' = (IF ~Answers THEN "no" ELSE IF readable /\ firmware = "old" THEN "off" ELSE "ready")
  /\ UNCHANGED <<alive, shell, started, tracing, recording, device, files, over>>
ShellOff ==
  /\ flashing = "off"
  /\ \/ Close /\ flashing' = "flash"
     \/ ~Answers /\ flashing' = "no" /\ UNCHANGED <<alive, shell>>
  /\ UNCHANGED <<started, tracing, recording, device, files, over>>
\* The shell is opened again whether avrdude failed or not.
FlashIgnored ==
  /\ flashing = "flash" /\ Opens /\ flashing' = "ready" /\ firmware' \in {"old", "new"}
  /\ UNCHANGED <<tracing, recording, readable, files, over>>
FlashFirmware ==
  /\ flashing = "flash" /\ Opens
  /\ \/ firmware' = "new" /\ flashing' = (IF started' \in alive' THEN "ready" ELSE "no") /\ UNCHANGED readable
     \/ flashing' = "no" /\ readable' \in {readable, FALSE} /\ UNCHANGED firmware
  /\ UNCHANGED <<tracing, recording, files, over>>
\* A command that is not answered with Done. has the shell killed, and stays the wrapper's shell.
SendStart ==
  /\ flashing = "ready" /\ flashing' = "no"
  /\ \/ Answers /\ tracing' = TRUE /\ recording' = shell /\ traces' = traces + 1 /\ UNCHANGED alive
     \/ Answers /\ Kill /\ UNCHANGED <<tracing, recording, traces>>
     \/ ~Answers /\ UNCHANGED <<alive, tracing, recording, traces>>
  /\ UNCHANGED <<shell, started, device, file, wanted, got, over>>

RecordClockSyncMarker ==
  /\ Idle /\ Answers /\ Kill
  /\ UNCHANGED <<shell, started, tracing, recording, device, flashing, files, over>>

\* The answer to StopTracing is not looked at.
StopTracing ==
  /\ Idle /\ tracing /\ Answers /\ tracing' = FALSE /\ wanted' = traces
  /\ UNCHANGED <<alive, shell, started, recording, device, flashing, file, got, traces, over>>

Collected == shell # 0 /\ shell \notin alive
CollectTraceData ==
  /\ Idle /\ ~tracing /\ wanted > 0 /\ Collected /\ got' = file /\ shell' = 0
  /\ UNCHANGED <<alive, started, tracing, recording, device, flashing, file, wanted, traces, over>>

\* KillBattOrShell at the exit.
Exit ==
  /\ Idle /\ over' = TRUE /\ Kill
  /\ UNCHANGED <<shell, started, tracing, recording, device, flashing, files>>

\* The process writes its results when it was told to stop, and ends; or it breaks off.
AgentEnds ==
  /\ recording \in alive /\ ~tracing /\ wanted = traces /\ wanted > file
  /\ alive' = alive \ {recording} /\ file' = wanted
  /\ UNCHANGED <<shell, started, tracing, recording, device, flashing, wanted, got, traces, over>>
AgentDies ==
  /\ \E p \in alive : alive' = alive \ {p}
  /\ UNCHANGED <<shell, started, tracing, recording, device, flashing, files, over>>

Next == StartShell \/ StopShell \/ StartTracing \/ ReadHash \/ ShellOff \/ FlashFirmware \/ SendStart \/ RecordClockSyncMarker
        \/ StopTracing \/ CollectTraceData \/ Exit \/ AgentEnds \/ AgentDies

Spec == Init /\ [][Next]_vars

-----------------------------------------------------------------------------
(* Properties *)

\* A process that runs is the wrapper's shell, so that no two drive one BattOr, and none is left at the exit.
AgentIsShell == alive \subseteq {shell} /\ (over => alive = {})

\* A trace is recorded by the new firmware, unless the BattOr's answer was no hash.
FirmwareIsNew == tracing /\ readable => firmware = "new"
=============================================================================
