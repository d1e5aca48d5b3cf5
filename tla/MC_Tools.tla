-------------------------------- MODULE MC_Tools --------------------------------
(* The tools above the devices: a trace with its agents, the shell and the    *)
(* map of the BattOrs, the trace log of several processes, the update, the    *)
(* fetch and the lookup of binaries, and the caches of two hosts that share a *)
(* device.  They share no state, so that one of them runs per behaviour.      *)
EXTENDS Naturals, Sequences, TLC

CONSTANTS Scenes, MaxTimeouts, MaxShells, MaxTraces, Phones, BattOrs, Port, MaxNum, MaxReplugs, MaxEvents,
          Writers, Updates, MaxJobs, MaxUpdateFails, Callers, Hashes, Wants, MaxCalls, MaxFails, Entries, Retries,
          Host, File, Version, Unknown, MaxTokens

VARIABLES part,
  scene, pc, i, todo, held, work, bg, child, succ, synced, results, timedOut, raised, atexit,
  alive, shell, started, tracing, recording, firmware, readable, flashing, traceFile, wanted, got, traces, over,
  num, tty, replugs, moved, op, step, phone, kinds, tree, map, mapFile, fileMoved, line,
  forked, enabled, buffer, owner, lock, flock, at, flush, added, copied, logFile, clash,
  disk, cloud, data, pending, writer, k, force, fails, raced, shared, late,
  caller, archive, holder, unzipped, source, stale, fetched, calls, fetchFails, unsafe,
  configs, merged, lookup, refused, exists, errors, broken, asked, result,
  use, app, files, prop, token, session, path, verify, apk, sums, value, saved, tokens, changed, unguarded, torn

Trace == INSTANCE Tracing
Agent == INSTANCE BattOrShell WITH file <- traceFile
Plugs == INSTANCE BattOrMap WITH file <- mapFile, result <- line
Log == INSTANCE TraceLog WITH file <- logFile, op <- flush
Update == INSTANCE ConfigUpdate WITH pc <- writer, MaxFails <- MaxUpdateFails
Fetch == INSTANCE CloudFetch WITH pc <- caller, tree <- unzipped, got <- fetched, fails <- fetchFails
Lookup == INSTANCE DependencyLookup
Cache == INSTANCE DeviceCache

ASSUME ToolsAssumption ==
  /\ Trace!TracingAssumption /\ Agent!ShellAssumption /\ Plugs!MapAssumption /\ Log!LogAssumption
  /\ Update!UpdateAssumption /\ Fetch!CloudFetchAssumption /\ Lookup!LookupAssumption /\ Cache!DeviceCacheAssumption

traceVars == <<scene, pc, i, todo, held, work, bg, child, succ, synced, results, timedOut, raised, atexit>>
agentVars ==
  <<alive, shell, started, tracing, recording, firmware, readable, flashing, traceFile, wanted, got, traces, over>>
plugVars == <<num, tty, replugs, moved, op, step, phone, kinds, tree, map, mapFile, fileMoved, line>>
logVars == <<forked, enabled, buffer, owner, lock, flock, at, flush, added, copied, logFile, clash>>
updateVars == <<disk, cloud, data, pending, writer, k, force, fails, raced, shared, late>>
fetchVars == <<caller, archive, holder, unzipped, source, stale, fetched, calls, fetchFails, unsafe>>
lookupVars == <<configs, merged, lookup, refused, exists, errors, broken, asked, result>>
cacheVars == <<use, app, files, prop, token, session, path, verify, apk, sums, value, saved, tokens, changed, unguarded, torn>>
vars == <<part, traceVars, agentVars, plugVars, logVars, updateVars, fetchVars, lookupVars, cacheVars>>

\* A part that does not run stays in one of its initial states.
Init ==
  /\ part \in {"trace", "agent", "plugs", "log", "update", "fetch", "lookup", "cache"}
  /\ IF part = "trace" THEN Trace!Init ELSE Trace!Init /\ scene.agents = <<"file">>
  /\ IF part = "agent" THEN Agent!Init ELSE Agent!Init /\ firmware = "new" /\ readable
  /\ IF part = "plugs" THEN Plugs!Init
     ELSE /\ Plugs!Init /\ phone = (CHOOSE p \in Phones : TRUE)
          /\ num = (CHOOSE f \in Plugs!Numberings : TRUE) /\ tty = (CHOOSE f \in Plugs!Wirings : TRUE)
  /\ Log!Init
  /\ Update!Init
  /\ IF part = "fetch" THEN Fetch!Init ELSE Fetch!Init /\ archive = "none" /\ unzipped = [h \in Hashes |-> {}]
  /\ IF part = "lookup" THEN Lookup!Init
     ELSE Lookup!Init /\ configs = <<[p \in Lookup!Platforms |-> Lookup!Absent], [p \in Lookup!Platforms |-> Lookup!Absent]>>
  /\ IF part = "cache" THEN Cache!Init ELSE Cache!Init /\ use = "apps" /\ prop = CHOOSE v \in Version : TRUE

Next ==
  /\ UNCHANGED part
  /\ \/ part = "trace" /\ Trace!Next
        /\ UNCHANGED <<agentVars, plugVars, logVars, updateVars, fetchVars, lookupVars, cacheVars>>
     \/ part = "agent" /\ Agent!Next
        /\ UNCHANGED <<traceVars, plugVars, logVars, updateVars, fetchVars, lookupVars, cacheVars>>
     \/ part = "plugs" /\ Plugs!Next
        /\ UNCHANGED <<traceVars, agentVars, logVars, updateVars, fetchVars, lookupVars, cacheVars>>
     \/ part = "log" /\ Log!Next
        /\ UNCHANGED <<traceVars, agentVars, plugVars, updateVars, fetchVars, lookupVars, cacheVars>>
     \/ part = "update" /\ Update!Next
        /\ UNCHANGED <<traceVars, agentVars, plugVars, logVars, fetchVars, lookupVars, cacheVars>>
     \/ part = "fetch" /\ Fetch!Next
        /\ UNCHANGED <<traceVars, agentVars, plugVars, logVars, updateVars, lookupVars, cacheVars>>
     \/ part = "lookup" /\ Lookup!Next
        /\ UNCHANGED <<traceVars, agentVars, plugVars, logVars, updateVars, fetchVars, cacheVars>>
     \/ part = "cache" /\ Cache!Next
        /\ UNCHANGED <<traceVars, agentVars, plugVars, logVars, updateVars, fetchVars, lookupVars>>

Spec == Init /\ [][Next]_vars

-----------------------------------------------------------------------------
(* The instance *)

Systrace(agents, json) == [front |-> "systrace", agents |-> agents, json |-> json]
Chrome(agents, json) == [front |-> "chrome", agents |-> agents, json |-> json]
MCScenes ==
  {Systrace(<<"process", "atrace">>, FALSE), Systrace(<<"process", "atrace", "battor", "walt">>, FALSE),
   Systrace(<<"battor", "ftrace", "walt">>, TRUE), Systrace(<<"file">>, FALSE), Systrace(<<"atrace", "battor">>, TRUE),
   Chrome(<<"chrome", "ddms", "perf", "atrace">>, FALSE), Chrome(<<"memory", "atrace">>, FALSE),
   Chrome(<<"startup", "atrace">>, FALSE), Chrome(<<"perf">>, TRUE)}
MCPort == [d \in Phones \union BattOrs |-> IF d \in {"p1", "b1"} THEN 1 ELSE 2]
MCEvents == [p \in {"main", "child", "other"} |-> IF p = "main" THEN 2 ELSE 1]
MCJobs == [w \in Writers |-> IF w = "w1" THEN 2 ELSE 1]
MCUpdates == [w \in Writers |-> IF w = "w1" THEN {<<"a", "new">>, <<"b", "old">>} ELSE {<<"a", "new">>}]
MCWants == [c \in Callers |-> IF c = "c3" THEN "h2" ELSE "h1"]
Entry(g, c) == [groups |-> g, cloud |-> c, named |-> TRUE]
\* bound: what follows a change that no cache could learn of is not looked at
MCGuarded == part = "cache" => ~unguarded
MCEntries == {Entry(<<>>, FALSE), Entry(<<{"y"}, {"x", "z"}>>, TRUE), Entry(<<{"x", "y"}>>, FALSE)}

-----------------------------------------------------------------------------
(* Properties *)

\* Every variable of the part that runs has its type.
TypesHold ==
  /\ part = "trace" => Trace!TypeOK
  /\ part = "agent" => Agent!TypeOK
  /\ part = "plugs" => Plugs!TypeOK
  /\ part = "log" => Log!TypeOK
  /\ part = "update" => Update!TypeOK
  /\ part = "fetch" => Fetch!TypeOK
  /\ part = "lookup" => Lookup!TypeOK
  /\ part = "cache" => Cache!TypeOK

\* What a trace left on the device has a failed call behind it; what it hands over is of the agents that answered, whole, and with
\* markers from their recording.
TraceIsSound == part = "trace" => Trace!LeftIsExplained /\ Trace!ResultsAreWhole /\ Trace!MarkersAreInside

\* No agent process outlives its wrapper, traces are recorded by the new firmware, and a phone's line is of its own BattOr.
BattOrIsSound ==
  /\ part = "agent" => Agent!AgentIsShell /\ Agent!FirmwareIsNew
  /\ part = "plugs" => Plugs!LineIsOfPhone

\* The trace log is a list with every event once, but for the events and the writes around a fork.
LogIsSound == part = "log" => Log!LogIsSound

\* A config names only what can be downloaded, a fetch gives the whole tree that was asked for, and what a session remembers of a device is
\* so, but for the named causes: two writers, an interrupt after the config is written, two callers outside the lock, stale trees removed
\* halfway, two sessions, a cache loaded after a change, checksums passed by.
StoresAreSound ==
  /\ part = "update" => Update!ConfigIsBacked
  /\ part = "fetch" => Fetch!FetchIsWhole
  /\ part = "cache" => Cache!LastSessionIsRight

\* A lookup finds the best file, and its versioned form falls back only when the versioned platform has no place to look at.
LookupIsBest == part = "lookup" => Lookup!LookupIsBest
=============================================================================
