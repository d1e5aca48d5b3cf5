SPECIFICATION Spec
CONSTANTS
  Scenes <- MCScenes
  MaxTimeouts = 2
  MaxShells = 3
  MaxTraces = 2
  Phones = {"p1", "p2"}
  BattOrs = {"b1", "b2"}
  Port <- MCPort
  MaxNum = 4
  MaxReplugs = 2
  MaxEvents <- MCEvents
  Writers = {"w1", "w2"}
  MaxJobs <- MCJobs
  Updates <- MCUpdates
  MaxUpdateFails = 2
  Callers = {"c1", "c2", "c3"}
  Hashes = {"h1", "h2"}
  Wants <- MCWants
  MaxCalls = 4
  MaxFails = 2
  Entries <- MCEntries
  Retries = 1
  Host = {a1, a2}
  File = {f1, f2}
  Version = {v1, v2}
  Unknown = Unknown
  MaxTokens = 3
INVARIANTS TypesHold TraceIsSound BattOrIsSound LogIsSound StoresAreSound LookupIsBest
CONSTRAINT MCGuarded
CHECK_DEADLOCK FALSE
