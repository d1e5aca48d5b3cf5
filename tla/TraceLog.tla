-------------------------------- MODULE TraceLog --------------------------------
(***************************************************************************)
(* The log of py_trace_event: each process buffers its events under a lock *)
(* of its own and appends them to one file under flock, which belongs to   *)
(* the open file: a forked child has its parent's, another process that    *)
(* enables tracing has one of its own.  The child also has the parent's    *)
(* buffer, and the state in which the parent's lock was.                   *)
(***************************************************************************)
EXTENDS Naturals, Sequences, FiniteSets, SequencesExt

CONSTANT MaxEvents  \* bound on the events of each process, a function

VARIABLES forked,     \* not yet, runs, ended, or terminated
          enabled, buffer, owner,  \* per process: _enabled, _cur_events, and the pid that atexit was registered for
          lock,       \* per process: the thread in _lock, "free", or "lost": held by a thread that was not forked
          flock,      \* the open file that has the lock of the file, or "free"
          at, op,     \* per thread: how far its flush has come, and whether it closes the file
          added,      \* per process, its events so far
          copied,     \* what the child wrote of its parent's buffer
          file,       \* what was written: "[", ",", or a sequence of events
          clash       \* two processes wrote at the same time, or one was terminated while it wrote

vars == <<forked, enabled, buffer, owner, lock, flock, at, op, added, copied, file, clash>>

Thread == {"main", "second", "child", "other"}
Process == {"main", "child", "other"}
LogAssumption == MaxEvents \in [Process -> Nat]
Of(t) == IF t = "second" THEN "main" ELSE t
Open(t) == IF t = "other" THEN "own" ELSE "shared"
Runs(t) == t = "child" => forked = "runs"
\* The tokens of the file.
Mark(s) == [mark |-> s, events |-> <<>>]
Batch(es) == [mark |-> "events", events |-> es]

TypeOK ==
  /\ forked \in {"no", "runs", "ended", "terminated"} /\ clash \in BOOLEAN
  /\ enabled \in [Process -> BOOLEAN] /\ owner \in [Process -> Process \union {"none"}]
  /\ lock \in [Process -> Thread \union {"free", "lost"}] /\ flock \in {"free", "own", "shared"}
  /\ at \in [Thread -> {"idle", "locked", "begin", "write", "end"}] /\ op \in [Thread -> {"flush", "close", "last"}]
  /\ added \in [Process -> Nat] /\ copied \subseteq {"main"} \X (1..MaxEvents["main"])
  /\ \A p \in Process : \A e \in Range(buffer[p]) : e[1] \in Process

Init ==
  /\ forked = "no" /\ enabled = [p \in Process |-> FALSE] /\ buffer = [p \in Process |-> <<>>]
  /\ owner = [p \in Process |-> "none"] /\ lock = [p \in Process |-> "free"] /\ flock = "free"
  /\ at = [t \in Thread |-> "idle"] /\ op = [t \in Thread |-> "flush"] /\ added = [p \in Process |-> 0]
  /\ copied = {} /\ file = <<>> /\ clash = FALSE

-----------------------------------------------------------------------------
(* Events and control *)

\* trace_enable of a process that has not traced; who finds the file empty opens the list.
Enable(p) ==
  /\ p # "child" /\ ~enabled[p] /\ added[p] = 0 /\ op[p] = "flush" /\ at[p] = "idle" /\ lock[p] = "free" /\ flock = "free"
  /\ enabled' = [enabled EXCEPT ![p] = TRUE] /\ file' = IF file = <<>> THEN <<Mark("[")>> ELSE file
  /\ UNCHANGED <<forked, buffer, owner, lock, flock, at, op, added, copied, clash>>

\* add_trace_event: the first event of a process clears what its buffer came with.
KeptAll(p) == buffer[p]
Kept(p) == IF owner[p] = p THEN buffer[p] ELSE <<>>
Add(t) ==
  LET p == Of(t) IN
  /\ Runs(t) /\ at[t] = "idle" /\ op[t] # "last" /\ enabled[p] /\ lock[p] = "free" /\ added[p] < MaxEvents[p]
  /\ added' = [added EXCEPT ![p] = @ + 1] /\ owner' = [owner EXCEPT ![p] = p]
  /\ buffer' = [buffer EXCEPT ![p] = Append(Kept(p), <<p, added[p] + 1>>)]
  /\ UNCHANGED <<forked, enabled, lock, flock, at, op, copied, file, clash>>

\* Of the parent's threads only the one that forks is in the child.
Fork ==
  /\ forked = "no" /\ at["main"] = "idle" /\ enabled["main"] /\ forked' = "runs"
  /\ enabled' = [enabled EXCEPT !["child"] = TRUE] /\ buffer' = [buffer EXCEPT !["child"] = buffer["main"]]
  /\ owner' = [owner EXCEPT !["child"] = owner["main"]]
  /\ lock' = [lock EXCEPT !["child"] = IF lock["main"] = "free" THEN "free" ELSE "lost"]
  /\ UNCHANGED <<flock, at, op, added, copied, file, clash>>

-----------------------------------------------------------------------------
(* trace_flush and trace_disable *)

\* A child of the multiprocessing module flushes when it ends, and cannot disable.
Begin(t, o) ==
  LET p == Of(t) IN
  /\ Runs(t) /\ at[t] = "idle" /\ op[t] = "flush" /\ enabled[p] /\ lock[p] = "free"
  /\ o = "close" => t \in {"main", "other"}
  /\ o = "last" => t = "child"
  /\ at' = [at EXCEPT ![t] = "locked"] /\ op' = [op EXCEPT ![t] = o] /\ lock' = [lock EXCEPT ![p] = t]
  /\ enabled' = [enabled EXCEPT ![p] = o # "close"]
  /\ UNCHANGED <<forked, buffer, owner, flock, added, copied, file, clash>>

Inside(t) == at[t] \in {"begin", "write", "end"}
MayAlways(t) == TRUE
May(t) == flock \in {"free", Open(t)}
AcquireFileLock(t) ==
  /\ Runs(t) /\ at[t] = "locked" /\ May(t) /\ flock' = Open(t)
  /\ at' = [at EXCEPT ![t] = IF buffer[Of(t)] = <<>> THEN "end" ELSE "begin"]
  /\ clash' = (clash \/ \E u \in Thread : Open(u) = Open(t) /\ Inside(u))
  /\ UNCHANGED <<forked, enabled, buffer, owner, lock, op, added, copied, file>>
WriteComma(t) ==
  /\ Runs(t) /\ at[t] = "begin" /\ at' = [at EXCEPT ![t] = "write"] /\ file' = Append(file, Mark(","))
  /\ UNCHANGED <<forked, enabled, buffer, owner, lock, flock, op, added, copied, clash>>
WriteEvents(t) ==
  LET p == Of(t) IN
  /\ Runs(t) /\ at[t] = "write" /\ at' = [at EXCEPT ![t] = "end"]
  /\ file' = Append(file, Batch(buffer[p])) /\ buffer' = [buffer EXCEPT ![p] = <<>>]
  /\ copied' = (IF p = "child" /\ owner[p] # p THEN Range(buffer[p]) ELSE copied)
  /\ UNCHANGED <<forked, enabled, owner, lock, flock, op, added, clash>>
\* Whoever releases the lock of an open file releases it for all that have the file.
ReleaseFileLock(t) ==
  /\ Runs(t) /\ at[t] = "end" /\ at' = [at EXCEPT ![t] = "idle"]
  /\ flock' = (IF flock = Open(t) THEN "free" ELSE flock) /\ lock' = [lock EXCEPT ![Of(t)] = "free"]
  /\ forked' = (IF op[t] = "last" THEN "ended" ELSE forked)
  /\ UNCHANGED <<enabled, buffer, owner, op, added, copied, file, clash>>

Terminate ==
  /\ forked = "runs" /\ forked' = "terminated" /\ clash' = (clash \/ Inside("child"))
  /\ UNCHANGED <<enabled, buffer, owner, lock, flock, at, op, added, copied, file>>

Next ==
  \/ \E p \in Process : Enable(p)
  \/ Fork \/ Terminate
  \/ \E t \in Thread : \/ Add(t) \/ AcquireFileLock(t) \/ WriteComma(t) \/ WriteEvents(t) \/ ReleaseFileLock(t)
                       \/ \E o \in {"flush", "close", "last"} : Begin(t, o)

Spec == Init /\ [][Next]_vars

-----------------------------------------------------------------------------
(* Properties *)

Quiet == \A t \in Thread : ~Inside(t)
WellFormed == \A k \in DOMAIN file : file[k].mark = IF k = 1 THEN "[" ELSE IF k % 2 = 0 THEN "," ELSE "events"

\* Between two flushes the file is a list that only lacks its end, as "Trace files are multiprocess safe" says.
FileIsList == Quiet => WellFormed

Times(e) == Cardinality({k \in DOMAIN file : e \in Range(file[k].events)})
\* The file is a list unless parent and child wrote through the one open file at the same time, two open files never do;
\* an event is there twice only if the child found it in its buffer and flushed before it added one of its own;
\* and no event of a process that has closed the file, or of a child that has ended, is missing.
LogIsSound ==
  /\ ~clash => FileIsList
  /\ \A t, u \in Thread : Inside(t) /\ Inside(u) /\ Open(t) # Open(u) => clash
  /\ \A k \in DOMAIN file : \A e \in Range(file[k].events) : Times(e) > 1 => e \in copied
  /\ \A p \in Process : (IF p = "child" THEN forked = "ended" ELSE added[p] > 0 /\ ~enabled[p] /\ lock[p] = "free") =>
       \A n \in 1..added[p] : Times(<<p, n>>) > 0
=============================================================================
