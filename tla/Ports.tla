---------------------------------- MODULE Ports ----------------------------------
(***************************************************************************)
(* AllocateTestServerPort of ports.py: the next port stands in a file that *)
(* is read and written under flock; ResetTestServerPortAllocation          *)
(* truncates and writes the same file without the lock.                    *)
(***************************************************************************)
EXTENDS Naturals, Sequences

CONSTANTS Tests,     \* processes that allocate
          LastPort,  \* of the ports from 1 on
          MaxResets, MaxAllocs  \* bounds

PortsAssumption == LastPort \in Nat \ {0, 1} /\ MaxResets \in Nat /\ MaxAllocs \in Nat /\ "free" \notin Tests

VARIABLES file,      \* the next port, 0 if the file is truncated
          lock, step, port,  \* the holder of the lock; per process, how far it is and what it has read
          taken,     \* ports that something of the host listens on
          issued,    \* the ports that were returned and recorded since the last reset
          resetting, resets, allocs

pvars == <<file, lock, step, port, taken, issued, resetting, resets, allocs>>

TypeOK ==
  /\ file \in 0..LastPort + 1 /\ lock \in Tests \union {"free"} /\ step \in [Tests -> {"idle", "read", "search", "write"}]
  /\ port \in [Tests -> 0..LastPort + 1] /\ taken \subseteq 1..LastPort /\ issued \in Seq(1..LastPort)
  /\ resetting \in BOOLEAN /\ resets \in 0..MaxResets /\ allocs \in 0..MaxAllocs

Init ==
  /\ file = 1 /\ lock = "free" /\ step = [t \in Tests |-> "idle"] /\ port = [t \in Tests |-> 0]
  /\ taken \in {{}, {2}} /\ issued = <<>> /\ resetting = FALSE /\ resets = 0 /\ allocs = 0

-----------------------------------------------------------------------------

Release(t) == lock' = "free" /\ step' = [step EXCEPT ![t] = "idle"]

Free == lock = "free"
Acquire(t) ==
  /\ step[t] = "idle" /\ Free /\ allocs < MaxAllocs /\ lock' = t /\ step' = [step EXCEPT ![t] = "read"] /\ allocs' = allocs + 1
  /\ port' = [port EXCEPT ![t] = 0] /\ UNCHANGED <<file, taken, issued, resetting, resets>>
\* An empty file is not a number: no port.
Read(t) ==
  /\ step[t] = "read" /\ port' = [port EXCEPT ![t] = file]
  /\ IF file = 0 THEN Release(t) ELSE step' = [step EXCEPT ![t] = "search"] /\ UNCHANGED lock
  /\ UNCHANGED <<file, taken, issued, resetting, resets, allocs>>
BeyondByOne(n) == n > LastPort + 1
Beyond(n) == n > LastPort
Search(t) ==
  /\ step[t] = "search" /\ UNCHANGED <<file, taken, issued, resetting, resets, allocs>>
  /\ \E next \in port[t]..LastPort + 2 :
       /\ next \notin taken /\ \A k \in port[t]..next - 1 : k \in taken
       /\ IF Beyond(next) THEN port' = [port EXCEPT ![t] = 0] /\ Release(t)
          ELSE port' = [port EXCEPT ![t] = next] /\ step' = [step EXCEPT ![t] = "write"] /\ UNCHANGED lock
Write(t) ==
  /\ step[t] = "write" /\ file' = port[t] + 1 /\ issued' = Append(issued, port[t]) /\ Release(t)
  /\ UNCHANGED <<port, taken, resetting, resets, allocs>>
\* A full disk: the port is returned all the same.
WriteFails(t) ==
  /\ step[t] = "write" /\ resets < MaxResets /\ resets' = resets + 1 /\ Release(t)
  /\ UNCHANGED <<file, port, taken, issued, resetting, allocs>>

Truncate ==
  /\ ~resetting /\ resets < MaxResets /\ resets' = resets + 1 /\ resetting' = TRUE /\ file' = 0
  /\ UNCHANGED <<lock, step, port, taken, issued, allocs>>
Reset ==
  /\ resetting /\ resetting' = FALSE /\ file' = 1 /\ issued' = <<>>
  /\ UNCHANGED <<lock, step, port, taken, resets, allocs>>

\* Servers come and go.
Listen == \E S \in {{}, {2}, {1, 2}} : taken' = S /\ UNCHANGED <<file, lock, step, port, issued, resetting, resets, allocs>>

Next == \/ \E t \in Tests : Acquire(t) \/ Read(t) \/ Search(t) \/ Write(t) \/ WriteFails(t)
        \/ Truncate \/ Reset \/ Listen

Spec == Init /\ [][Next]_pvars

-----------------------------------------------------------------------------
(* Properties *)

\* No port is returned twice since the last reset, unless recording it failed.
PortsAreDistinct == \A j, k \in DOMAIN issued : issued[j] = issued[k] => j = k
=============================================================================
