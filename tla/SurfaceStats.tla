------------------------------ MODULE SurfaceStats ------------------------------
(***************************************************************************)
(* Collecting frame times from a device (devil's                           *)
(* surface_stats_collector.py).  A thread polls SurfaceFlinger, which      *)
(* keeps the last frames only, and hands over what it has when the event   *)
(* get_data says so; an error goes through the same queue.                 *)
(***************************************************************************)
EXTENDS Integers, Sequences

CONSTANTS Ring,      \* frames that SurfaceFlinger keeps
          MaxFrames, MaxStarts  \* bounds: frames, and collections that are started

SurfaceAssumption == Ring \in Nat /\ MaxFrames \in Nat /\ MaxStarts \in Nat

VARIABLES frames,    \* frames shown so far
          caller,    \* out, on, stopping, joining, raised: a Stop has raised and keeps its thread, or again: in a Stop after that one
          starts, getData, stop, queue,  \* the two events and the queue of this collection
          thread,    \* none, looks, reads, parked or dead
          retries,
          last,      \* last_timestamp
          timestamps,  \* those that are not handed over yet
          result, first,  \* what Stop returned, and the frames there were at Start
          skipped    \* more frames than the ring holds passed between two readings

vars == <<frames, caller, starts, getData, stop, queue, thread, retries, last, timestamps, result, first, skipped>>
shared == <<getData, stop, queue>>
own == <<retries, last, timestamps>>

Data(ts) == [kind |-> "data", ts |-> ts]
NoData == [kind |-> "none", ts |-> <<>>]
Error == [kind |-> "error", ts |-> <<>>]

TypeOK ==
  /\ frames \in 0..MaxFrames /\ starts \in 0..MaxStarts
  /\ caller \in {"out", "on", "stopping", "joining", "raised", "again"} /\ thread \in {"none", "looks", "reads", "parked", "dead"}
  /\ getData \in BOOLEAN /\ stop \in BOOLEAN /\ Len(queue) <= 2
  /\ retries \in 0..3 /\ last \in 0..MaxFrames /\ first \in 0..MaxFrames
  /\ \A s \in {timestamps} \union {queue[j].ts : j \in DOMAIN queue} : \A i \in DOMAIN s : s[i] \in 1..MaxFrames
  /\ result.kind \in {"data", "none"} /\ skipped \in BOOLEAN

Init ==
  /\ frames = 0 /\ caller = "out" /\ starts = 0
  /\ getData = FALSE /\ stop = FALSE /\ queue = <<>>
  /\ thread = "none" /\ retries = 0 /\ last = 0 /\ timestamps = <<>>
  /\ result = NoData /\ first = 0 /\ skipped = FALSE

Shows ==
  /\ frames < MaxFrames /\ frames' = frames + 1
  /\ UNCHANGED <<caller, starts, shared, thread, own, result, first, skipped>>

\* The frames shown so far are cleared first.
Start ==
  /\ caller = "out" /\ starts < MaxStarts
  /\ starts' = starts + 1 /\ caller' = "on" /\ first' = frames
  /\ getData' = FALSE /\ stop' = FALSE /\ queue' = <<>>
  /\ thread' = "looks" /\ retries' = 0 /\ last' = 0 /\ timestamps' = <<>> /\ skipped' = FALSE
  /\ UNCHANGED <<frames, result>>

Looks ==
  /\ thread = "looks" /\ thread' = IF stop THEN "dead" ELSE "reads"
  /\ UNCHANGED <<frames, caller, starts, shared, own, result, first, skipped>>

\* The frames after the one numbered a, up to b.
Between(a, b) == [i \in 1..(b - a) |-> a + i]
\* The last frame that SurfaceFlinger no longer has, and the frames it has that were not read before.
Gone == IF frames > first + Ring THEN frames - Ring ELSE first
New == Between(IF last > Gone THEN last ELSE Gone, frames)
ReadsData ==
  /\ thread = "reads" /\ thread' = "looks"
  /\ LET all == timestamps \o New IN
       /\ last' = IF all = <<>> THEN last ELSE all[Len(all)]
       /\ IF getData THEN queue' = Append(queue, Data(all)) /\ timestamps' = <<>> ELSE timestamps' = all /\ UNCHANGED queue
  /\ getData' = FALSE
  /\ skipped' = (skipped \/ (frames > Ring /\ frames - Ring > IF last > first THEN last ELSE first))
  /\ UNCHANGED <<frames, caller, starts, stop, retries, result, first>>

\* Nothing from SurfaceFlinger: the third time, ever, is the end.
ReadsNothing ==
  /\ thread = "reads" /\ retries' = retries + 1
  /\ \/ retries' < 3 /\ thread' = "looks" /\ UNCHANGED queue
     \/ retries' = 3 /\ last > 0 /\ thread' = "parked" /\ queue' = Append(queue, NoData)
     \/ retries' = 3 /\ last = 0 /\ thread' = "dead" /\ queue' = Append(queue, Error)
  /\ UNCHANGED <<frames, caller, starts, getData, stop, last, timestamps, result, first, skipped>>
DiesSilently ==
  /\ thread = "reads" /\ thread' = "dead"
  /\ UNCHANGED <<frames, caller, starts, shared, own, result, first, skipped>>
ReadFails ==
  /\ thread = "reads" /\ thread' = "dead" /\ queue' = Append(queue, Error)
  /\ UNCHANGED <<frames, caller, starts, getData, stop, own, result, first, skipped>>
Unparks ==
  /\ thread = "parked" /\ stop /\ thread' = "dead"
  /\ UNCHANGED <<frames, caller, starts, shared, own, result, first, skipped>>

\* All it asks for is a thread, dead or alive.
Stop ==
  /\ \/ caller = "on" /\ caller' = "stopping"
     \/ caller = "raised" /\ caller' = "again"
  /\ getData' = TRUE
  /\ UNCHANGED <<frames, starts, stop, queue, thread, own, result, first, skipped>>
\* _GetDataFromThread raises an error, and the thread is not joined.
Gets ==
  /\ caller \in {"stopping", "again"} /\ queue # <<>> /\ queue' = Tail(queue)
  /\ \/ Head(queue).kind = "error" /\ caller' = "raised" /\ UNCHANGED <<stop, result>>
     \/ Head(queue).kind # "error" /\ caller' = "joining" /\ stop' = TRUE /\ result' = Head(queue)
  /\ UNCHANGED <<frames, starts, getData, thread, own, first, skipped>>
Join ==
  /\ caller = "joining" /\ thread = "dead" /\ thread' = "none" /\ caller' = "out"
  /\ UNCHANGED <<frames, starts, shared, own, result, first, skipped>>

Collector == Looks \/ ReadsData \/ ReadsNothing \/ ReadFails \/ Unparks
Next == Shows \/ Start \/ Collector \/ Stop \/ Gets \/ Join

Spec == Init /\ [][Next]_vars
FairSpec == Spec /\ WF_vars(Collector) /\ WF_vars(Gets) /\ WF_vars(Join)

-----------------------------------------------------------------------------
(* Properties *)

\* What Stop returns are the first frames after Start, each once, unless the ring was too small for the pause between two readings.
FramesOnce ==
  caller = "joining" /\ result.kind = "data" /\ ~skipped => result.ts = [i \in DOMAIN result.ts |-> first + i]

\* Stop returns or raises, whatever became of the thread; all but a Stop that follows one that raised: it waits for ever for a thread
\* that has died.
StopEnds == caller \in {"stopping", "joining"} ~> caller \in {"out", "raised"}
=============================================================================
