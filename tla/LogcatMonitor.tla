----------------------------- MODULE LogcatMonitor -----------------------------
(***************************************************************************)
(* Recording the log of a device (devil's logcat_monitor.py).  A thread    *)
(* reads adb's output and writes it to a file; Stop tells it by an event   *)
(* to return at the next line or timeout, waits for it, but not for ever,  *)
(* and forgets it.                                                         *)
(***************************************************************************)
EXTENDS Naturals, Sequences

CONSTANTS MaxLines,   \* bound: lines of the log
          MaxThreads  \* bound: recordings that are started

LogcatAssumption == MaxLines \in Nat /\ MaxThreads \in Nat

Threads == 1..MaxThreads

VARIABLES clear,    \* whether Start empties the log of the device
          lines,    \* lines the device has logged
          opened,   \* whether there is a record file
          record,   \* the lines in it, by their numbers
          given,    \* the lines in the file that Stop copies it to
          stop,     \* _stop_recording_event
          stopping, \* Stop waits for the thread
          current,  \* _record_thread, 0 if there is none
          begun,    \* threads started so far
          state,    \* [Threads -> none, running, ended or raised]
          at,       \* [Threads -> the last line it has read]
          outlived  \* a thread was still running when Stop no longer waited for it

vars == <<clear, lines, opened, record, given, stop, stopping, current, begun, state, at, outlived>>
threads == <<begun, state, at>>
files == <<opened, record, given>>

TypeOK ==
  /\ clear \in BOOLEAN /\ lines \in 0..MaxLines /\ opened \in BOOLEAN
  /\ record \in Seq(1..MaxLines) /\ given \in Seq(1..MaxLines)
  /\ stop \in BOOLEAN /\ stopping \in BOOLEAN /\ current \in 0..MaxThreads /\ begun \in 0..MaxThreads
  /\ state \in [Threads -> {"none", "running", "ended", "raised"}] /\ at \in [Threads -> 0..MaxLines]
  /\ outlived \in BOOLEAN

Init ==
  /\ clear \in BOOLEAN /\ lines = 0 /\ opened = FALSE /\ record = <<>> /\ given = <<>>
  /\ stop = FALSE /\ stopping = FALSE /\ current = 0 /\ begun = 0
  /\ state = [t \in Threads |-> "none"] /\ at = [t \in Threads |-> 0] /\ outlived = FALSE

DeviceLogs ==
  /\ lines < MaxLines /\ lines' = lines + 1
  /\ UNCHANGED <<clear, files, stop, stopping, current, threads, outlived>>

\* A thread that is there, be it one that raised, is taken for the recording.
ThreadAlways == TRUE
NeedsThread == current = 0
Start ==
  /\ ~stopping
  /\ opened' = TRUE /\ stop' = FALSE /\ record' = IF opened THEN record ELSE <<>>
  /\ IF NeedsThread
     THEN /\ begun < MaxThreads /\ begun' = begun + 1 /\ current' = begun'
          /\ state' = [state EXCEPT ![begun'] = "running"]
          /\ at' = [at EXCEPT ![begun'] = IF clear THEN lines ELSE 0]
     ELSE UNCHANGED <<current, threads>>
  /\ UNCHANGED <<clear, lines, given, stopping, outlived>>

\* record_to_file: at every line and every timeout of reading the event is looked at first.
Reads(t) ==
  /\ state[t] = "running"
  /\ \/ /\ stop /\ state' = [state EXCEPT ![t] = "ended"]
        /\ UNCHANGED <<record, at>>
     \/ /\ ~stop /\ at[t] < lines /\ at' = [at EXCEPT ![t] = @ + 1]
        /\ record' = IF opened THEN Append(record, at'[t]) ELSE record
        /\ UNCHANGED state
     \/ /\ state' = [state EXCEPT ![t] = "raised"] /\ UNCHANGED <<record, at>>
  /\ UNCHANGED <<clear, lines, opened, given, stop, stopping, current, begun, outlived>>

\* Stop: the wait for the thread ends with it or after 5 s.  An error of the thread is raised again, and the thread stays.
Stop ==
  /\ ~stopping /\ current # 0 /\ stopping' = TRUE /\ stop' = TRUE
  /\ UNCHANGED <<clear, lines, files, current, threads, outlived>>
Join ==
  /\ stopping /\ stopping' = FALSE
  /\ IF state[current] = "raised" THEN UNCHANGED <<current, given>>
     ELSE current' = 0 /\ given' = IF opened THEN record ELSE given
  /\ outlived' = (outlived \/ state[current] = "running")
  /\ UNCHANGED <<clear, lines, opened, record, stop, threads>>

Close == opened /\ opened' = FALSE /\ UNCHANGED <<clear, lines, record, given, stop, stopping, current, threads, outlived>>

Next ==
  \/ DeviceLogs \/ Start \/ Stop \/ Join \/ Close
  \/ \E t \in Threads : Reads(t)

Spec == Init /\ [][Next]_vars

-----------------------------------------------------------------------------
(* Properties *)

\* Every line is recorded once and in its order, whatever the sequence of starts and stops, unless a thread outlived its Stop: the next
\* Start takes back the event that was to end it, and both record.
NoLineTwice ==
  clear /\ ~outlived => \A s \in {record, given}, i \in 1..(MaxLines * MaxThreads) : i < Len(s) => s[i] < s[i + 1]
=============================================================================
