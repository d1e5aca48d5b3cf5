------------------------------ MODULE TimeoutRetry ------------------------------
(***************************************************************************)
(* A method of DeviceUtils under devil's timeouts and retries.             *)
(*                                                                         *)
(* timeout_retry.Run starts a thread for each try of the method and waits  *)
(* for its result or for the try's watchdog.  A try whose time is over is  *)
(* abandoned: its thread cannot be stopped and runs on beside the next     *)
(* try.  What stops it is the next adb command, which asks the thread's    *)
(* group for the remaining time, finds none and raises; the process is     *)
(* started later, and may be after the try was abandoned.  The method is a *)
(* row of steps, each one command, two commands on threads of their own    *)
(* (reraiser_thread.RunAsync), or a condition that WaitFor polls.  A       *)
(* command that was sent may be executed by the device before or after the *)
(* adb process on the host is killed, or never.                            *)
(***************************************************************************)
EXTENDS Naturals, FiniteSets

CONSTANTS Retries,    \* retries of the outermost decorated method
          Steps,      \* how many steps the method has
          Forks,      \* the steps run by RunAsync on two threads
          Waits,      \* the steps that are a WaitFor
          Checked,    \* the steps with check_return=True
          Retriable   \* the errors for which retry_if_func holds

\* What a try raises: NoAdbError, or any other exception, a timeout included.
Errors == {"error", "noadb"}

ASSUME RetriesAssumption == Retries \in Nat
ASSUME StepsAssumption ==
  /\ Steps \in Nat
  /\ Forks \subseteq 1..Steps
  /\ Waits \subseteq 1..Steps
  /\ Checked \subseteq (1..Steps) \ Waits
  /\ Retriable \subseteq Errors

VARIABLES limited,  \* whether the timeout is a number other than 0
          cur,      \* num_try of Run
          outcome,  \* what the caller of the method got
          expired,  \* tries whose watchdog has timed out
          pos,      \* per try, the step its thread is at
          result,   \* per try, how its thread ended
          work,     \* per try and thread, the state of its command
          large,    \* per try, the threads that repeat in large_output mode
          removals, \* the threads that will remove the file of a large_output repeat, of no thread group
          orphans,  \* commands whose adb process was killed before the device ran them
          runs,     \* per step and thread, how often the device ran the command
          late      \* history: per try and thread, the commands started after the try was given up

vars == <<limited, cur, outcome, expired, pos, result, work, large, removals, orphans, runs, late>>

Try == 1..(Retries + 1)
Step == 1..Steps
Thread == {"main", "left", "right"}
Busy == {"ready", "timed", "sent", "executed"}

Crew(k) == IF k \in Forks THEN {"left", "right"} ELSE {"main"}
AtStep(k) == [w \in Thread |-> IF k \in Step /\ w \in Crew(k) THEN "ready" ELSE "idle"]

TypeOK ==
  /\ limited \in BOOLEAN
  /\ cur \in Try
  /\ outcome \in {"none", "value"} \cup Errors
  /\ expired \subseteq Try
  /\ pos \in [Try -> 1..(Steps + 1)]
  /\ result \in [Try -> {"none", "value"} \cup Errors]
  /\ work \in [Try -> [Thread -> {"idle", "ok"} \cup Busy \cup Errors]]
  /\ large \in [Try -> SUBSET Thread]
  /\ removals \subseteq Try \X Step \X Thread
  /\ orphans \subseteq Try \X Step \X Thread
  /\ runs \in [Step -> [Thread -> Nat]]
  /\ late \in [Try -> [Thread -> Nat]]

Init ==
  /\ limited \in BOOLEAN
  /\ cur = 1
  /\ outcome = "none"
  /\ expired = {}
  /\ pos = [t \in Try |-> 1]
  /\ result = [t \in Try |-> "none"]
  /\ work = [t \in Try |-> IF t = 1 THEN AtStep(1) ELSE AtStep(0)]
  /\ large = [t \in Try |-> {}]
  /\ removals = {}
  /\ orphans = {}
  /\ runs = [k \in Step |-> [w \in Thread |-> 0]]
  /\ late = [t \in Try |-> [w \in Thread |-> 0]]

\* A command that ran in large_output mode leaves a file behind, and a thread that will run rm.
Becomes(t, w, s) ==
  /\ work' = [work EXCEPT ![t][w] = s]
  /\ removals' = IF w \in large[t] /\ s \notin Busy THEN removals \cup {<<t, pos[t], w>>} ELSE removals
\* The polls of a WaitFor count as one.
CountRun(k, w) == runs' = [runs EXCEPT ![k][w] = IF k \in Waits THEN 1 ELSE @ + 1]
\* The caller has got its result or raised, or gone on to the next try.
Given(t) == t < cur \/ (t = cur /\ outcome # "none")
caller == <<limited, cur, outcome, expired>>
device == <<orphans, runs>>
others == <<removals, late>>

-----------------------------------------------------------------------------
(* One command: AdbWrapper._RunAdbCmd and what is around it. *)

\* The remaining time is asked for,
TimeIgnored(t) == TRUE
TimeLeft(t) == t \notin expired

ReadTime(t, w) ==
  /\ work[t][w] = "ready"
  /\ Becomes(t, w, IF TimeLeft(t) THEN "timed" ELSE "error")
  /\ UNCHANGED <<caller, pos, result, large, device, late>>

\* and then the process is started, however late it is by now.
Spawn(t, w) ==
  /\ work[t][w] = "timed"
  /\ \/ /\ Becomes(t, w, "sent")
        /\ late' = IF Given(t) THEN [late EXCEPT ![t][w] = @ + 1] ELSE late
     \/ Becomes(t, w, "noadb") /\ UNCHANGED late
  /\ UNCHANGED <<caller, pos, result, large, device>>

\* DeviceTempFile.close runs rm on a thread that asks nobody for the time of the try.
Remove(t, k, w) ==
  /\ <<t, k, w>> \in removals
  /\ removals' = removals \ {<<t, k, w>>}
  /\ UNCHANGED <<caller, pos, result, work, large, device, late>>

Execute(t, w) ==
  /\ work[t][w] = "sent"
  /\ Becomes(t, w, "executed")
  /\ CountRun(pos[t], w)
  /\ UNCHANGED <<caller, pos, result, large, orphans, late>>

\* The method accepts the output.  WaitFor may find its condition not met, and then sleeps or finds too little time left to sleep.
Accepts(t, w) ==
  IF pos[t] \in Waits
  THEN \E s \in {"ok", "ready"} \cup (IF limited THEN {"error"} ELSE {}) : Becomes(t, w, s)
  ELSE Becomes(t, w, "ok")

GoodStatus(t, w) ==
  /\ work[t][w] = "executed"
  /\ Accepts(t, w)
  /\ UNCHANGED <<caller, pos, result, large, device, late>>

\* A bad status of adb or of the command; without check_return the output is the result.
BadStatus(t, w) ==
  /\ work[t][w] \in {"sent", "executed"}
  /\ IF pos[t] \in Checked THEN Becomes(t, w, "error") ELSE Accepts(t, w)
  /\ UNCHANGED <<caller, pos, result, large, device, late>>

\* DeviceUnreachableError is no AdbCommandFailedError, so that no step swallows it.
Unreachable(t, w) ==
  /\ work[t][w] \in {"sent", "executed"}
  /\ Becomes(t, w, "error")
  /\ UNCHANGED <<caller, pos, result, large, device, late>>

\* The output lacks the status: the command is run a second time, its output into a file.
RepeatAlways(t, w) == TRUE
MayRepeat(t, w) == w \notin large[t]

NoStatus(t, w) ==
  LET k == pos[t] IN
  /\ work[t][w] = "executed"
  /\ \/ k \notin Checked /\ Accepts(t, w) /\ UNCHANGED <<large>>
     \/ /\ k \in Checked /\ MayRepeat(t, w)
        /\ Becomes(t, w, "ready")
        /\ large' = [large EXCEPT ![t] = @ \cup {w}]
     \/ k \in Checked /\ ~MayRepeat(t, w) /\ Becomes(t, w, "error") /\ UNCHANGED <<large>>
  /\ UNCHANGED <<caller, pos, result, device, late>>

KillNever(t, w) == FALSE

\* The timeout of the process: it is killed, and the device may or may not run what was sent.
Kill(t, w) ==
  /\ work[t][w] \in {"sent", "executed"}
  /\ t \in expired
  /\ Becomes(t, w, "error")
  /\ orphans' = IF work[t][w] = "sent" /\ pos[t] \notin Waits THEN orphans \cup {<<t, pos[t], w>>} ELSE orphans
  /\ UNCHANGED <<caller, pos, result, large, runs, late>>

ExecuteOrphan(t, k, w) ==
  /\ <<t, k, w>> \in orphans
  /\ orphans' = orphans \ {<<t, k, w>>}
  /\ CountRun(k, w)
  /\ UNCHANGED <<caller, pos, result, work, large, others>>

-----------------------------------------------------------------------------
(* The thread of a try: from step to step. *)

\* RunAsync waits for all its threads before it raises what one of them raised.
Over(t) == \A w \in Thread : work[t][w] \notin Busy

RaisedByFirst(t) == {work[t][w] : w \in {"main", "left"}} \cap Errors
Raised(t) == {work[t][w] : w \in Thread} \cap Errors

Advance(t) ==
  /\ result[t] = "none"
  /\ \E w \in Thread : work[t][w] # "idle"
  /\ Over(t)
  /\ large' = [large EXCEPT ![t] = {}]
  /\ \/ /\ Raised(t) # {}
        /\ \E e \in Raised(t) : result' = [result EXCEPT ![t] = e]
        /\ work' = [work EXCEPT ![t] = AtStep(0)]
        /\ UNCHANGED pos
     \/ /\ Raised(t) = {}
        /\ pos' = [pos EXCEPT ![t] = @ + 1]
        /\ work' = [work EXCEPT ![t] = AtStep(pos[t] + 1)]
        /\ result' = IF pos[t] = Steps THEN [result EXCEPT ![t] = "value"] ELSE result
  /\ UNCHANGED <<caller, device, others>>

-----------------------------------------------------------------------------
(* The caller: timeout_retry.Run. *)

Expire(t) ==
  /\ limited /\ t <= cur /\ t \notin expired
  /\ result[t] = "none" \/ ~Given(t)
  /\ expired' = expired \cup {t}
  /\ UNCHANGED <<limited, cur, outcome, pos, result, work, large, device, others>>

RetriesOnceMore(e) ==
  IF cur > Retries + 1 \/ e \notin Retriable
  THEN outcome' = e /\ UNCHANGED <<cur, work>>
  ELSE cur' = cur + 1 /\ work' = [work EXCEPT ![cur + 1] = AtStep(1)] /\ UNCHANGED outcome
RaisesOrRetries(e) ==
  IF cur > Retries \/ e \notin Retriable
  THEN outcome' = e /\ UNCHANGED <<cur, work>>
  ELSE cur' = cur + 1 /\ work' = [work EXCEPT ![cur + 1] = AtStep(1)] /\ UNCHANGED outcome

Join ==
  /\ outcome = "none" /\ result[cur] # "none"
  /\ IF result[cur] = "value"
     THEN outcome' = "value" /\ UNCHANGED <<cur, work>>
     ELSE RaisesOrRetries(result[cur])
  /\ UNCHANGED <<limited, expired, pos, result, large, device, others>>

\* The watchdog is asked before the thread is joined, so that a result that is there may be thrown away.
TimeOut ==
  /\ outcome = "none" /\ cur \in expired
  /\ RaisesOrRetries("error")
  /\ UNCHANGED <<limited, expired, pos, result, large, device, others>>

Next ==
  \/ Join
  \/ TimeOut
  \/ \E t \in Try : Expire(t) \/ Advance(t)
  \/ \E t \in Try, w \in Thread :
       \/ ReadTime(t, w) \/ Spawn(t, w) \/ Execute(t, w) \/ Kill(t, w)
       \/ GoodStatus(t, w) \/ BadStatus(t, w) \/ Unreachable(t, w) \/ NoStatus(t, w)
       \/ \E k \in Step : ExecuteOrphan(t, k, w) \/ Remove(t, k, w)

Spec == Init /\ [][Next]_vars

\* Time passes, the caller polls, and a thread that can run does; neither the device nor adb need ever answer.
FairSpec ==
  /\ Spec
  /\ WF_vars(Join)
  /\ WF_vars(TimeOut)
  /\ \A t \in Try : WF_vars(Expire(t)) /\ WF_vars(Advance(t))
  /\ \A t \in Try, w \in Thread : WF_vars(ReadTime(t, w)) /\ WF_vars(Spawn(t, w)) /\ WF_vars(Kill(t, w))

-----------------------------------------------------------------------------
(* Properties *)

\* Once the caller has given a try up, its threads run on but start no more than the commands of one step, one on each of
\* its threads: those whose time was read before.  The exception is rm for the file of a large_output repeat.
FewCommandsAfterAbandon ==
  \A t \in Try :
    /\ \A w \in Thread : late[t][w] <= 1
    /\ late[t]["main"] = 1 => late[t]["left"] = 0 /\ late[t]["right"] = 0

\* When the method returned a value, the device has run every command whose return is checked, and at any time it has run
\* a command only after every checked command of the steps before, whichever tries they belong to.
DoneInOrder ==
  /\ outcome = "value" => \A k \in Checked : \A w \in Crew(k) : runs[k][w] > 0
  /\ \A k \in Step, w \in Thread :
       runs[k][w] > 0 => \A j \in Checked : j < k => \A v \in Crew(j) : runs[j][v] > 0

\* A try has the device run a command at most twice, the second time because the status of the first was missing; orphans included.
RunsBounded == \A k \in Step, w \in Thread : runs[k][w] <= 2 * cur

\* A call with a timeout ends, and so do the threads of the tries it gave up.
CallEnds == limited ~> outcome # "none"
ThreadsEnd == \A t \in Try : (limited /\ Given(t)) ~> result[t] # "none"
EveryCallEnds == CallEnds /\ ThreadsEnd
=============================================================================
