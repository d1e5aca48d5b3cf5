--------------------------- MODULE TimeoutRetryProofs ---------------------------
(***************************************************************************)
(* Theorems about TimeoutRetry, for any number of retries and steps and    *)
(* any choice of the steps that fork, wait or check: types, that a try     *)
(* which was given up starts the commands of one step at most, that        *)
(* commands are executed in the order of the method whichever tries they   *)
(* belong to, and that each is executed at most twice for a try.           *)
(***************************************************************************)
EXTENDS TimeoutRetry, FiniteSetTheorems, TLAPS

\* Threads work at the step of their try, all of its crew or none of it.
WorkIsOfStep ==
  \A t \in Try, w \in Thread : work[t][w] # "idle" => pos[t] \in Step /\ w \in Crew(pos[t])
CrewWorks ==
  \A t \in Try, w \in Thread : work[t][w] # "idle" => \A v \in Crew(pos[t]) : work[t][v] # "idle"

\* A try that has ended works no more, and one that comes later has not begun.
EndedIsIdle == \A t \in Try : result[t] # "none" => \A w \in Thread : work[t][w] = "idle"
LaterIsUntouched ==
  \A t \in Try : t > cur => pos[t] = 1 /\ result[t] = "none" /\ \A w \in Thread : work[t][w] = "idle"

\* The caller gives a try up only when it has ended or its time is over.
GivenIsOver == \A t \in Try : Given(t) => t \in expired \/ result[t] # "none"

ControlInv == TypeOK /\ WorkIsOfStep /\ CrewWorks /\ EndedIsIdle /\ LaterIsUntouched /\ GivenIsOver

\* A value is that of a try that passed the last step.
ValueIsLast ==
  /\ \A t \in Try : result[t] = "value" => pos[t] = Steps + 1
  /\ outcome = "value" => result[cur] = "value"

\* All checked commands of the steps before k were executed.
DoneBefore(k) == \A j \in Checked : j < k => \A v \in Crew(j) : runs[j][v] > 0
TriesInOrder == \A t \in Try : DoneBefore(pos[t])
ExecutedIsCounted ==
  \A t \in Try, w \in Thread :
    pos[t] \in Checked /\ work[t][w] \in {"executed", "ok"} => runs[pos[t]][w] > 0
OrphansInOrder == \A t \in Try, k \in Step, w \in Thread : <<t, k, w>> \in orphans => DoneBefore(k)
RunsInOrder == \A k \in Step, w \in Thread : runs[k][w] > 0 => DoneBefore(k)

OrderInv == ValueIsLast /\ TriesInOrder /\ ExecutedIsCounted /\ OrphansInOrder /\ RunsInOrder

-----------------------------------------------------------------------------

\* The actions of one command move one thread of one try, which is at a step, to another state of its command.
Moves(t, w) ==
  /\ work[t][w] \in Busy
  /\ \E s \in {"ok"} \cup Busy \cup Errors : work' = [work EXCEPT ![t][w] = s]
  /\ removals' = removals \/ removals' = removals \cup {<<t, pos[t], w>>}
  /\ UNCHANGED <<limited, cur, outcome, expired, pos, result>>

\* Every action of one command is such a move.
LEMMA CommandMoves ==
  ASSUME NEW t \in Try, NEW w \in Thread,
         \/ ReadTime(t, w) \/ Spawn(t, w) \/ Execute(t, w) \/ Kill(t, w)
         \/ GoodStatus(t, w) \/ BadStatus(t, w) \/ Unreachable(t, w) \/ NoStatus(t, w)
  PROVE  Moves(t, w)
<1> USE DEF Moves, Busy, Errors, Becomes, caller
<1>1. CASE ReadTime(t, w) \/ Spawn(t, w)
  BY <1>1 DEF ReadTime, Spawn
<1>2. CASE Execute(t, w)
  BY <1>2 DEF Execute
<1>3. CASE Kill(t, w)
  BY <1>3 DEF Kill
<1>4. CASE GoodStatus(t, w)
  BY <1>4 DEF GoodStatus, Accepts
<1>5. CASE BadStatus(t, w)
  BY <1>5 DEF BadStatus, Accepts
<1>6. CASE Unreachable(t, w)
  BY <1>6 DEF Unreachable
<1>7. CASE NoStatus(t, w)
  BY <1>7 DEF NoStatus, Accepts
<1>8. QED
  BY <1>1, <1>2, <1>3, <1>4, <1>5, <1>6, <1>7

\* What a thread does to its command keeps the invariant of control.
LEMMA MoveKeepsControl ==
  ASSUME TypeOK, WorkIsOfStep, CrewWorks, EndedIsIdle, LaterIsUntouched, GivenIsOver,
         NEW t \in Try, NEW w \in Thread, Moves(t, w)
  PROVE  /\ work' \in [Try -> [Thread -> {"idle", "ok"} \cup Busy \cup Errors]]
         /\ pos[t] \in Step /\ w \in Crew(pos[t])
         /\ WorkIsOfStep' /\ CrewWorks' /\ EndedIsIdle' /\ LaterIsUntouched' /\ GivenIsOver'
<1>1. PICK s \in {"ok"} \cup Busy \cup Errors : work' = [work EXCEPT ![t][w] = s]
  BY DEF Moves
<1>2. work[t][w] # "idle" /\ s # "idle"
  BY DEF Moves, Busy, Errors
<1>3. /\ work' \in [Try -> [Thread -> {"idle", "ok"} \cup Busy \cup Errors]]
      /\ \A u \in Try, v \in Thread : work'[u][v] = IF u = t /\ v = w THEN s ELSE work[u][v]
  BY <1>1 DEF TypeOK
<1>4. \A u \in Try, v \in Thread : work'[u][v] # "idle" <=> work[u][v] # "idle"
  BY <1>2, <1>3
<1>5. Crew(pos[t]) \subseteq Thread
  BY DEF Crew, Thread
<1>6. pos[t] \in Step /\ w \in Crew(pos[t])
  BY <1>2 DEF WorkIsOfStep
<1>7. UNCHANGED <<limited, cur, outcome, expired, pos, result>>
  BY DEF Moves
<1>8. WorkIsOfStep'
  BY <1>4, <1>7 DEF WorkIsOfStep, Crew
<1>9. CrewWorks'
  <2>1. \A u \in Try : Crew(pos[u]) \subseteq Thread
    BY DEF Crew, Thread
  <2>2. \A u \in Try : Crew(pos[u])' = Crew(pos[u])
    BY <1>7 DEF Crew
  <2>3. QED
    BY <1>4, <2>1, <2>2 DEF CrewWorks
<1>10. EndedIsIdle'
  BY <1>4, <1>7 DEF EndedIsIdle
<1>11. LaterIsUntouched'
  BY <1>4, <1>7 DEF LaterIsUntouched
<1>12. GivenIsOver'
  BY <1>7 DEF GivenIsOver, Given
<1>13. QED
  BY <1>3, <1>6, <1>8, <1>9, <1>10, <1>11, <1>12

\* Every step keeps the invariant of control.
LEMMA ControlStep ==
  ASSUME ControlInv, [Next]_vars
  PROVE  ControlInv'
<1> USE DEF ControlInv
<1>1. Retries \in Nat /\ Steps \in Nat
  BY RetriesAssumption, StepsAssumption
<1>2. ASSUME NEW t \in Try, NEW w \in Thread, Moves(t, w)
      PROVE  /\ WorkIsOfStep' /\ CrewWorks' /\ EndedIsIdle' /\ LaterIsUntouched' /\ GivenIsOver'
             /\ pos[t] \in Step /\ w \in Crew(pos[t])
             /\ work' \in [Try -> [Thread -> {"idle", "ok"} \cup Busy \cup Errors]]
             /\ limited' \in BOOLEAN /\ cur' \in Try /\ outcome' \in {"none", "value"} \cup Errors
             /\ expired' \subseteq Try /\ pos' \in [Try -> 1..(Steps + 1)]
             /\ result' \in [Try -> {"none", "value"} \cup Errors]
             /\ removals' \subseteq Try \X Step \X Thread
  <2>1. UNCHANGED <<limited, cur, outcome, expired, pos, result>>
    BY <1>2 DEF Moves
  <2>2. pos[t] \in Step
    BY <1>2, MoveKeepsControl
  <2>3. removals' \subseteq Try \X Step \X Thread
    BY <1>2, <2>2 DEF Moves, TypeOK
  <2>4. QED
    BY <1>2, <2>1, <2>3, MoveKeepsControl DEF TypeOK
<1>3. ASSUME NEW k \in Step, NEW w \in Thread, CountRun(k, w)
      PROVE  runs' \in [Step -> [Thread -> Nat]]
  BY <1>3 DEF CountRun, TypeOK
<1>4. ASSUME NEW t \in Try, NEW w \in Thread, ReadTime(t, w) \/ Spawn(t, w) PROVE ControlInv'
  <2>1. Moves(t, w) /\ UNCHANGED <<large, device>>
    BY <1>4, CommandMoves DEF ReadTime, Spawn
  <2>2. late' \in [Try -> [Thread -> Nat]]
    <3>1. late \in [Try -> [Thread -> Nat]] /\ late[t][w] + 1 \in Nat
      BY DEF TypeOK
    <3>2. late' = late \/ late' = [late EXCEPT ![t][w] = @ + 1]
      BY <1>4 DEF ReadTime, Spawn
    <3>3. QED
      BY <3>1, <3>2
  <2>3. QED
    BY <1>2, <2>1, <2>2 DEF TypeOK, device
<1>5. ASSUME NEW t \in Try, NEW w \in Thread, Execute(t, w) PROVE ControlInv'
  <2>1. Moves(t, w)
    BY <1>5, CommandMoves
  <2>2. runs' \in [Step -> [Thread -> Nat]]
    BY <1>2, <1>3, <1>5, <2>1 DEF Execute
  <2>3. QED
    BY <1>2, <1>5, <2>1, <2>2 DEF Execute, TypeOK
<1>6. ASSUME NEW t \in Try, NEW w \in Thread, Kill(t, w) PROVE ControlInv'
  <2>1. Moves(t, w)
    BY <1>6, CommandMoves
  <2>2. orphans' \subseteq Try \X Step \X Thread
    BY <1>2, <1>6, <2>1 DEF Kill, TypeOK
  <2>3. QED
    BY <1>2, <1>6, <2>1, <2>2 DEF Kill, TypeOK
<1>7. ASSUME NEW t \in Try, NEW w \in Thread, GoodStatus(t, w) \/ BadStatus(t, w) \/ Unreachable(t, w)
      PROVE  ControlInv'
  <2>1. Moves(t, w)
    BY <1>7, CommandMoves
  <2>2. QED
    BY <1>2, <1>7, <2>1 DEF GoodStatus, BadStatus, Unreachable, TypeOK, device
<1>8. ASSUME NEW t \in Try, NEW w \in Thread, NoStatus(t, w) PROVE ControlInv'
  <2>1. Moves(t, w)
    BY <1>8, CommandMoves
  <2>2. large' \in [Try -> SUBSET Thread] /\ UNCHANGED <<orphans, runs, late>>
    BY <1>8 DEF NoStatus, TypeOK, device
  <2>3. QED
    BY <1>2, <2>1, <2>2 DEF TypeOK
<1>9. ASSUME NEW t \in Try, NEW k \in Step, NEW w \in Thread, ExecuteOrphan(t, k, w) \/ Remove(t, k, w)
      PROVE  ControlInv'
  <2>1. runs' \in [Step -> [Thread -> Nat]]
    BY <1>3, <1>9 DEF ExecuteOrphan, Remove, device, TypeOK
  <2>2. /\ orphans' \subseteq Try \X Step \X Thread /\ removals' \subseteq Try \X Step \X Thread
        /\ UNCHANGED <<caller, pos, result, work, large, late>>
    BY <1>9 DEF ExecuteOrphan, Remove, device, others, TypeOK
  <2>3. QED
    BY <2>1, <2>2 DEF caller, TypeOK, WorkIsOfStep, CrewWorks, EndedIsIdle, LaterIsUntouched, GivenIsOver, Given, Crew
<1>10. ASSUME NEW t \in Try, Advance(t) PROVE ControlInv'
  <2>1. t <= cur /\ pos[t] \in Step
    BY <1>10 DEF Advance, LaterIsUntouched, WorkIsOfStep, TypeOK, Try
  <2>2. \A k \in 0..(Steps + 1) : AtStep(k) \in [Thread -> {"idle", "ready"}]
    BY DEF AtStep
  <2>3. \A k \in 0..(Steps + 1), w \in Thread : AtStep(k)[w] # "idle" <=> k \in Step /\ w \in Crew(k)
    BY DEF AtStep
  <2>4. Raised(t) \subseteq Errors /\ "none" \notin Errors
    BY DEF Raised, Errors
  <2>5. CASE Raised(t) # {}
    <3>1. PICK e \in Errors : result' = [result EXCEPT ![t] = e]
      BY <1>10, <2>4, <2>5 DEF Advance
    <3>2. work' = [work EXCEPT ![t] = AtStep(0)] /\ pos' = pos /\ large' = [large EXCEPT ![t] = {}]
          /\ UNCHANGED <<limited, cur, outcome, expired, orphans, runs, removals, late>>
      BY <1>10, <2>5 DEF Advance, caller, device, others
    <3>3. TypeOK'
      BY <1>1, <2>2, <3>1, <3>2 DEF TypeOK, Busy
    <3>4. \A u \in Try, w \in Thread : work'[u][w] = IF u = t THEN "idle" ELSE work[u][w]
      BY <1>1, <2>2, <2>3, <3>2 DEF TypeOK, Step
    <3>5. \A u \in Try : result'[u] = IF u = t THEN e ELSE result[u]
      BY <3>1 DEF TypeOK
    <3>6. \A u \in Try : Crew(pos[u])' = Crew(pos[u]) /\ Crew(pos[u]) \subseteq Thread
      BY <3>2 DEF Crew, Thread
    <3>7. WorkIsOfStep' /\ CrewWorks'
      BY <3>2, <3>4, <3>6 DEF WorkIsOfStep, CrewWorks
    <3>8. EndedIsIdle'
      BY <3>4, <3>5 DEF EndedIsIdle
    <3>9. LaterIsUntouched'
      BY <2>1, <3>2, <3>4, <3>5 DEF LaterIsUntouched, TypeOK, Try
    <3>10. GivenIsOver'
      BY <2>4, <3>2, <3>5 DEF GivenIsOver, Given
    <3>11. QED
      BY <3>3, <3>7, <3>8, <3>9, <3>10
  <2>6. CASE Raised(t) = {}
    <3>1. /\ pos' = [pos EXCEPT ![t] = @ + 1] /\ work' = [work EXCEPT ![t] = AtStep(pos[t] + 1)]
          /\ result' = IF pos[t] = Steps THEN [result EXCEPT ![t] = "value"] ELSE result
          /\ large' = [large EXCEPT ![t] = {}] /\ UNCHANGED <<limited, cur, outcome, expired, orphans, runs, removals, late>>
      BY <1>10, <2>6 DEF Advance, caller, device, others
    <3>2. pos[t] + 1 \in 1..(Steps + 1)
      BY <1>1, <2>1 DEF Step
    <3>3. AtStep(pos[t] + 1) \in [Thread -> {"idle", "ready"}]
      BY <2>2, <3>2
    <3>4. TypeOK'
      BY <3>1, <3>2, <3>3 DEF TypeOK, Busy
    <3>5. \A u \in Try, w \in Thread : work'[u][w] = IF u = t THEN AtStep(pos[t] + 1)[w] ELSE work[u][w]
      BY <3>1, <3>3 DEF TypeOK
    <3>6. \A u \in Try : pos'[u] = IF u = t THEN pos[t] + 1 ELSE pos[u]
      BY <3>1 DEF TypeOK
    <3>7. \A u \in Try : Crew(pos[u])' = Crew(pos'[u]) /\ Crew(pos'[u]) \subseteq Thread
      BY DEF Crew, Thread
    <3>8. \A w \in Thread : work'[t][w] # "idle" <=> pos'[t] \in Step /\ w \in Crew(pos'[t])
      BY <2>3, <3>2, <3>5, <3>6
    <3>9. WorkIsOfStep'
      BY <3>5, <3>6, <3>7, <3>8 DEF WorkIsOfStep
    <3>10. CrewWorks'
      BY <3>5, <3>6, <3>7, <3>8 DEF CrewWorks
    <3>11. \A u \in Try \ {t} : result'[u] = result[u]
      BY <3>1 DEF TypeOK
    <3>12. result'[t] # "none" => pos'[t] \notin Step
      BY <1>1, <1>10, <3>1, <3>6 DEF Advance, Step, TypeOK
    <3>13. EndedIsIdle'
      BY <3>5, <3>8, <3>11, <3>12 DEF EndedIsIdle
    <3>14. LaterIsUntouched'
      BY <2>1, <3>1, <3>5, <3>6, <3>11 DEF LaterIsUntouched, TypeOK, Try
    <3>15. \A u \in Try : result[u] # "none" => result'[u] # "none"
      BY <3>1 DEF TypeOK
    <3>16. GivenIsOver'
      BY <3>1, <3>15 DEF GivenIsOver, Given
    <3>17. QED
      BY <3>4, <3>9, <3>10, <3>13, <3>14, <3>16
  <2>7. QED
    BY <2>5, <2>6
<1>11. ASSUME NEW t \in Try, Expire(t) PROVE ControlInv'
  BY <1>11 DEF Expire, device, others, TypeOK, WorkIsOfStep, CrewWorks, EndedIsIdle, LaterIsUntouched, GivenIsOver, Given, Crew
<1>12. ASSUME NEW e \in Errors, RaisesOrRetries(e), cur \in expired \/ result[cur] # "none", outcome = "none",
             UNCHANGED <<limited, expired, pos, result, large, device, others>>
      PROVE  ControlInv'
  <2>1. CASE cur > Retries \/ e \notin Retriable
    BY <1>12, <2>1 DEF RaisesOrRetries, device, others, TypeOK, WorkIsOfStep, CrewWorks, EndedIsIdle, LaterIsUntouched,
                       GivenIsOver, Given, Crew
  <2>2. CASE ~(cur > Retries \/ e \notin Retriable)
    <3>1. cur' = cur + 1 /\ work' = [work EXCEPT ![cur + 1] = AtStep(1)] /\ outcome' = outcome
      BY <1>12, <2>2 DEF RaisesOrRetries
    <3>2. cur + 1 \in Try
      BY <1>1, <2>2 DEF TypeOK, Try
    <3>3. AtStep(1) \in [Thread -> {"idle", "ready"}]
      BY DEF AtStep
    <3>4. \A w \in Thread : AtStep(1)[w] # "idle" <=> 1 \in Step /\ w \in Crew(1)
      BY DEF AtStep
    <3>5. TypeOK'
      BY <1>12, <3>1, <3>2, <3>3 DEF TypeOK, device, others, Busy
    <3>6. \A u \in Try, w \in Thread : work'[u][w] = IF u = cur + 1 THEN AtStep(1)[w] ELSE work[u][w]
      BY <3>1, <3>2, <3>3 DEF TypeOK
    <3>7. pos' = pos /\ result' = result /\ expired' = expired
      BY <1>12
    <3>8. pos[cur + 1] = 1 /\ result[cur + 1] = "none"
      BY <3>2 DEF LaterIsUntouched, TypeOK, Try
    <3>9. \A u \in Try : Crew(pos[u])' = Crew(pos[u]) /\ Crew(pos[u]) \subseteq Thread
      BY <3>7 DEF Crew, Thread
    <3>10. WorkIsOfStep' /\ CrewWorks'
      BY <3>4, <3>6, <3>7, <3>8, <3>9 DEF WorkIsOfStep, CrewWorks
    <3>11. EndedIsIdle'
      BY <3>6, <3>7, <3>8 DEF EndedIsIdle
    <3>12. LaterIsUntouched'
      BY <3>1, <3>2, <3>6, <3>7 DEF LaterIsUntouched, TypeOK, Try
    <3>13. GivenIsOver'
      BY <1>12, <3>1, <3>7 DEF GivenIsOver, Given, TypeOK, Try
    <3>14. QED
      BY <3>5, <3>10, <3>11, <3>12, <3>13
  <2>3. QED
    BY <2>1, <2>2
<1>13. ASSUME Join PROVE ControlInv'
  <2>1. CASE result[cur] = "value"
    BY <1>13, <2>1 DEF Join, device, others, TypeOK, WorkIsOfStep, CrewWorks, EndedIsIdle, LaterIsUntouched, GivenIsOver, Given, Crew
  <2>2. CASE result[cur] # "value"
    BY <1>12, <1>13, <2>2 DEF Join, TypeOK
  <2>3. QED
    BY <2>1, <2>2
<1>14. ASSUME TimeOut PROVE ControlInv'
  BY <1>12, <1>14 DEF TimeOut, Errors
<1>15. ASSUME UNCHANGED vars PROVE ControlInv'
  BY <1>15 DEF vars, TypeOK, WorkIsOfStep, CrewWorks, EndedIsIdle, LaterIsUntouched, GivenIsOver, Given, Crew
<1>16. QED
  BY <1>4, <1>5, <1>6, <1>7, <1>8, <1>9, <1>10, <1>11, <1>13, <1>14, <1>15 DEF Next

\* It holds at first.
LEMMA ControlInit ==
  ASSUME Init
  PROVE  ControlInv
<1>1. Retries \in Nat /\ Steps \in Nat
  BY RetriesAssumption, StepsAssumption
<1>2. \A k \in 0..1 : AtStep(k) \in [Thread -> {"idle", "ready"}]
  BY DEF AtStep
<1>3. \A k \in 0..1, w \in Thread : AtStep(k)[w] # "idle" <=> k \in Step /\ w \in Crew(k)
  BY DEF AtStep
<1>4. TypeOK
  BY <1>1, <1>2 DEF Init, TypeOK, Try, Busy
<1>5. \A t \in Try, w \in Thread : work[t][w] # "idle" <=> t = 1 /\ 1 \in Step /\ w \in Crew(1)
  BY <1>1, <1>3 DEF Init, Step
<1>6. WorkIsOfStep /\ CrewWorks
  <2>1. Crew(1) \subseteq Thread /\ \A t \in Try : pos[t] = 1
    BY DEF Crew, Thread, Init
  <2>2. QED
    BY <1>5, <2>1 DEF WorkIsOfStep, CrewWorks
<1>7. EndedIsIdle /\ LaterIsUntouched
  BY <1>5 DEF Init, EndedIsIdle, LaterIsUntouched, Try
<1>8. GivenIsOver
  BY <1>1 DEF Init, GivenIsOver, Given, Try
<1>9. QED
  BY <1>4, <1>6, <1>7, <1>8 DEF ControlInv

\* The types, and the invariant of control, of every behaviour.
THEOREM ControlCorrect == Spec => []ControlInv
BY ControlInit, ControlStep, PTL DEF Spec

\* In particular every variable keeps its type.
THEOREM TypeCorrect == Spec => []TypeOK
<1>1. ControlInv => TypeOK
  BY DEF ControlInv
<1>2. QED
  BY ControlCorrect, <1>1, PTL

\* A command that was started late was one whose time was read before the try was given up: a thread starts no second, and
\* whatever has its time read still is of the same step.
LateInv ==
  \A t \in Try, w \in Thread :
    late[t][w] > 0 =>
      /\ Given(t) /\ late[t][w] = 1
      /\ \A v \in Thread : work[t][v] = "timed" => v # w /\ w \in Crew(pos[t])
      /\ w = "main" => late[t]["left"] = 0 /\ late[t]["right"] = 0

\* What was given up stays so.
LEMMA GivenStays ==
  ASSUME TypeOK, [Next]_vars, NEW t \in Try, Given(t)
  PROVE  Given(t)'
<1>1. cur \in Nat /\ t \in Nat
  BY RetriesAssumption DEF TypeOK, Try
<1>2. CASE Join \/ TimeOut
  <2>1. outcome = "none" /\ t < cur
    BY <1>2 DEF Join, TimeOut, Given
  <2>2. cur' = cur \/ cur' = cur + 1
    BY <1>2 DEF Join, TimeOut, RaisesOrRetries
  <2>3. QED
    BY <1>1, <2>1, <2>2 DEF Given
<1>3. ASSUME NEW u \in Try, NEW w \in Thread,
             \/ ReadTime(u, w) \/ Spawn(u, w) \/ Execute(u, w) \/ Kill(u, w)
             \/ GoodStatus(u, w) \/ BadStatus(u, w) \/ Unreachable(u, w) \/ NoStatus(u, w)
      PROVE  Given(t)'
  <2>1. cur' = cur /\ outcome' = outcome
    BY <1>3, CommandMoves DEF Moves
  <2>2. QED
    BY <2>1 DEF Given
<1>4. CASE \/ UNCHANGED vars
           \/ \E u \in Try : Expire(u) \/ Advance(u)
           \/ \E u \in Try, k \in Step, w \in Thread : ExecuteOrphan(u, k, w) \/ Remove(u, k, w)
  BY <1>4 DEF vars, Expire, Advance, ExecuteOrphan, Remove, caller, Given
<1>5. QED
  BY <1>2, <1>3, <1>4 DEF Next

\* A try that was given up has no further time read: its time is over.
LEMMA NoTimeIsRead ==
  ASSUME ControlInv, [Next]_vars, NEW t \in Try, NEW v \in Thread, Given(t), work'[t][v] = "timed"
  PROVE  work[t][v] = "timed" /\ pos'[t] = pos[t]
<1> USE DEF ControlInv
<1>1. TypeOK
  OBVIOUS
<1>2. \A k \in 0..(Steps + 1) : AtStep(k) \in [Thread -> {"idle", "ready"}]
  BY DEF AtStep
<1>3. ASSUME NEW u \in Try, NEW w \in Thread, ReadTime(u, w)
      PROVE  work[t][v] = "timed" /\ pos'[t] = pos[t]
  <2>1. t # u \/ v # w
    <3>1. ASSUME t = u, v = w PROVE FALSE
      <4>1. result[t] = "none"
        BY <1>3, <3>1 DEF EndedIsIdle, ReadTime
      <4>2. t \in expired
        BY <4>1 DEF GivenIsOver
      <4>3. QED
        BY <1>1, <1>3, <3>1, <4>2 DEF ReadTime, TimeLeft, Becomes, TypeOK
    <3>2. QED
      BY <3>1
  <2>2. QED
    BY <1>1, <1>3, <2>1 DEF ReadTime, Becomes, TypeOK
<1>4. ASSUME NEW u \in Try, NEW w \in Thread,
             \/ Spawn(u, w) \/ Execute(u, w) \/ Kill(u, w)
             \/ GoodStatus(u, w) \/ BadStatus(u, w) \/ Unreachable(u, w) \/ NoStatus(u, w)
      PROVE  work[t][v] = "timed" /\ pos'[t] = pos[t]
  <2>1. Moves(u, w)
    BY <1>4, CommandMoves
  <2>2. ASSUME t = u, v = w PROVE work'[t][v] # "timed"
    <3>1. ASSUME NEW s, Becomes(u, w, s) PROVE work'[t][v] = s
      BY <1>1, <2>2, <3>1 DEF Becomes, TypeOK
    <3>2. QED
      BY <1>4, <3>1 DEF Spawn, Execute, Kill, GoodStatus, BadStatus, Unreachable, NoStatus, Accepts
  <2>3. QED
    BY <1>1, <2>1, <2>2 DEF Moves, TypeOK
<1>5. ASSUME NEW u \in Try, Advance(u) PROVE work[t][v] = "timed" /\ pos'[t] = pos[t]
  <2>1. pos[u] \in Step
    BY <1>5 DEF Advance, WorkIsOfStep
  <2>2. PICK k \in 0..(Steps + 1) : work' = [work EXCEPT ![u] = AtStep(k)]
    BY <1>5, <2>1, StepsAssumption DEF Advance, Step
  <2>3. AtStep(k)[v] # "timed"
    BY <1>2
  <2>4. t # u
    BY <1>1, <2>2, <2>3 DEF TypeOK
  <2>5. QED
    BY <1>1, <1>5, <2>2, <2>4 DEF Advance, TypeOK
<1>6. CASE Join \/ TimeOut
  <2>1. pos' = pos
    BY <1>6 DEF Join, TimeOut
  <2>2. work' = work \/ work' = [work EXCEPT ![cur + 1] = AtStep(1)]
    BY <1>6 DEF Join, TimeOut, RaisesOrRetries
  <2>3. AtStep(1) \in [Thread -> {"idle", "ready"}]
    BY DEF AtStep
  <2>4. QED
    BY <1>1, <2>1, <2>2, <2>3 DEF TypeOK
<1>7. CASE \/ UNCHANGED vars
           \/ \E u \in Try : Expire(u)
           \/ \E u \in Try, k \in Step, w \in Thread : ExecuteOrphan(u, k, w) \/ Remove(u, k, w)
  BY <1>7 DEF vars, Expire, ExecuteOrphan, Remove
<1>8. QED
  BY <1>3, <1>4, <1>5, <1>6, <1>7 DEF Next

\* Every step keeps it.
LEMMA LateStep ==
  ASSUME ControlInv, LateInv, [Next]_vars
  PROVE  LateInv'
<1>1. TypeOK
  BY DEF ControlInv
<1>2. \A t \in Try, v \in Thread :
        Given(t) => Given(t)' /\ (work'[t][v] = "timed" => work[t][v] = "timed" /\ pos'[t] = pos[t])
  BY <1>1, GivenStays, NoTimeIsRead
<1>3. CASE late' = late
  <2>1. \A t \in Try : pos'[t] = pos[t] => Crew(pos[t])' = Crew(pos[t])
    BY DEF Crew
  <2>2. QED
    BY <1>2, <1>3, <2>1 DEF LateInv
<1>4. ASSUME NEW t \in Try, NEW w \in Thread, Spawn(t, w), late' # late
      PROVE  LateInv'
  <2>1. /\ work[t][w] = "timed" /\ Given(t) /\ pos' = pos
        /\ late' = [late EXCEPT ![t][w] = @ + 1] /\ work' = [work EXCEPT ![t][w] = "sent"]
    BY <1>4 DEF Spawn, Becomes
  <2>2. w \in Crew(pos[t]) /\ Crew(pos[t])' = Crew(pos[t])
    BY <2>1 DEF ControlInv, WorkIsOfStep, Crew
  <2>3. late[t][w] = 0
    <3>1. late[t][w] \in Nat
      BY <1>1 DEF TypeOK
    <3>2. ~(late[t][w] > 0)
      BY <2>1 DEF LateInv
    <3>3. QED
      BY <3>1, <3>2
  <2>4. \A v \in Thread : late[t][v] > 0 => v \in Crew(pos[t])
    BY <2>1 DEF LateInv
  <2>5. \A u \in Try, v \in Thread : late'[u][v] = IF u = t /\ v = w THEN 1 ELSE late[u][v]
    BY <1>1, <2>1, <2>3 DEF TypeOK
  <2>6. \A u \in Try, v \in Thread : work'[u][v] = IF u = t /\ v = w THEN "sent" ELSE work[u][v]
    BY <1>1, <2>1 DEF TypeOK
  <2>7. ASSUME NEW u \in Try, NEW v \in Thread, late'[u][v] > 0
        PROVE  /\ Given(u)' /\ late'[u][v] = 1
               /\ \A x \in Thread : work'[u][x] = "timed" => x # v /\ v \in Crew(pos[u])
               /\ v = "main" => late'[u]["left"] = 0 /\ late'[u]["right"] = 0
    <3>1. CASE u = t
      <4>1. v \in Crew(pos[t])
        BY <2>2, <2>4, <2>5, <2>7, <3>1
      <4>2. Given(t)' /\ late'[t][v] = 1
        BY <1>2, <2>1, <2>5, <2>7, <3>1 DEF LateInv
      <4>3. \A x \in Thread : work'[t][x] = "timed" => x # v
        BY <2>5, <2>6, <2>7, <3>1 DEF LateInv
      <4>4. ASSUME v = "main", NEW x \in {"left", "right"} PROVE late'[t][x] = 0
        <5>1. Crew(pos[t]) = {"main"}
          BY <4>1, <4>4 DEF Crew
        <5>2. x \in Thread /\ x # w /\ late[t][x] \in Nat
          BY <1>1, <2>2, <5>1 DEF Thread, TypeOK
        <5>3. ~(late[t][x] > 0)
          BY <2>4, <5>1, <5>2
        <5>4. QED
          BY <2>5, <5>2, <5>3
      <4>5. QED
        BY <3>1, <4>1, <4>2, <4>3, <4>4
    <3>2. CASE u # t
      <4>1. late'[u][v] = late[u][v] /\ late'[u]["left"] = late[u]["left"] /\ late'[u]["right"] = late[u]["right"]
        BY <2>5, <3>2 DEF Thread
      <4>2. QED
        BY <1>2, <2>6, <2>7, <3>2, <4>1 DEF LateInv
    <3>3. QED
      BY <3>1, <3>2
  <2>8. \A u \in Try : Crew(pos[u])' = Crew(pos[u])
    BY <2>1 DEF Crew
  <2>9. QED
    BY <2>7, <2>8 DEF LateInv
<1>5. ASSUME Next, late' # late PROVE \E t \in Try, w \in Thread : Spawn(t, w)
  BY <1>5 DEF Next, others, Join, TimeOut, Expire, Advance, ReadTime, Execute, Kill, GoodStatus, BadStatus, Unreachable,
              NoStatus, ExecuteOrphan, Remove
<1>6. QED
  BY <1>3, <1>4, <1>5 DEF vars

\* A try that its caller has given up starts the commands of one step at most, one on each of its threads.
THEOREM AbandonedStartsFew == Spec => []FewCommandsAfterAbandon
<1>1. Init => LateInv
  BY DEF Init, LateInv
<1>2. ControlInv /\ LateInv => FewCommandsAfterAbandon
  <2>1. ASSUME ControlInv, LateInv, NEW t \in Try, NEW w \in Thread PROVE late[t][w] <= 1 /\ late[t][w] \in Nat
    BY <2>1 DEF ControlInv, LateInv, TypeOK
  <2>2. "main" \in Thread
    BY DEF Thread
  <2>3. QED
    BY <2>1, <2>2 DEF LateInv, FewCommandsAfterAbandon
<1>3. QED
  BY <1>1, <1>2, LateStep, ControlCorrect, PTL DEF Spec

-----------------------------------------------------------------------------

\* Another run of a command is counted, and no count is lost.
LEMMA CountRunCounts ==
  ASSUME TypeOK, NEW k \in Step, NEW w \in Thread, CountRun(k, w)
  PROVE  \A j \in Step, v \in Thread : runs'[j][v] > 0 <=> runs[j][v] > 0 \/ (j = k /\ v = w)
<1>1. runs[k][w] \in Nat
  BY DEF TypeOK
<1>2. CASE k \in Waits
  BY <1>1, <1>2 DEF CountRun, TypeOK
<1>3. CASE k \notin Waits
  BY <1>1, <1>3 DEF CountRun, TypeOK
<1>4. QED
  BY <1>2, <1>3

\* The steps before are still done when no count is lost.
LEMMA DoneStays ==
  ASSUME \A j \in Step, v \in Thread : runs[j][v] > 0 => runs'[j][v] > 0,
         NEW k \in 1..(Steps + 1), DoneBefore(k)
  PROVE  \A j \in Checked : j < k => \A v \in Crew(j) : runs'[j][v] > 0
<1>1. Checked \subseteq Step
  BY StepsAssumption DEF Step
<1>2. \A j \in Step : Crew(j) \subseteq Thread
  BY DEF Crew, Thread
<1>3. QED
  BY <1>1, <1>2 DEF DoneBefore

\* Every step keeps the invariant of order.
LEMMA OrderStep ==
  ASSUME ControlInv, OrderInv, [Next]_vars
  PROVE  OrderInv'
<1> USE DEF OrderInv
<1> USE StepsAssumption
<1>1. TypeOK /\ Checked \subseteq Step /\ Step \subseteq 1..(Steps + 1) /\ \A k \in Checked : k \notin Waits
  BY DEF ControlInv, Step
<1>2. \A j \in 1..(Steps + 1) : Crew(j) \subseteq Thread
  BY DEF Crew, Thread
<1>3. ASSUME NEW t \in Try, NEW w \in Thread, Moves(t, w)
      PROVE  /\ ValueIsLast' /\ pos' = pos /\ pos[t] \in Step
             /\ \A u \in Try, v \in Thread : u # t \/ v # w => work'[u][v] = work[u][v]
  <2>1. pos[t] \in Step
    BY <1>3, MoveKeepsControl DEF ControlInv
  <2>2. ValueIsLast' /\ pos' = pos
    BY <1>3 DEF Moves, ValueIsLast
  <2>3. \A u \in Try, v \in Thread : u # t \/ v # w => work'[u][v] = work[u][v]
    BY <1>1, <1>3 DEF Moves, TypeOK
  <2>4. QED
    BY <2>1, <2>2, <2>3
<1>4. ASSUME NEW t \in Try, NEW w \in Thread, Moves(t, w), runs' = runs,
             pos[t] \in Checked => work'[t][w] \notin {"executed", "ok"} \/ work[t][w] = "executed"
      PROVE  TriesInOrder' /\ ExecutedIsCounted' /\ RunsInOrder'
  BY <1>3, <1>4 DEF TriesInOrder, ExecutedIsCounted, RunsInOrder, DoneBefore, Crew
<1>5. ASSUME NEW t \in Try, NEW w \in Thread, ReadTime(t, w) \/ Spawn(t, w) PROVE OrderInv'
  <2>1. Moves(t, w)
    BY <1>5, CommandMoves
  <2>2. work'[t][w] \notin {"executed", "ok"} /\ UNCHANGED <<orphans, runs>>
    BY <1>1, <1>5 DEF ReadTime, Spawn, Becomes, TypeOK, device
  <2>3. QED
    BY <1>3, <1>4, <2>1, <2>2 DEF OrphansInOrder, DoneBefore, Crew
<1>6. ASSUME NEW t \in Try, NEW w \in Thread, Execute(t, w) PROVE OrderInv'
  <2>1. Moves(t, w)
    BY <1>6, CommandMoves
  <2>2. pos' = pos /\ pos[t] \in Step /\ orphans' = orphans /\ CountRun(pos[t], w)
    BY <1>3, <1>6, <2>1 DEF Execute
  <2>3. \A j \in Step, v \in Thread : runs'[j][v] > 0 <=> runs[j][v] > 0 \/ (j = pos[t] /\ v = w)
    BY <1>1, <2>2, CountRunCounts
  <2>4. \A k \in 1..(Steps + 1) : DoneBefore(k) => \A j \in Checked : j < k => \A v \in Crew(j) : runs'[j][v] > 0
    BY <2>3, DoneStays
  <2>5. \A u \in Try : pos[u] \in 1..(Steps + 1)
    BY <1>1 DEF TypeOK
  <2>6. TriesInOrder'
    BY <2>2, <2>4, <2>5 DEF TriesInOrder, DoneBefore, Crew
  <2>7. ExecutedIsCounted'
    <3>1. ASSUME NEW u \in Try, NEW v \in Thread, pos[u] \in Checked, work'[u][v] \in {"executed", "ok"}
          PROVE  runs'[pos[u]][v] > 0
      <4>1. CASE u = t /\ v = w
        BY <2>2, <2>3, <4>1
      <4>2. CASE u # t \/ v # w
        <5>1. work[u][v] \in {"executed", "ok"}
          BY <1>3, <2>1, <3>1, <4>2
        <5>2. runs[pos[u]][v] > 0 /\ pos[u] \in Step
          BY <1>1, <3>1, <5>1 DEF ExecutedIsCounted
        <5>3. QED
          BY <2>3, <5>2
      <4>3. QED
        BY <4>1, <4>2
    <3>2. QED
      BY <2>2, <3>1 DEF ExecutedIsCounted
  <2>8. OrphansInOrder'
    BY <1>1, <2>2, <2>4 DEF OrphansInOrder, DoneBefore, Crew
  <2>9. RunsInOrder'
    <3>1. \A k \in Step, v \in Thread : runs'[k][v] > 0 => DoneBefore(k)
      BY <2>3 DEF RunsInOrder, TriesInOrder
    <3>2. QED
      BY <1>1, <2>4, <3>1 DEF RunsInOrder, DoneBefore, Crew
  <2>10. QED
    BY <1>3, <2>1, <2>6, <2>7, <2>8, <2>9
<1>7. ASSUME NEW t \in Try, NEW w \in Thread, Kill(t, w) PROVE OrderInv'
  <2>1. Moves(t, w)
    BY <1>7, CommandMoves
  <2>2. work'[t][w] \notin {"executed", "ok"} /\ runs' = runs
    BY <1>1, <1>7 DEF Kill, Becomes, TypeOK
  <2>3. orphans' \subseteq orphans \cup {<<t, pos[t], w>>}
    BY <1>7 DEF Kill
  <2>4. \A u \in Try, k \in Step, v \in Thread : <<u, k, v>> \in orphans' => DoneBefore(k)
    BY <2>3 DEF OrphansInOrder, TriesInOrder
  <2>5. OrphansInOrder'
    BY <2>2, <2>4 DEF OrphansInOrder, DoneBefore, Crew
  <2>6. QED
    BY <1>3, <1>4, <2>1, <2>2, <2>5
<1>8. ASSUME NEW t \in Try, NEW w \in Thread,
             GoodStatus(t, w) \/ BadStatus(t, w) \/ Unreachable(t, w) \/ NoStatus(t, w)
      PROVE  OrderInv'
  <2>1. Moves(t, w)
    BY <1>8, CommandMoves
  <2>2. UNCHANGED <<orphans, runs>>
    BY <1>8 DEF GoodStatus, BadStatus, Unreachable, NoStatus, device
  <2>3. pos[t] \in Checked => work'[t][w] \notin {"executed", "ok"} \/ work[t][w] = "executed"
    BY <1>1, <1>8 DEF GoodStatus, BadStatus, Unreachable, NoStatus, Becomes, TypeOK
  <2>4. QED
    BY <1>3, <1>4, <2>1, <2>2, <2>3 DEF OrphansInOrder, DoneBefore, Crew
<1>9. ASSUME NEW t \in Try, NEW k \in Step, NEW w \in Thread, ExecuteOrphan(t, k, w) PROVE OrderInv'
  <2>1. UNCHANGED <<caller, pos, result, work>> /\ orphans' \subseteq orphans /\ <<t, k, w>> \in orphans /\ CountRun(k, w)
    BY <1>9 DEF ExecuteOrphan
  <2>2. \A j \in Step, v \in Thread : runs'[j][v] > 0 <=> runs[j][v] > 0 \/ (j = k /\ v = w)
    BY <1>1, <2>1, CountRunCounts
  <2>3. \A x \in 1..(Steps + 1) : DoneBefore(x) => \A j \in Checked : j < x => \A v \in Crew(j) : runs'[j][v] > 0
    BY <2>2, DoneStays
  <2>4. \A u \in Try : pos[u] \in 1..(Steps + 1)
    BY <1>1 DEF TypeOK
  <2>5. ValueIsLast' /\ TriesInOrder'
    BY <2>1, <2>3, <2>4 DEF ValueIsLast, TriesInOrder, DoneBefore, Crew, caller
  <2>6. ExecutedIsCounted'
    BY <1>1, <2>1, <2>2 DEF ExecutedIsCounted
  <2>7. OrphansInOrder'
    BY <1>1, <2>1, <2>3 DEF OrphansInOrder, DoneBefore, Crew
  <2>8. \A x \in Step, v \in Thread : runs'[x][v] > 0 => DoneBefore(x)
    BY <2>1, <2>2 DEF RunsInOrder, OrphansInOrder
  <2>9. RunsInOrder'
    BY <1>1, <2>3, <2>8 DEF RunsInOrder, DoneBefore, Crew
  <2>10. QED
    BY <2>5, <2>6, <2>7, <2>9
<1>10. ASSUME NEW t \in Try, Advance(t) PROVE OrderInv'
  <2>1. pos[t] \in Step /\ result[t] = "none" /\ UNCHANGED <<caller, device>>
    BY <1>10 DEF Advance, ControlInv, WorkIsOfStep
  <2>2. PICK k \in 0..(Steps + 1) : work' = [work EXCEPT ![t] = AtStep(k)]
    BY <1>10, <2>1 DEF Advance, Step
  <2>3. AtStep(k) \in [Thread -> {"idle", "ready"}]
    BY DEF AtStep
  <2>4. \A u \in Try, v \in Thread : work'[u][v] = IF u = t THEN AtStep(k)[v] ELSE work[u][v]
    BY <1>1, <2>2, <2>3 DEF TypeOK
  <2>5. \A u \in Try \ {t} : pos'[u] = pos[u] /\ result'[u] = result[u]
    BY <1>1, <1>10 DEF Advance, TypeOK
  <2>6. DoneBefore(pos[t]) /\ (pos'[t] # pos[t] => pos'[t] = pos[t] + 1 /\ DoneBefore(pos[t] + 1))
    <3>1. DoneBefore(pos[t])
      BY DEF TriesInOrder
    <3>2. ASSUME Raised(t) = {}, pos[t] \in Checked, NEW v \in Crew(pos[t]) PROVE runs[pos[t]][v] > 0
      <4>1. v \in Thread /\ work[t][v] # "idle"
        BY <1>1, <1>2, <1>10, <2>1, <3>2 DEF Advance, ControlInv, CrewWorks
      <4>2. work[t][v] = "ok"
        BY <1>1, <1>10, <3>2, <4>1 DEF Advance, Over, Raised, TypeOK
      <4>3. QED
        BY <3>2, <4>1, <4>2 DEF ExecutedIsCounted
    <3>3. pos'[t] # pos[t] => Raised(t) = {} /\ pos'[t] = pos[t] + 1
      BY <1>1, <1>10 DEF Advance, TypeOK
    <3>4. Raised(t) = {} => DoneBefore(pos[t] + 1)
      BY <1>1, <2>1, <3>1, <3>2 DEF DoneBefore, Step
    <3>5. QED
      BY <3>1, <3>3, <3>4
  <2>7. TriesInOrder'
    BY <2>1, <2>5, <2>6 DEF TriesInOrder, DoneBefore, Crew, device
  <2>8. ExecutedIsCounted'
    BY <2>1, <2>3, <2>4, <2>5 DEF ExecutedIsCounted, device
  <2>9. OrphansInOrder' /\ RunsInOrder'
    BY <2>1 DEF OrphansInOrder, RunsInOrder, DoneBefore, Crew, device
  <2>10. ValueIsLast'
    <3>1. result'[t] = "value" => pos'[t] = Steps + 1
      <4>1. Raised(t) \subseteq Errors /\ "value" \notin Errors
        BY DEF Raised, Errors
      <4>2. QED
        BY <1>1, <1>10, <2>1, <4>1 DEF Advance, TypeOK
    <3>2. outcome' = "value" => cur # t
      BY <2>1 DEF ValueIsLast, caller
    <3>3. QED
      BY <1>1, <2>1, <2>5, <3>1, <3>2 DEF ValueIsLast, caller, TypeOK
  <2>11. QED
    BY <2>7, <2>8, <2>9, <2>10
<1>11. ASSUME NEW t \in Try, Expire(t) PROVE OrderInv'
  BY <1>11 DEF Expire, device, ValueIsLast, TriesInOrder, ExecutedIsCounted, OrphansInOrder, RunsInOrder, DoneBefore, Crew
<1>12. ASSUME Join \/ TimeOut PROVE OrderInv'
  <2>1. UNCHANGED <<pos, result, orphans, runs>>
    BY <1>12 DEF Join, TimeOut, device
  <2>2. \/ cur' = cur /\ work' = work
        \/ cur <= Retries /\ cur' = cur + 1 /\ work' = [work EXCEPT ![cur + 1] = AtStep(1)] /\ outcome' = "none"
    BY <1>1, <1>12, RetriesAssumption DEF Join, TimeOut, RaisesOrRetries, TypeOK, Try
  <2>3. outcome' = "value" => result[cur] = "value" /\ cur' = cur
    BY <1>1, <1>12 DEF Join, TimeOut, RaisesOrRetries, TypeOK, Errors
  <2>4. AtStep(1) \in [Thread -> {"idle", "ready"}]
    BY DEF AtStep
  <2>5. \A u \in Try, v \in Thread : work'[u][v] = work[u][v] \/ work'[u][v] \in {"idle", "ready"}
    <3>1. cur <= Retries => cur + 1 \in Try
      BY <1>1, RetriesAssumption DEF TypeOK, Try
    <3>2. QED
      BY <1>1, <2>2, <2>4, <3>1 DEF TypeOK
  <2>6. ValueIsLast'
    BY <2>1, <2>3 DEF ValueIsLast
  <2>7. ExecutedIsCounted'
    BY <2>1, <2>5 DEF ExecutedIsCounted
  <2>8. TriesInOrder' /\ OrphansInOrder' /\ RunsInOrder'
    BY <2>1 DEF TriesInOrder, OrphansInOrder, RunsInOrder, DoneBefore, Crew
  <2>9. QED
    BY <2>6, <2>7, <2>8
<1>13. ASSUME UNCHANGED vars \/ \E t \in Try, k \in Step, w \in Thread : Remove(t, k, w) PROVE OrderInv'
  BY <1>13 DEF vars, Remove, caller, device, ValueIsLast, TriesInOrder, ExecutedIsCounted, OrphansInOrder, RunsInOrder, DoneBefore, Crew
<1>14. QED
  BY <1>5, <1>6, <1>7, <1>8, <1>9, <1>10, <1>11, <1>12, <1>13 DEF Next

\* A command is executed only after the checked commands of the steps before, and all of them when the method returns a value,
\* whichever tries of it executed them.
THEOREM ExecutedInOrder == Spec => []DoneInOrder
<1>1. Init => OrderInv
  <2>1. ASSUME Init PROVE OrderInv
    <3>1. /\ \A t \in Try : pos[t] = 1 /\ result[t] = "none"
          /\ \A k \in Step, w \in Thread : runs[k][w] = 0
          /\ outcome = "none" /\ orphans = {}
      BY <2>1 DEF Init
    <3>2. \A k \in 0..1 : AtStep(k) \in [Thread -> {"idle", "ready"}]
      BY DEF AtStep
    <3>3. \A t \in Try, w \in Thread : work[t][w] \in {"idle", "ready"}
      BY <2>1, <3>2 DEF Init
    <3>4. DoneBefore(1)
      BY StepsAssumption DEF DoneBefore
    <3>5. QED
      BY <3>1, <3>3, <3>4 DEF OrderInv, ValueIsLast, TriesInOrder, ExecutedIsCounted, OrphansInOrder, RunsInOrder
  <2>2. QED
    BY <2>1
<1>2. ControlInv /\ OrderInv => DoneInOrder
  <2>1. ASSUME ControlInv, OrderInv, outcome = "value" PROVE \A k \in Checked : \A w \in Crew(k) : runs[k][w] > 0
    <3>1. cur \in Try /\ pos[cur] = Steps + 1
      BY <2>1 DEF OrderInv, ValueIsLast, ControlInv, TypeOK
    <3>2. \A k \in Checked : k \in Nat /\ k < Steps + 1
      BY StepsAssumption
    <3>3. QED
      BY <2>1, <3>1, <3>2 DEF OrderInv, TriesInOrder, DoneBefore
  <2>2. QED
    BY <2>1 DEF OrderInv, RunsInOrder, DoneBefore, DoneInOrder
<1>3. QED
  BY <1>1, <1>2, OrderStep, ControlCorrect, PTL DEF Spec

-----------------------------------------------------------------------------
(* How often a command is executed *)

\* The device may yet run the command of w at step k for try t, as the first or, when its status was missing, as the second;
\* the command of a killed process counts as the second.
MayRun(k, w, t, i) ==
  \/ pos[t] < k
  \/ pos[t] = k /\ work[t][w] \in {"ready", "timed", "sent"} /\ (i = 2 \/ w \notin large[t])
  \/ pos[t] = k /\ work[t][w] = "executed" /\ i = 2 /\ w \notin large[t]
  \/ <<t, k, w>> \in orphans /\ i = 2

\* The runs that the tries so far have used up, executed or not.
Spent(k, w) == {s \in (1..cur) \X {1, 2} : ~MayRun(k, w, s[1], s[2])}

\* Every run was one of those, and the polls of a WaitFor count as one.
RunsAreSpent == \A k \in Step \ Waits, w \in Thread : runs[k][w] <= Cardinality(Spent(k, w))
WaitsOnce == \A k \in Waits, w \in Thread : runs[k][w] <= 1

\* The try of a killed process has raised or is about to, at the step of the command.
OrphanIsOver ==
  \A t \in Try, k \in Step, w \in Thread :
    <<t, k, w>> \in orphans => t <= cur /\ pos[t] = k /\ (work[t][w] \in Errors \/ result[t] # "none")

\* What is spent is finite, at most two runs of each try.
LEMMA TwoOfEach ==
  ASSUME NEW n \in Nat, NEW S, S \subseteq (1..n) \X {1, 2}
  PROVE  IsFiniteSet(S) /\ Cardinality(S) \in Nat /\ Cardinality(S) <= 2 * n
<1>1. IsFiniteSet(1..n) /\ Cardinality(1..n) = n
  BY FS_Interval
<1>2. IsFiniteSet({1}) /\ Cardinality({1}) = 1
  BY FS_Singleton
<1>3. IsFiniteSet({1, 2}) /\ Cardinality({1, 2}) = 2
  <2>1. {1} \cup {2} = {1, 2} /\ 2 \notin {1}
    OBVIOUS
  <2>2. QED
    BY <1>2, <2>1, FS_AddElement
<1>4. IsFiniteSet((1..n) \X {1, 2}) /\ Cardinality((1..n) \X {1, 2}) = n * 2
  <2>1. IsFiniteSet((1..n) \X {1, 2}) /\ Cardinality((1..n) \X {1, 2}) = Cardinality(1..n) * Cardinality({1, 2})
    BY <1>1, <1>3, FS_Product
  <2>2. QED
    BY <1>1, <1>3, <2>1
<1>5. IsFiniteSet(S) /\ Cardinality(S) <= Cardinality((1..n) \X {1, 2})
  BY <1>4, FS_Subset
<1>6. Cardinality(S) \in Nat
  BY <1>5, FS_CardinalityType
<1>7. QED
  BY <1>4, <1>5, <1>6

\* No try so far gains a run of the command.
NoneGained(k, w) ==
  /\ cur' \in Nat /\ cur <= cur'
  /\ \A t \in 1..cur, i \in {1, 2} : MayRun(k, w, t, i)' => MayRun(k, w, t, i)

\* Then what is spent does not shrink,
LEMMA SpentStays ==
  ASSUME TypeOK, TypeOK', NEW k \in Step, NEW w \in Thread, NoneGained(k, w)
  PROVE  Cardinality(Spent(k, w)) <= Cardinality(Spent(k, w)')
<1>1. Spent(k, w) \subseteq Spent(k, w)'
  BY DEF NoneGained, Spent, TypeOK, Try
<1>2. IsFiniteSet(Spent(k, w)')
  BY TwoOfEach DEF NoneGained, Spent
<1>3. QED
  BY <1>1, <1>2, FS_Subset

\* and it grows when a try has one run less to come.
LEMMA SpentGrows ==
  ASSUME TypeOK, TypeOK', NEW k \in Step, NEW w \in Thread, NoneGained(k, w),
         NEW t \in 1..cur, NEW i \in {1, 2}, MayRun(k, w, t, i), ~MayRun(k, w, t, i)'
  PROVE  Cardinality(Spent(k, w)) + 1 <= Cardinality(Spent(k, w)')
<1>1. Spent(k, w) \cup {<<t, i>>} \subseteq Spent(k, w)' /\ <<t, i>> \notin Spent(k, w)
  BY DEF NoneGained, Spent, TypeOK, Try
<1>2. IsFiniteSet(Spent(k, w)')
  BY TwoOfEach DEF NoneGained, Spent
<1>3. IsFiniteSet(Spent(k, w))
  <2>1. cur \in Nat
    BY RetriesAssumption DEF TypeOK, Try
  <2>2. QED
    BY <2>1, TwoOfEach DEF Spent
<1>4. Cardinality(Spent(k, w) \cup {<<t, i>>}) = Cardinality(Spent(k, w)) + 1
  BY <1>1, <1>3, FS_AddElement
<1>5. Cardinality(Spent(k, w) \cup {<<t, i>>}) <= Cardinality(Spent(k, w)')
  BY <1>1, <1>2, FS_Subset
<1>6. QED
  BY <1>4, <1>5

\* The invariant of the counts.
CountInv == RunsAreSpent /\ WaitsOnce /\ OrphanIsOver

\* Where no try gains a run, and the runs are no more than before, the bound holds on.
LEMMA NothingAdded ==
  ASSUME TypeOK, TypeOK', RunsAreSpent, NEW k \in Step \ Waits, NEW w \in Thread, NoneGained(k, w),
         runs'[k][w] <= runs[k][w]
  PROVE  runs'[k][w] <= Cardinality(Spent(k, w)')
<1>1. Cardinality(Spent(k, w)) <= Cardinality(Spent(k, w)')
  BY SpentStays
<1>2. runs[k][w] <= Cardinality(Spent(k, w))
  BY DEF RunsAreSpent
<1>3. Cardinality(Spent(k, w)) \in Nat /\ Cardinality(Spent(k, w)') \in Nat
  <2>1. cur \in Nat
    BY RetriesAssumption DEF TypeOK, Try
  <2>2. QED
    BY <2>1, TwoOfEach DEF NoneGained, Spent
<1>4. runs[k][w] \in Nat /\ runs'[k][w] \in Nat
  BY DEF TypeOK
<1>5. QED
  BY <1>1, <1>2, <1>3, <1>4

\* So it does where one run is added, and a try has one less to come.
LEMMA OneAdded ==
  ASSUME TypeOK, TypeOK', RunsAreSpent, NEW k \in Step \ Waits, NEW w \in Thread, NoneGained(k, w),
         runs'[k][w] <= runs[k][w] + 1,
         NEW t \in 1..cur, NEW i \in {1, 2}, MayRun(k, w, t, i), ~MayRun(k, w, t, i)'
  PROVE  runs'[k][w] <= Cardinality(Spent(k, w)')
<1>1. Cardinality(Spent(k, w)) + 1 <= Cardinality(Spent(k, w)')
  BY SpentGrows
<1>2. runs[k][w] <= Cardinality(Spent(k, w))
  BY DEF RunsAreSpent
<1>3. Cardinality(Spent(k, w)) \in Nat /\ Cardinality(Spent(k, w)') \in Nat
  <2>1. cur \in Nat
    BY RetriesAssumption DEF TypeOK, Try
  <2>2. QED
    BY <2>1, TwoOfEach DEF NoneGained, Spent
<1>4. runs[k][w] \in Nat /\ runs'[k][w] \in Nat
  BY DEF TypeOK
<1>5. QED
  BY <1>1, <1>2, <1>3, <1>4

\* An action of one command gains no run: only a missing status has a command that was executed sent again.
LEMMA MoveGainsNone ==
  ASSUME TypeOK, NEW t \in Try, NEW w \in Thread, Moves(t, w), NEW k \in Step \ Waits, NEW v \in Thread,
         \/ large' = large /\ (pos[t] \notin Waits /\ work[t][w] = "executed" => work'[t][w] \notin Busy)
         \/ /\ w \notin large[t] /\ work[t][w] = "executed" /\ work'[t][w] = "ready"
            /\ large' = [large EXCEPT ![t] = @ \cup {w}],
         orphans' = orphans \/ (work[t][w] = "sent" /\ orphans' = orphans \cup {<<t, pos[t], w>>})
  PROVE  NoneGained(k, v)
<1>1. \A u \in Try, x \in Thread : u # t \/ x # w => work'[u][x] = work[u][x]
  BY DEF Moves, TypeOK
<1>2. \A u \in Try, x \in Thread : u # t \/ x # w => (x \in large'[u] <=> x \in large[u])
  BY DEF TypeOK
<1>3. pos' = pos /\ cur' = cur /\ cur \in Nat /\ 1..cur \subseteq Try /\ work[t][w] \in Busy
  BY RetriesAssumption DEF Moves, TypeOK, Try
<1>4. ASSUME NEW u \in 1..cur, NEW i \in {1, 2}, MayRun(k, v, u, i)' PROVE MayRun(k, v, u, i)
  <2>1. CASE u # t \/ v # w
    <3>1. <<u, k, v>> \in orphans' => <<u, k, v>> \in orphans
      BY <2>1
    <3>2. work'[u][v] = work[u][v] /\ (v \in large'[u] <=> v \in large[u])
      BY <1>1, <1>2, <1>3, <2>1
    <3>3. QED
      BY <1>3, <1>4, <3>1, <3>2 DEF MayRun
  <2>2. CASE u = t /\ v = w
    <3>1. CASE large' = large
      <4>1. pos[t] \notin Waits /\ work[t][w] = "executed" => work'[t][w] \notin Busy
        BY <3>1 DEF TypeOK
      <4>2. work[t][w] # "executed" => work[t][w] \in {"ready", "timed", "sent"}
        BY <1>3 DEF Busy
      <4>3. CASE <<t, k, w>> \in orphans
        BY <1>4, <2>2, <4>3, <1>3, <3>1, <4>1, <4>2 DEF MayRun, Busy
      <4>4. CASE <<t, k, w>> \in orphans' /\ <<t, k, w>> \notin orphans
        <5>1. k = pos[t] /\ work[t][w] = "sent"
          BY <4>4
        <5>2. CASE i = 2
          BY <2>2, <5>1, <5>2 DEF MayRun
        <5>3. CASE i = 1
          BY <1>3, <1>4, <2>2, <3>1, <5>1, <5>3 DEF MayRun
        <5>4. QED
          BY <5>2, <5>3
      <4>5. CASE <<t, k, w>> \notin orphans'
        <5>1. pos[t] < k \/ pos[t] = k
          BY <1>3, <1>4, <2>2, <4>5 DEF MayRun
        <5>2. QED
          BY <1>3, <1>4, <2>2, <3>1, <4>1, <4>2, <4>5, <5>1 DEF MayRun, Busy
      <4>6. QED
        BY <4>3, <4>4, <4>5
    <3>2. CASE large' # large
      <4>1. w \notin large[t] /\ work[t][w] = "executed" /\ w \in large'[t] /\ orphans' = orphans
        BY <3>2 DEF TypeOK
      <4>2. QED
        BY <1>3, <1>4, <2>2, <4>1 DEF MayRun
    <3>3. QED
      BY <3>1, <3>2
  <2>3. QED
    BY <2>1, <2>2
<1>5. QED
  BY <1>3, <1>4 DEF NoneGained

\* A thread that waits for the device has a run to come, and none of the same number when it was executed.
LEMMA SentHasRun ==
  ASSUME ControlInv, OrphanIsOver, NEW t \in Try, NEW w \in Thread, work[t][w] = "sent", Moves(t, w), large' = large,
         work'[t][w] = "executed", orphans' = orphans
  PROVE  \E i \in {1, 2} : MayRun(pos[t], w, t, i) /\ ~MayRun(pos[t], w, t, i)'
<1>1. pos' = pos /\ pos[t] \in Nat /\ pos[t] \in Step
  BY StepsAssumption DEF Moves, ControlInv, TypeOK, WorkIsOfStep
<1>2. <<t, pos[t], w>> \notin orphans
  BY <1>1 DEF ControlInv, EndedIsIdle, OrphanIsOver, Errors
<1>3. CASE w \in large[t]
  <2>1. MayRun(pos[t], w, t, 2) /\ ~MayRun(pos[t], w, t, 2)'
    BY <1>1, <1>2, <1>3 DEF MayRun
  <2>2. QED
    BY <2>1
<1>4. CASE w \notin large[t]
  <2>1. MayRun(pos[t], w, t, 1) /\ ~MayRun(pos[t], w, t, 1)'
    BY <1>1, <1>2, <1>4 DEF MayRun
  <2>2. QED
    BY <2>1
<1>5. QED
  BY <1>3, <1>4

\* Only a try that has begun works.
LEMMA BusyHasBegun ==
  ASSUME ControlInv, NEW t \in Try, NEW w \in Thread, work[t][w] # "idle"
  PROVE  t \in 1..cur
BY RetriesAssumption DEF ControlInv, LaterIsUntouched, TypeOK, Try

\* The try of a killed process stays over.
LEMMA OverStays ==
  ASSUME ControlInv, OrphanIsOver, [Next]_vars
  PROVE  OrphanIsOver'
<1> USE DEF ControlInv
<1>1. TypeOK /\ cur \in Nat /\ Retries \in Nat
  BY RetriesAssumption DEF TypeOK, Try
<1>2. ASSUME NEW t \in Try, NEW w \in Thread, Moves(t, w), orphans' \subseteq orphans
      PROVE  OrphanIsOver'
  <2>1. \A u \in Try, v \in Thread : u # t \/ v # w => work'[u][v] = work[u][v]
    BY <1>1, <1>2 DEF Moves, TypeOK
  <2>2. UNCHANGED <<cur, pos, result>> /\ work[t][w] \in Busy
    BY <1>2 DEF Moves
  <2>3. work[t][w] \notin Errors /\ result[t] = "none"
    BY <2>2 DEF Busy, Errors, EndedIsIdle
  <2>4. QED
    BY <1>2, <2>1, <2>2, <2>3 DEF OrphanIsOver
<1>3. ASSUME NEW t \in Try, NEW w \in Thread, Kill(t, w) PROVE OrphanIsOver'
  <2>1. Moves(t, w) /\ orphans' \subseteq orphans \cup {<<t, pos[t], w>>}
    BY <1>3, CommandMoves DEF Kill
  <2>2. work'[t][w] = "error" /\ UNCHANGED <<cur, pos, result>>
    BY <1>1, <1>3 DEF Kill, Becomes, TypeOK, caller
  <2>3. \A u \in Try, v \in Thread : u # t \/ v # w => work'[u][v] = work[u][v]
    BY <1>1, <2>1 DEF Moves, TypeOK
  <2>4. work[t][w] # "idle"
    BY <1>3 DEF Kill
  <2>5. t <= cur
    BY <1>1, <2>4 DEF LaterIsUntouched, TypeOK, Try
  <2>6. QED
    BY <2>1, <2>2, <2>3, <2>5 DEF OrphanIsOver, Errors
<1>4. ASSUME NEW t \in Try, NEW w \in Thread,
             \/ ReadTime(t, w) \/ Spawn(t, w) \/ Execute(t, w)
             \/ GoodStatus(t, w) \/ BadStatus(t, w) \/ Unreachable(t, w) \/ NoStatus(t, w)
      PROVE  OrphanIsOver'
  BY <1>2, <1>4, CommandMoves DEF ReadTime, Spawn, Execute, GoodStatus, BadStatus, Unreachable, NoStatus, device
<1>5. ASSUME NEW t \in Try, Advance(t) PROVE OrphanIsOver'
  <2>1. cur' = cur /\ orphans' = orphans /\ result[t] = "none"
    BY <1>5 DEF Advance, caller, device
  <2>2. ASSUME NEW u \in Try, u # t
        PROVE  work'[u] = work[u] /\ pos'[u] = pos[u] /\ result'[u] = result[u]
    BY <1>1, <1>5, <2>2 DEF Advance, TypeOK
  <2>3. ASSUME NEW k \in Step, NEW w \in Thread, <<t, k, w>> \in orphans
        PROVE  pos'[t] = k /\ result'[t] # "none"
    <3>1. work[t][w] \in Errors /\ pos[t] = k
      BY <2>1, <2>3 DEF OrphanIsOver
    <3>2. Raised(t) # {} /\ Raised(t) \subseteq Errors
      BY <3>1 DEF Raised
    <3>3. \E e \in Errors : result' = [result EXCEPT ![t] = e]
      BY <1>5, <3>2 DEF Advance
    <3>4. pos' = pos
      BY <1>5, <3>2 DEF Advance
    <3>5. QED
      BY <1>1, <3>1, <3>3, <3>4 DEF TypeOK, Errors
  <2>4. QED
    BY <2>1, <2>2, <2>3 DEF OrphanIsOver
<1>6. CASE Join \/ TimeOut
  <2>1. UNCHANGED <<pos, result, orphans>>
    BY <1>6 DEF Join, TimeOut, device
  <2>2. \/ cur' = cur /\ work' = work
        \/ cur' = cur + 1 /\ work' = [work EXCEPT ![cur + 1] = AtStep(1)]
    BY <1>6 DEF Join, TimeOut, RaisesOrRetries
  <2>3. cur <= cur' /\ \A u \in Try : u <= cur => work'[u] = work[u]
    BY <1>1, <2>2 DEF TypeOK, Try
  <2>4. \A u \in Try : u <= cur => u <= cur'
    BY <1>1, <2>2 DEF Try
  <2>5. QED
    BY <2>1, <2>3, <2>4 DEF OrphanIsOver
<1>7. CASE \/ UNCHANGED vars
           \/ \E u \in Try : Expire(u)
           \/ \E u \in Try, k \in Step, w \in Thread : ExecuteOrphan(u, k, w) \/ Remove(u, k, w)
  <2>1. UNCHANGED <<cur, pos, result, work>> /\ orphans' \subseteq orphans
    BY <1>7 DEF vars, Expire, ExecuteOrphan, Remove, caller, device
  <2>2. QED
    BY <2>1 DEF OrphanIsOver
<1>8. QED
  BY <1>3, <1>4, <1>5, <1>6, <1>7 DEF Next

\* Every step keeps the bound of the spent runs.
LEMMA CountStep ==
  ASSUME ControlInv, ControlInv', CountInv, [Next]_vars
  PROVE  CountInv'
<1> USE DEF CountInv
<1>1. TypeOK /\ TypeOK' /\ RunsAreSpent /\ WaitsOnce /\ cur \in Nat
  <2>1. TypeOK /\ TypeOK'
    BY DEF ControlInv
  <2>2. cur \in Nat
    BY <2>1, RetriesAssumption DEF TypeOK, Try
  <2>3. QED
    BY <2>1, <2>2
<1>2. OrphanIsOver'
  BY OverStays
<1>3. ASSUME UNCHANGED runs, \A k \in Step \ Waits, w \in Thread : NoneGained(k, w)
      PROVE  CountInv'
  <2>1. ASSUME NEW k \in Step \ Waits, NEW w \in Thread PROVE runs'[k][w] <= Cardinality(Spent(k, w)')
    <3>1. runs'[k][w] <= runs[k][w]
      BY <1>1, <1>3 DEF TypeOK
    <3>2. QED
      BY <1>1, <1>3, <3>1, NothingAdded
  <2>2. QED
    BY <1>2, <1>3, <2>1 DEF RunsAreSpent, WaitsOnce
<1>4. ASSUME NEW t \in Try, NEW w \in Thread,
             \/ ReadTime(t, w) \/ Spawn(t, w) \/ Kill(t, w)
             \/ GoodStatus(t, w) \/ BadStatus(t, w) \/ Unreachable(t, w) \/ NoStatus(t, w)
      PROVE  CountInv'
  <2>1. Moves(t, w) /\ UNCHANGED runs
    BY <1>4, CommandMoves DEF ReadTime, Spawn, Kill, GoodStatus, BadStatus, Unreachable, NoStatus, device
  <2>2. orphans' = orphans \/ (work[t][w] = "sent" /\ orphans' = orphans \cup {<<t, pos[t], w>>})
    BY <1>4 DEF ReadTime, Spawn, Kill, GoodStatus, BadStatus, Unreachable, NoStatus, device
  <2>3. ASSUME NEW s, Becomes(t, w, s) PROVE work'[t][w] = s
    BY <1>1, <2>3 DEF Becomes, TypeOK
  <2>4. \/ large' = large /\ (pos[t] \notin Waits /\ work[t][w] = "executed" => work'[t][w] \notin Busy)
        \/ /\ w \notin large[t] /\ work[t][w] = "executed" /\ work'[t][w] = "ready"
           /\ large' = [large EXCEPT ![t] = @ \cup {w}]
    <3>1. CASE ReadTime(t, w) \/ Spawn(t, w)
      BY <3>1 DEF ReadTime, Spawn
    <3>2. CASE GoodStatus(t, w) \/ BadStatus(t, w)
      BY <2>3, <3>2 DEF GoodStatus, BadStatus, Accepts, Busy
    <3>3. CASE Unreachable(t, w) \/ Kill(t, w)
      BY <2>3, <3>3 DEF Unreachable, Kill, Busy
    <3>4. CASE NoStatus(t, w)
      BY <2>3, <3>4 DEF NoStatus, MayRepeat, Accepts, Busy
    <3>5. QED
      BY <1>4, <3>1, <3>2, <3>3, <3>4
  <2>5. \A k \in Step \ Waits, v \in Thread : NoneGained(k, v)
    BY <1>1, <2>1, <2>2, <2>4, MoveGainsNone
  <2>6. QED
    BY <1>3, <2>1, <2>5
<1>5. ASSUME NEW j \in Step, NEW x \in Thread, CountRun(j, x),
             \A k \in Step \ Waits, w \in Thread : NoneGained(k, w),
             NEW t \in 1..cur, \E i \in {1, 2} : MayRun(j, x, t, i) /\ ~MayRun(j, x, t, i)'
      PROVE  CountInv'
  <2>1. ASSUME NEW k \in Step \ Waits, NEW w \in Thread PROVE runs'[k][w] <= Cardinality(Spent(k, w)')
    <3>1. runs[k][w] \in Nat
      BY <1>1 DEF TypeOK
    <3>2. CASE k = j /\ w = x
      <4>1. runs'[k][w] <= runs[k][w] + 1
        BY <1>1, <1>5, <3>1, <3>2 DEF CountRun, TypeOK
      <4>2. QED
        BY <1>1, <1>5, <3>2, <4>1, OneAdded
    <3>3. CASE ~(k = j /\ w = x)
      <4>1. runs'[k][w] <= runs[k][w]
        BY <1>1, <1>5, <3>1, <3>3 DEF CountRun, TypeOK
      <4>2. QED
        BY <1>1, <1>5, <4>1, NothingAdded
    <3>4. QED
      BY <3>2, <3>3
  <2>2. WaitsOnce'
    BY <1>1, <1>5, StepsAssumption DEF CountRun, TypeOK, WaitsOnce, Step
  <2>3. QED
    BY <1>2, <2>1, <2>2 DEF RunsAreSpent
<1>6. ASSUME NEW t \in Try, NEW w \in Thread, Execute(t, w) PROVE CountInv'
  <2>1. Moves(t, w) /\ work[t][w] = "sent" /\ large' = large /\ orphans' = orphans /\ CountRun(pos[t], w)
    BY <1>6, CommandMoves DEF Execute
  <2>2. work'[t][w] = "executed" /\ pos' = pos
    BY <1>1, <1>6 DEF Execute, Becomes, TypeOK
  <2>3. PICK j \in Step : j = pos[t]
    BY <2>1, MoveKeepsControl DEF ControlInv
  <2>4. \A k \in Step \ Waits, v \in Thread : NoneGained(k, v)
    BY <1>1, <2>1, MoveGainsNone
  <2>5. t \in 1..cur
    BY <2>1, BusyHasBegun
  <2>6. \E i \in {1, 2} : MayRun(pos[t], w, t, i) /\ ~MayRun(pos[t], w, t, i)'
    BY <2>1, <2>2, SentHasRun
  <2>7. \E i \in {1, 2} : MayRun(j, w, t, i) /\ ~MayRun(j, w, t, i)'
    BY <2>2, <2>3, <2>6 DEF MayRun
  <2>8. QED
    BY <1>5, <2>1, <2>3, <2>4, <2>5, <2>7
<1>7. ASSUME NEW t \in Try, NEW j \in Step, NEW x \in Thread, ExecuteOrphan(t, j, x) PROVE CountInv'
  <2>1. CountRun(j, x) /\ UNCHANGED <<cur, pos, work, large>> /\ orphans' = orphans \ {<<t, j, x>>}
    BY <1>7 DEF ExecuteOrphan, caller
  <2>2. t \in 1..cur /\ pos[t] = j /\ work[t][x] \notin Busy
    BY <1>1, <1>7, RetriesAssumption DEF ExecuteOrphan, OrphanIsOver, ControlInv, EndedIsIdle, Errors, Busy, Try
  <2>3. \A k \in Step \ Waits, w \in Thread : NoneGained(k, w)
    BY <1>1, <2>1 DEF NoneGained, MayRun
  <2>4. pos[t] \in Nat
    BY <2>2 DEF Step
  <2>5. MayRun(j, x, t, 2) /\ ~MayRun(j, x, t, 2)'
    BY <1>7, <2>1, <2>2, <2>4 DEF ExecuteOrphan, MayRun, Busy
  <2>6. QED
    BY <1>5, <2>1, <2>2, <2>3, <2>5
<1>8. ASSUME NEW t \in Try, NEW j \in Step, NEW x \in Thread, Remove(t, j, x) PROVE CountInv'
  <2>1. UNCHANGED <<cur, pos, work, large, orphans, runs>>
    BY <1>8 DEF Remove, caller, device
  <2>2. \A k \in Step \ Waits, w \in Thread : NoneGained(k, w)
    BY <1>1, <2>1 DEF NoneGained, MayRun
  <2>3. QED
    BY <1>3, <2>1, <2>2
<1>9. ASSUME NEW t \in Try, Advance(t) PROVE CountInv'
  <2>1. UNCHANGED <<cur, orphans, runs>> /\ pos[t] \in Step
    BY <1>9 DEF Advance, caller, device, ControlInv, WorkIsOfStep
  <2>2. PICK n \in {0, pos[t] + 1} : /\ work' = [work EXCEPT ![t] = AtStep(n)]
                                     /\ n = 0 => pos' = pos
                                     /\ n # 0 => pos' = [pos EXCEPT ![t] = @ + 1]
    BY <1>9, <2>1 DEF Advance, Step
  <2>3. large' = [large EXCEPT ![t] = {}]
    BY <1>9 DEF Advance
  <2>4. AtStep(n) \in [Thread -> {"idle", "ready"}] /\ (n = 0 => \A w \in Thread : AtStep(n)[w] = "idle")
    BY DEF AtStep, Step
  <2>5. ASSUME NEW k \in Step \ Waits, NEW w \in Thread, NEW u \in 1..cur, NEW i \in {1, 2}, MayRun(k, w, u, i)'
        PROVE  MayRun(k, w, u, i)
    <3>1. u \in Try /\ pos[u] \in Nat /\ k \in Nat /\ pos[t] \in Nat
      <4>1. u \in Try
        BY <1>1, RetriesAssumption DEF TypeOK, Try
      <4>2. Steps \in Nat /\ k \in Nat
        BY StepsAssumption DEF Step
      <4>3. \A r \in Try : pos[r] \in Nat
        BY <1>1, <4>2 DEF TypeOK
      <4>4. QED
        BY <4>1, <4>2, <4>3
    <3>2. CASE u # t
      <4>1. work'[u] = work[u] /\ pos'[u] = pos[u] /\ large'[u] = large[u] /\ orphans' = orphans
        BY <1>1, <2>1, <2>2, <2>3, <3>1, <3>2 DEF TypeOK
      <4>2. QED
        BY <2>5, <4>1 DEF MayRun
    <3>3. CASE u = t
      <4>1. work'[u][w] = AtStep(n)[w]
        BY <1>1, <2>2, <3>1, <3>3 DEF TypeOK
      <4>2. CASE n = 0
        BY <2>1, <2>2, <2>4, <2>5, <3>1, <3>3, <4>1, <4>2 DEF MayRun
      <4>3. CASE n # 0
        <5>1. pos'[u] = pos[u] + 1
          BY <1>1, <2>2, <3>1, <3>3, <4>3 DEF TypeOK
        <5>2. QED
          BY <2>1, <2>5, <3>1, <5>1 DEF MayRun
      <4>4. QED
        BY <4>2, <4>3
    <3>4. QED
      BY <3>2, <3>3
  <2>6. \A k \in Step \ Waits, w \in Thread : NoneGained(k, w)
    BY <1>1, <2>1, <2>5 DEF NoneGained
  <2>7. QED
    BY <1>3, <2>1, <2>6 DEF device
<1>10. ASSUME NEW t \in Try, Expire(t) PROVE CountInv'
  <2>1. UNCHANGED <<cur, pos, work, large, orphans, runs>>
    BY <1>10 DEF Expire, device
  <2>2. \A k \in Step \ Waits, w \in Thread : NoneGained(k, w)
    BY <1>1, <2>1 DEF NoneGained, MayRun
  <2>3. QED
    BY <1>3, <2>1, <2>2
<1>11. ASSUME Join \/ TimeOut PROVE CountInv'
  <2>1. UNCHANGED <<pos, large, orphans, runs>>
    BY <1>11 DEF Join, TimeOut, device
  <2>2. \/ cur' = cur /\ work' = work
        \/ cur' = cur + 1 /\ work' = [work EXCEPT ![cur + 1] = AtStep(1)]
    BY <1>1, <1>11, RetriesAssumption DEF Join, TimeOut, RaisesOrRetries, TypeOK, Try
  <2>3. cur' \in Nat /\ cur <= cur' /\ \A u \in 1..cur : u \in Try /\ work'[u] = work[u]
    BY <1>1, <2>2, RetriesAssumption DEF TypeOK, Try
  <2>4. \A k \in Step \ Waits, w \in Thread : NoneGained(k, w)
    BY <2>1, <2>3 DEF NoneGained, MayRun
  <2>5. QED
    BY <1>3, <2>1, <2>4
<1>12. ASSUME UNCHANGED vars PROVE CountInv'
  <2>1. UNCHANGED <<cur, pos, work, large, orphans, runs>>
    BY <1>12 DEF vars
  <2>2. \A k \in Step \ Waits, w \in Thread : NoneGained(k, w)
    BY <1>1, <2>1 DEF NoneGained, MayRun
  <2>3. QED
    BY <1>3, <2>1, <2>2
<1>13. QED
  BY <1>4, <1>6, <1>7, <1>8, <1>9, <1>10, <1>11, <1>12 DEF Next

\* A command is executed at most twice for each try so far, by adb processes that were killed too.
THEOREM RunsAreBounded == Spec => []RunsBounded
<1>1. Init => CountInv
  <2>1. ASSUME Init, NEW k \in Step, NEW w \in Thread PROVE runs[k][w] = 0
    BY <2>1 DEF Init
  <2>2. ASSUME Init, NEW k \in Step, NEW w \in Thread PROVE Cardinality(Spent(k, w)) \in Nat
    BY <2>2, TwoOfEach DEF Init, Spent
  <2>3. ASSUME Init, NEW k \in Step, NEW w \in Thread
        PROVE  runs[k][w] <= Cardinality(Spent(k, w)) /\ runs[k][w] <= 1
    BY <2>1, <2>2, <2>3
  <2>4. Waits \subseteq Step
    BY StepsAssumption DEF Step
  <2>5. Init => OrphanIsOver
    BY DEF Init, OrphanIsOver
  <2>6. QED
    BY <2>3, <2>4, <2>5 DEF CountInv, RunsAreSpent, WaitsOnce
<1>2. ControlInv /\ CountInv => RunsBounded
  <2>1. ASSUME ControlInv, CountInv, NEW k \in Step, NEW w \in Thread PROVE runs[k][w] <= 2 * cur
    <3>1. cur \in Nat /\ cur > 0 /\ runs[k][w] \in Nat
      BY <2>1, RetriesAssumption DEF ControlInv, TypeOK, Try
    <3>2. CASE k \in Waits
      BY <2>1, <3>1, <3>2 DEF CountInv, WaitsOnce
    <3>3. CASE k \notin Waits
      <4>1. runs[k][w] <= Cardinality(Spent(k, w))
        BY <2>1, <3>3 DEF CountInv, RunsAreSpent
      <4>2. Cardinality(Spent(k, w)) \in Nat /\ Cardinality(Spent(k, w)) <= 2 * cur
        BY <3>1, TwoOfEach DEF Spent
      <4>3. QED
        BY <3>1, <4>1, <4>2
    <3>4. QED
      BY <3>2, <3>3
  <2>2. QED
    BY <2>1 DEF RunsBounded
<1>3. ControlInv /\ ControlInv' /\ CountInv /\ [Next]_vars => CountInv'
  BY CountStep
<1>4. QED
  BY <1>1, <1>2, <1>3, ControlCorrect, PTL DEF Spec
=============================================================================
