-------------------------------- MODULE Tracing --------------------------------
(***************************************************************************)
(* One run of systrace or profile_chrome: TracingController starts its     *)
(* agents one after the other, marks the clocks, stops them, collects what *)
(* they recorded and writes it.  An agent's call is a sequence of steps,   *)
(* each of which may time out (the call returns False, and what remains of *)
(* it on the host goes on behind the controller's back) or raise (nothing  *)
(* catches it).  The atrace and WALT agents collect in threads.            *)
(***************************************************************************)
EXTENDS Naturals, Sequences, FiniteSets

CONSTANTS Scenes,     \* records: the front end, its agents in the order of its modules, and whether it writes JSON
          MaxTimeouts \* bound on the calls that time out

VARIABLES scene, pc, i,
          todo,     \* the steps left of the call of agent i
          held,     \* what is changed on the device, or on the host: pairs of an agent and a change
          work, bg, \* per agent, the steps that run in the background, and what for: a thread, or a call given up
          child,    \* _child_agents; before StartTracing has returned, succ_agents
          succ,     \* the agents that stopped
          synced,   \* the agents that have their clock sync marker
          results,  \* sequence of agent and data; all_results is set when pc is output
          timedOut, \* calls that timed out: pairs of an agent and the phase
          raised,   \* <<agent, phase>> of the exception that ended the run
          atexit    \* the handler that turns charging on again is registered

vars == <<scene, pc, i, todo, held, work, bg, child, succ, synced, results, timedOut, raised, atexit>>

Agents == {"process", "atrace", "file", "battor", "ftrace", "walt", "chrome", "memory", "ddms", "perf", "startup"}
On(what) == [do |-> "on", what |-> what]
Off(what) == [do |-> "off", what |-> what]
Changes == {"record", "discharge", "shell", "buffer", "events", "mmap", "clocks", "flag"}
At(what) == [do |-> "at", what |-> what]  \* changes nothing that outlives the run

\* What an agent does when it is started, told to mark the clock, stopped, in its thread, and asked for its results.
Calls(start, mark, stop, thread, get) ==
  [starting |-> start, syncing |-> mark, stopping |-> stop, thread |-> thread, getting |-> get]
ProcessAgent == Calls(<<At("snapshot")>>, <<>>, <<At("snapshot")>>, <<>>, <<>>)
AtraceThread == <<At("dump"), Off("record"), At("preprocess")>>
AtraceAgent == Calls(<<At("categories"), On("record")>>, <<At("mark")>>, <<>>, AtraceThread, <<>>)
AtraceFileAgent == Calls(<<>>, <<>>, <<At("read")>>, <<>>, <<>>)
BattOrAgent == Calls(<<On("discharge"), On("shell"), On("record")>>, <<At("mark")>>, <<Off("record"), Off("discharge")>>,
                     <<>>, <<Off("shell")>>)
FtraceAgent == Calls(<<On("buffer"), On("events"), On("record")>>, <<>>, <<Off("record"), Off("events")>>,
                     <<>>, <<At("read"), Off("buffer")>>)
WaltAgent == Calls(<<At("clear")>>, <<At("mark")>>, <<>>, <<At("read")>>, <<>>)
ChromeAgent == Calls(<<On("record"), At("wait")>>, <<>>, <<Off("record"), At("wait")>>, <<>>, <<At("pull")>>)
MemoryAgent == Calls(<<On("record"), On("mmap"), At("wait")>>, <<>>, <<Off("record"), At("wait"), Off("mmap")>>,
                     <<>>, <<At("pull")>>)
DdmsAgent == Calls(<<On("record")>>, <<>>, <<Off("record")>>, <<>>, <<At("pull")>>)
PerfAgent == Calls(<<On("clocks"), On("record")>>, <<>>, <<Off("record"), Off("clocks")>>, <<>>, <<At("pull")>>)
StartupAgent == Calls(<<On("flag"), At("launch")>>, <<>>, <<At("wait"), Off("flag")>>, <<>>, <<At("pull")>>)
Plan == [process |-> ProcessAgent, atrace |-> AtraceAgent, file |-> AtraceFileAgent, battor |-> BattOrAgent,
         ftrace |-> FtraceAgent, walt |-> WaltAgent, chrome |-> ChromeAgent, memory |-> MemoryAgent,
         ddms |-> DdmsAgent, perf |-> PerfAgent, startup |-> StartupAgent]
\* The agents that answer SupportsExplicitClockSync with True, and those that collect in a thread.
SyncAgents == {a \in Agents : Plan[a].syncing # <<>>}
ThreadAgents == {a \in Agents : Plan[a].thread # <<>>}

\* Steps of the host go on after the call was given up; a command for the device is not begun any more.
OnHost(a, s) == a \in {"ftrace", "file"} \/ (a = "battor" /\ s.what # "discharge")
Late(a) ==
  LET n == CHOOSE k \in 0..Len(todo) : /\ \A j \in 1..k : OnHost(a, todo[j])
                                       /\ k = Len(todo) \/ ~OnHost(a, todo[k + 1])
  IN SubSeq(todo, 1, n)
Effect(a, s, h) == IF s.do = "on" THEN h \union {<<a, s.what>>} ELSE IF s.do = "off" THEN h \ {<<a, s.what>>} ELSE h

\* Each module of the front end makes at most one agent.
TracingAssumption ==
  \A s \in Scenes : /\ s.agents \in Seq(Agents)
                    /\ \A j, k \in DOMAIN s.agents : s.agents[j] = s.agents[k] => j = k

TypeOK ==
  /\ scene \in Scenes /\ atexit \in BOOLEAN
  /\ pc \in {"enable", "starting", "capturing", "syncing", "stopping", "disable", "getting", "output", "written", "died", "exited"}
  /\ i \in Nat /\ held \subseteq Agents \X Changes
  /\ bg \in [Agents -> {"none", "late", "thread", "failed", "done"}] /\ synced \subseteq SyncAgents
  /\ \A k \in DOMAIN results : results[k].agent \in Agents \union {"controller"}
  /\ \A x \in timedOut : x[1] \in Agents \union {"controller"}

Init ==
  /\ scene \in Scenes /\ pc = "enable" /\ i = 0 /\ todo = <<>>
  /\ held = {} /\ work = [a \in Agents |-> <<>>] /\ bg = [a \in Agents |-> "none"]
  /\ child = <<>> /\ succ = <<>> /\ synced = {} /\ results = <<>>
  /\ timedOut = {} /\ raised = <<"none", "none">> /\ atexit = FALSE

rest == <<scene, child, succ, synced, results, timedOut, raised, atexit>>

-----------------------------------------------------------------------------
(* The controller *)

List(phase) == IF phase = "starting" THEN scene.agents ELSE child
StepsOf(phase, a) == Plan[a][phase]
AfterStop == [enable |-> "starting", starting |-> "capturing", capturing |-> "stopping", stopping |-> "syncing",
              syncing |-> "disable", disable |-> "getting"]
After == [enable |-> "starting", starting |-> "capturing", capturing |-> "syncing", syncing |-> "stopping",
          stopping |-> "disable", disable |-> "getting"]

\* The phase p begins with agent k of its list l.
Enter(p, l, k) == /\ pc' = p /\ i' = k
                  /\ todo' = IF k \in DOMAIN l THEN StepsOf(p, l[k]) ELSE <<>>
Dies(who) == /\ pc' = "died" /\ raised' = <<who, pc>> /\ i' = 0 /\ todo' = <<>>
Gives(who) == timedOut' = timedOut \union {<<who, pc>>}

\* The controller's own agent: trace_event is enabled and disabled.
Controller ==
  /\ pc \in {"enable", "disable"}
  /\ \/ /\ Enter(After[pc], IF pc = "enable" THEN scene.agents ELSE succ, 1)
        /\ child' = (IF pc = "enable" THEN child ELSE succ) /\ UNCHANGED <<timedOut, raised>>
     \/ Dies("controller") /\ UNCHANGED <<timedOut, child>>
     \* StartTracing or StopTracing returns False; StopTracing, GetTraceType and the output then meet a None.
     \/ Cardinality(timedOut) < MaxTimeouts /\ Gives("controller") /\ Dies("controller") /\ UNCHANGED child
  /\ UNCHANGED <<scene, held, work, bg, succ, synced, results, atexit>>

Running == pc \in {"starting", "syncing", "stopping", "getting"} /\ i \in DOMAIN List(pc)
a0 == List(pc)[i]

Step ==
  /\ Running /\ todo # <<>> /\ todo' = Tail(todo) /\ held' = Effect(a0, Head(todo), held)
  /\ atexit' = (atexit \/ Head(todo) = On("discharge"))
  /\ UNCHANGED <<scene, pc, i, work, bg, child, succ, synced, results, timedOut, raised>>

ReturnsAtOnce == todo = <<>>
\* The thread that collects has to be there, and GetResults waits for it.
MayReturn == todo = <<>> /\ (pc = "getting" => bg[a0] # "thread")
\* WALT's result is made of contents that its thread did not read.
NoContents == pc = "getting" /\ todo = <<>> /\ a0 = "walt" /\ bg[a0] = "failed"
\* What follows the call of an agent; the next one's begins.
NextAgent == Enter(pc, List(pc), i + 1)
Data(a) == IF bg[a] \in {"thread", "failed"} THEN "nothing" ELSE "whole"
Returns ==
  /\ Running /\ MayReturn /\ ~NoContents /\ NextAgent
  /\ child' = (IF pc = "starting" THEN Append(child, a0) ELSE child)
  /\ succ' = (IF pc = "stopping" THEN Append(succ, a0) ELSE succ)
  /\ synced' = (IF pc = "syncing" /\ a0 \in SyncAgents THEN synced \union {a0} ELSE synced)
  /\ results' = (IF pc = "getting" THEN Append(results, [agent |-> a0, data |-> Data(a0)]) ELSE results)
  /\ IF pc = "stopping" /\ a0 \in ThreadAgents
     THEN work' = [work EXCEPT ![a0] = Plan[a0].thread] /\ bg' = [bg EXCEPT ![a0] = "thread"] ELSE UNCHANGED <<work, bg>>
  /\ UNCHANGED <<scene, held, timedOut, raised, atexit>>

TimesOutForAll ==
  /\ Running /\ pc # "syncing" /\ Cardinality(timedOut) < MaxTimeouts /\ todo # <<>>
  /\ Gives(a0) /\ Enter(pc, List(pc), Len(List(pc)) + 1)
  /\ UNCHANGED <<scene, held, work, bg, child, succ, synced, results, raised, atexit>>
\* A call that is given up may have had its effect, and leaves what remains of it behind.
TimesOut ==
  /\ Running /\ pc # "syncing" /\ Cardinality(timedOut) < MaxTimeouts /\ (todo # <<>> \/ ~MayReturn)
  /\ Gives(a0) /\ NextAgent
  /\ held' \in {held} \union {Effect(a0, s, held) : s \in IF todo = <<>> THEN {} ELSE {Head(todo)}}
  /\ IF bg[a0] = "thread" THEN UNCHANGED <<work, bg>>
     ELSE work' = [work EXCEPT ![a0] = Late(a0)] /\ bg' = [bg EXCEPT ![a0] = "late"]
  /\ UNCHANGED <<scene, child, succ, synced, results, raised, atexit>>

\* Only the agent of Chrome's startup tidies up when its step fails.
Raises ==
  /\ Running /\ (todo # <<>> \/ NoContents) /\ Dies(a0)
  /\ held' \in LET steps == IF todo = <<>> THEN {} ELSE {Head(todo)}
                   tidy == IF a0 = "startup" /\ pc = "stopping" THEN Off("flag") ELSE At("none")
               IN {Effect(a0, tidy, h) : h \in {held} \union {Effect(a0, s, held) : s \in steps}}
  /\ UNCHANGED <<scene, work, bg, child, succ, synced, results, timedOut, atexit>>

NextPhase ==
  /\ pc \in {"starting", "capturing", "syncing", "stopping"} /\ (pc = "capturing" \/ i \notin DOMAIN List(pc))
  /\ LET p == After[pc] IN Enter(p, IF p \in {"syncing", "stopping"} THEN List(p) ELSE <<>>, 1)
  /\ UNCHANGED <<scene, held, work, bg, child, succ, synced, results, timedOut, raised, atexit>>

\* The controller's own agent is the last that is asked for its results, under the same timeout: given up, it is skipped.
ControllerResult ==
  /\ pc = "getting" /\ i \notin DOMAIN child
  /\ \/ /\ Enter("output", <<>>, 1) /\ UNCHANGED <<timedOut, raised>>
        /\ results' = Append(results, [agent |-> "controller", data |-> "whole"])
     \/ /\ Cardinality(timedOut) < MaxTimeouts /\ Gives("controller") /\ Enter("output", <<>>, 1)
        /\ UNCHANGED <<results, raised>>
     \/ Dies("controller") /\ UNCHANGED <<results, timedOut>>
  /\ UNCHANGED <<scene, held, work, bg, child, succ, synced, atexit>>

-----------------------------------------------------------------------------
(* What runs in the background, the output and the exit *)

Background(a) ==
  /\ work[a] # <<>> /\ pc # "exited"
  /\ \/ /\ held' = Effect(a, Head(work[a]), held) /\ work' = [work EXCEPT ![a] = Tail(@)]
        /\ bg' = [bg EXCEPT ![a] = IF bg[a] = "thread" /\ Len(work[a]) = 1 THEN "done" ELSE @]
     \/ /\ bg[a] = "thread" /\ bg' = [bg EXCEPT ![a] = "failed"] /\ work' = [work EXCEPT ![a] = <<>>] /\ UNCHANGED held
  /\ UNCHANGED <<pc, i, todo, rest>>

\* profile_chrome leaves the controller's own events out.
Written == IF scene.front = "systrace" THEN results ELSE SelectSeq(results, LAMBDA r : r.agent # "controller")
\* GenerateHTMLOutput wants strings, and more than three results only of the parts that TraceDataBuilder knows.
Unwritable(rs) ==
  \/ \E k \in DOMAIN rs : rs[k].data = "nothing" /\ (~scene.json \/ (scene.front = "chrome" /\ Len(rs) > 1))
  \/ /\ ~scene.json /\ Len(rs) > 3
     /\ \E k \in DOMAIN rs : rs[k].agent \in {"ftrace", "file", "perf", "ddms", "chrome", "memory", "startup"}
Output ==
  /\ pc = "output"
  /\ IF Unwritable(Written) THEN Dies("output") ELSE pc' = "written" /\ UNCHANGED <<i, todo, raised>>
  /\ UNCHANGED <<scene, held, work, bg, child, succ, synced, results, timedOut, atexit>>

\* The threads of the collection are waited for, those of calls given up are not; then come the handlers of atexit.
Exit ==
  /\ pc \in {"written", "died"} /\ \A a \in Agents : bg[a] # "thread"
  /\ pc' = "exited"
  /\ held' = held \ ({<<"battor", "shell">>} \union IF atexit THEN {<<"battor", "discharge">>} ELSE {})
  /\ UNCHANGED <<i, todo, work, bg, rest>>

Next == Controller \/ Step \/ Returns \/ TimesOut \/ Raises \/ NextPhase \/ ControllerResult \/ (\E a \in Agents : Background(a)) \/ Output \/ Exit

Spec == Init /\ [][Next]_vars

-----------------------------------------------------------------------------
(* Properties *)

\* A device is left changed only by an agent whose own call or thread failed, by an exception before the results were asked for, or by one
\* in another agent's results if the change is undone with the results.
LeftIsExplained ==
  pc = "exited" => \A h \in held :
    \/ \E x \in timedOut : x[1] = h[1]
    \/ bg[h[1]] = "failed" \/ raised[1] = h[1] \/ raised[2] \in {"starting", "syncing", "stopping", "disable"}
    \/ raised[2] = "getting" /\ raised[1] # "controller" /\ \E k \in DOMAIN Plan[h[1]].getting : Plan[h[1]].getting[k] = Off(h[2])

\* What is handed over is of exactly the agents that started, stopped and answered in time, in their order, with the controller's own
\* result last if it answered in time, and is empty only if the thread that collected it failed.
Before(a, b) == \E j, k \in DOMAIN scene.agents : j < k /\ scene.agents[j] = a /\ scene.agents[k] = b
ResultsAreWhole ==
  pc \in {"output", "written"} =>
    /\ {results[k].agent : k \in DOMAIN results} =
         ({scene.agents[k] : k \in DOMAIN scene.agents} \union {"controller"}) \ {x[1] : x \in timedOut}
    /\ \A j, k \in DOMAIN results : j < k =>
         /\ results[j].agent # "controller"
         /\ results[k].agent = "controller" \/ Before(results[j].agent, results[k].agent)
    /\ \A k \in DOMAIN results : results[k].data = "nothing" => bg[results[k].agent] = "failed"

\* Every result that can carry a clock sync marker got it while its agent was recording.
MarkersAreInside ==
  /\ pc \in {"output", "written"} =>
       \A k \in DOMAIN results : results[k].agent \in SyncAgents => results[k].agent \in synced
  /\ pc = "syncing" => \A a \in {"atrace", "battor"} : (\E k \in DOMAIN child : child[k] = a) => <<a, "record">> \in held
=============================================================================
