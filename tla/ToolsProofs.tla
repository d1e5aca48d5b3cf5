---- MODULE ToolsProofs ----
(***************************************************************************)
(* Theorems about the tools above the devices, for any devices, ports,     *)
(* processes, writers, callers, configs, hosts and scenes, and any bounds: *)
(* the trace with its agents, the BattOr's shell and map, the trace log of *)
(* several processes, the update, the fetch and the lookup of dependencies *)
(* and the caches of a device.                                             *)
(* Each part has an inductive invariant; their steps are put together at   *)
(* the end.                                                                *)
(***************************************************************************)
EXTENDS MC_Tools, FiniteSetTheorems, WellFoundedInduction, TLAPS

-----------------------------------------------------------------------------
(* The shell of the BattOr *)

\* The wrapper's shell is the only process.  While a trace is started nothing is recorded and nothing is over, the shell is closed
\* between its two halves, and it goes on to the recording with a firmware that is new or cannot be read.
AgentInv ==
  /\ alive \subseteq 1..MaxShells /\ shell \in 0..MaxShells /\ started \in 0..MaxShells
  /\ tracing \in BOOLEAN /\ over \in BOOLEAN /\ readable \in BOOLEAN /\ firmware \in {"old", "new"}
  /\ flashing \in {"no", "hash", "off", "flash", "failed", "ready"}
  /\ alive \subseteq {shell}
  /\ over => alive = {} /\ flashing = "no"
  /\ flashing # "no" => ~tracing
  /\ flashing = "flash" => shell = 0
  /\ readable /\ (tracing \/ flashing = "ready") => firmware = "new"

\* The invariant of the shell holds at first.
LEMMA AgentInvInit == Agent!Init => AgentInv
<1>1. 0 \in 0..MaxShells
  BY ToolsAssumption DEF Agent!ShellAssumption
<1>2. QED
  BY <1>1 DEF Agent!Init, AgentInv

\* Every step of the wrapper, or of its process, keeps the invariant of the shell.
LEMMA AgentInvStep == AgentInv /\ [Agent!Next]_agentVars => AgentInv'
<1> SUFFICES ASSUME AgentInv, Agent!Next \/ UNCHANGED agentVars PROVE AgentInv'
  OBVIOUS
<1>1. /\ \A p \in alive : p = shell /\ p # 0 /\ p \in 1..MaxShells
      /\ shell = 0 => alive = {}
  BY ToolsAssumption DEF Agent!ShellAssumption, AgentInv
<1>2. ASSUME Agent!Opens, shell = 0
      PROVE  /\ alive' \subseteq {shell'} /\ alive' \subseteq 1..MaxShells /\ shell' \in 0..MaxShells /\ started' \in 0..MaxShells
  BY <1>1, <1>2, ToolsAssumption DEF Agent!ShellAssumption, Agent!Opens, AgentInv
<1>3. ASSUME Agent!Close
      PROVE  alive' = {} /\ shell' = 0 /\ shell' \in 0..MaxShells
  BY <1>1, <1>3, ToolsAssumption DEF Agent!ShellAssumption, Agent!Close, Agent!Reaped
<1>4. CASE Agent!StartShell
  BY <1>2, <1>4 DEF Agent!StartShell, Agent!Idle, Agent!device, Agent!files, AgentInv
<1>5. CASE Agent!StopShell
  BY <1>3, <1>5 DEF Agent!StopShell, Agent!Idle, Agent!device, Agent!files, AgentInv
<1>6. CASE Agent!StartTracing
  BY <1>6 DEF Agent!StartTracing, Agent!Idle, Agent!device, Agent!files, AgentInv
<1>7. CASE Agent!ReadHash
  BY <1>7 DEF Agent!ReadHash, Agent!device, Agent!files, AgentInv
<1>8. CASE Agent!ShellOff
  BY <1>3, <1>8 DEF Agent!ShellOff, Agent!device, Agent!files, AgentInv
<1>9. CASE Agent!FlashFirmware
  <2>1. flashing = "flash" /\ shell = 0 /\ Agent!Opens /\ ~over
    BY <1>9 DEF Agent!FlashFirmware, AgentInv
  <2>2. QED
    BY <1>2, <1>9, <2>1 DEF Agent!FlashFirmware, Agent!files, AgentInv
<1>10. CASE Agent!SendStart
  BY <1>10 DEF Agent!SendStart, Agent!Answers, Agent!Kill, Agent!device, AgentInv
<1>11. CASE Agent!RecordClockSyncMarker
  BY <1>11 DEF Agent!RecordClockSyncMarker, Agent!Idle, Agent!Kill, Agent!device, Agent!files, AgentInv
<1>12. CASE Agent!StopTracing
  BY <1>12 DEF Agent!StopTracing, Agent!Idle, Agent!device, AgentInv
<1>13. CASE Agent!CollectTraceData
  <2>1. alive = {} /\ alive' = {} /\ shell' = 0 /\ shell' \in 0..MaxShells
    BY <1>1, <1>13, ToolsAssumption DEF Agent!ShellAssumption, Agent!CollectTraceData, Agent!Collected
  <2>2. QED
    BY <1>13, <2>1 DEF Agent!CollectTraceData, Agent!Idle, Agent!device, AgentInv
<1>14. CASE Agent!Exit
  <2>1. alive' = {}
    BY <1>1, <1>14 DEF Agent!Exit, Agent!Kill
  <2>2. QED
    BY <1>14, <2>1 DEF Agent!Exit, Agent!Idle, Agent!device, Agent!files, AgentInv
<1>15. CASE Agent!AgentEnds \/ Agent!AgentDies
  <2>1. alive' \subseteq alive /\ UNCHANGED <<shell, started, tracing, Agent!device, flashing, over>>
    BY <1>15 DEF Agent!AgentEnds, Agent!AgentDies
  <2>2. QED
    BY <2>1 DEF Agent!device, AgentInv
<1>16. CASE UNCHANGED agentVars
  BY <1>16 DEF agentVars, Agent!vars, AgentInv
<1>17. QED
  BY <1>4, <1>5, <1>6, <1>7, <1>8, <1>9, <1>10, <1>11, <1>12, <1>13, <1>14, <1>15, <1>16 DEF Agent!Next

\* What the invariant says of the shell.
LEMMA AgentInvImplies == AgentInv => Agent!AgentIsShell /\ Agent!FirmwareIsNew
BY DEF AgentInv, Agent!AgentIsShell, Agent!FirmwareIsNew

\* The types of the shell: a file is asked for, written and returned for traces that were begun.
AgentTypes == Agent!TypeOK /\ traceFile \in Nat /\ wanted \in Nat /\ got \in Nat /\ traces \in Nat

\* The types of the shell hold at first.
LEMMA AgentTypesInit == Agent!Init => AgentTypes
<1>1. 0 \in 0..MaxShells
  BY ToolsAssumption DEF Agent!ShellAssumption
<1>2. 0 \in Nat /\ 0 <= 0
  OBVIOUS
<1>3. ASSUME Agent!Init PROVE traceFile <= traces /\ wanted <= traces /\ got <= traces
  BY <1>2, <1>3 DEF Agent!Init
<1>4. QED
  BY <1>1, <1>2, <1>3 DEF Agent!Init, AgentTypes, Agent!TypeOK

\* Every step of the wrapper, or of its process, keeps the types of the shell.
LEMMA AgentTypesStep == AgentTypes /\ [Agent!Next]_agentVars => AgentTypes'
<1> SUFFICES ASSUME AgentTypes, Agent!Next \/ UNCHANGED agentVars PROVE AgentTypes'
  OBVIOUS
<1>1. ASSUME Agent!Opens
      PROVE  alive' \subseteq 1..MaxShells /\ shell' \in 0..MaxShells /\ started' \in 0..MaxShells
  BY <1>1, ToolsAssumption DEF Agent!ShellAssumption, Agent!Opens, AgentTypes, Agent!TypeOK
<1>2. ASSUME Agent!Close
      PROVE  alive' \subseteq 1..MaxShells /\ shell' \in 0..MaxShells
  BY <1>2, ToolsAssumption DEF Agent!ShellAssumption, Agent!Close, Agent!Reaped, AgentTypes, Agent!TypeOK
<1>3. CASE Agent!StartShell
  BY <1>1, <1>3 DEF Agent!StartShell, Agent!device, Agent!files, AgentTypes, Agent!TypeOK
<1>4. CASE Agent!StopShell
  BY <1>2, <1>4 DEF Agent!StopShell, Agent!device, Agent!files, AgentTypes, Agent!TypeOK
<1>5. CASE Agent!StartTracing \/ Agent!ReadHash
  BY <1>5 DEF Agent!StartTracing, Agent!ReadHash, Agent!device, Agent!files, AgentTypes, Agent!TypeOK
<1>6. CASE Agent!ShellOff
  BY <1>2, <1>6 DEF Agent!ShellOff, Agent!device, Agent!files, AgentTypes, Agent!TypeOK
<1>7. CASE Agent!FlashFirmware
  BY <1>1, <1>7 DEF Agent!FlashFirmware, Agent!files, AgentTypes, Agent!TypeOK
<1>8. CASE Agent!SendStart
  <2>1. traces' \in Nat /\ traces <= traces'
    BY <1>8 DEF Agent!SendStart, AgentTypes
  <2>2. traceFile' \in Nat /\ wanted' \in Nat /\ got' \in Nat /\ traceFile' <= traces' /\ wanted' <= traces' /\ got' <= traces'
    BY <1>8, <2>1 DEF Agent!SendStart, AgentTypes, Agent!TypeOK
  <2>3. alive' \subseteq 1..MaxShells /\ tracing' \in BOOLEAN /\ recording' \in 0..MaxShells /\ flashing' = "no"
        /\ UNCHANGED <<shell, started, Agent!device, over>>
    BY <1>8 DEF Agent!SendStart, Agent!Kill, AgentTypes, Agent!TypeOK
  <2>4. QED
    BY <2>1, <2>2, <2>3 DEF Agent!device, AgentTypes, Agent!TypeOK
<1>9. CASE Agent!RecordClockSyncMarker \/ Agent!Exit
  BY <1>9 DEF Agent!RecordClockSyncMarker, Agent!Exit, Agent!Kill, Agent!device, Agent!files, AgentTypes, Agent!TypeOK
<1>10. CASE Agent!StopTracing
  <2>1. wanted' = traces /\ traces <= traces
    BY <1>10 DEF Agent!StopTracing, AgentTypes
  <2>2. UNCHANGED <<alive, shell, started, recording, Agent!device, flashing, traceFile, got, traces, over>> /\ tracing' = FALSE
    BY <1>10 DEF Agent!StopTracing
  <2>3. QED
    BY <2>1, <2>2 DEF Agent!device, AgentTypes, Agent!TypeOK
<1>11. CASE Agent!CollectTraceData
  <2>1. 0 \in 0..MaxShells
    BY ToolsAssumption DEF Agent!ShellAssumption
  <2>2. QED
    BY <1>11, <2>1 DEF Agent!CollectTraceData, Agent!device, AgentTypes, Agent!TypeOK
<1>12. CASE Agent!AgentEnds
  BY <1>12 DEF Agent!AgentEnds, Agent!device, AgentTypes, Agent!TypeOK
<1>13. CASE Agent!AgentDies
  BY <1>13 DEF Agent!AgentDies, Agent!device, Agent!files, AgentTypes, Agent!TypeOK
<1>14. CASE UNCHANGED agentVars
  BY <1>14 DEF agentVars, Agent!vars, AgentTypes, Agent!TypeOK
<1>15. QED
  BY <1>3, <1>4, <1>5, <1>6, <1>7, <1>8, <1>9, <1>10, <1>11, <1>12, <1>13, <1>14 DEF Agent!Next

-----------------------------------------------------------------------------
(* The BattOr of a phone *)

\* A map gives a phone a device of its own port, which no replugging changes.
PortsFit(m) == \A p \in DOMAIN m : Port[m[p]] = Port[p]

\* What a command reads of the devices that are plugged in.
Plugged == Plugs!Numbers(Plugs!Device)

\* While nothing moves, what was read is as it is, the map fits, and so does the line that was found.
NothingMoved ==
  /\ step \in {"tree", "generate", "tree2", "list", "line"} => kinds = Plugged
  /\ step \in {"generate", "list", "line"} => tree = Plugged
  /\ step \in {"kinds2", "tree2", "list", "line"} /\ op # "file" => PortsFit(map)
  /\ step = "line" => phone \in DOMAIN map /\ map[phone] \in Plugs!Range(tree)

\* The inductive invariant: a device has its own number, a file that was made while nothing moved fits, and it is the map that is used.
PlugsInv ==
  /\ DOMAIN num \subseteq Plugs!Device /\ DOMAIN tty = DOMAIN num \intersect BattOrs
  /\ \A d, e \in DOMAIN num : num[d] = num[e] => d = e
  /\ step \in {"idle", "kinds", "tree", "generate", "kinds2", "tree2", "list", "line"}
  /\ step \in {"kinds", "tree", "generate"} => op # "file"
  /\ step # "idle" => line = Plugs!NoLine
  /\ op = "file" => map = mapFile
  /\ ~fileMoved => PortsFit(mapFile)
  /\ ~moved => NothingMoved
  /\ Plugs!LineIsOfPhone

\* The map's copies of the operators on finite sets are these operators.
LEMMA SameSizes ==
  ASSUME NEW S
  PROVE  Plugs!Cardinality(S) = Cardinality(S) /\ (Plugs!IsFiniteSet(S) => IsFiniteSet(S))
BY DEF Plugs!Cardinality, Cardinality, Plugs!IsFiniteSet, IsFiniteSet

\* NoLine and Failed are no lines.
LEMMA NotLines == Plugs!NoLine \notin Plugs!Lines /\ Plugs!Failed \notin Plugs!Lines
<1>1. Plugs!Cardinality(BattOrs) \in Nat
  BY ToolsAssumption, SameSizes, FS_CardinalityType DEF Plugs!MapAssumption
<1>2. QED
  BY <1>1 DEF Plugs!NoLine, Plugs!Failed, Plugs!Lines

\* What is read gives every number that is in use its device.
LEMMA PluggedGives ==
  ASSUME PlugsInv
  PROVE  /\ DOMAIN Plugged = {num[d] : d \in DOMAIN num}
         /\ \A d \in DOMAIN num : Plugged[num[d]] = d
         /\ Plugs!Range(Plugged) = DOMAIN num
<1>1. DOMAIN num \intersect Plugs!Device = DOMAIN num
  BY DEF PlugsInv
<1>2. Plugged = [n \in {num[d] : d \in DOMAIN num} |-> CHOOSE d \in DOMAIN num : num[d] = n]
  BY <1>1 DEF Plugged, Plugs!Numbers
<1>3. ASSUME NEW d \in DOMAIN num PROVE num[d] \in DOMAIN Plugged /\ Plugged[num[d]] = d
  <2>1. num[d] \in {num[x] : x \in DOMAIN num}
    OBVIOUS
  <2>2. Plugged[num[d]] = CHOOSE x \in DOMAIN num : num[x] = num[d]
    BY <1>2, <2>1
  <2>3. \A x \in DOMAIN num : num[x] = num[d] => x = d
    BY DEF PlugsInv
  <2>4. QED
    BY <1>2, <2>1, <2>2, <2>3
<1>4. DOMAIN Plugged = {num[d] : d \in DOMAIN num} /\ \A d \in DOMAIN num : Plugged[num[d]] = d
  BY <1>2, <1>3
<1>5. ASSUME NEW y \in Plugs!Range(Plugged) PROVE y \in DOMAIN num
  <2>1. PICK n \in DOMAIN Plugged : y = Plugged[n]
    BY DEF Plugs!Range
  <2>2. PICK d \in DOMAIN num : n = num[d]
    BY <1>4, <2>1
  <2>3. QED
    BY <1>4, <2>1, <2>2
<1>6. ASSUME NEW d \in DOMAIN num PROVE d \in Plugs!Range(Plugged)
  BY <1>3 DEF Plugs!Range
<1>7. QED
  BY <1>4, <1>5, <1>6

\* With what was read, the BattOrs on the list are those that are plugged in.
LEMMA ListIsPlugged ==
  ASSUME PlugsInv, kinds = Plugged, tree = Plugged
  PROVE  Plugs!BattOrList = DOMAIN tty /\ Plugs!Serials = DOMAIN tty
<1>1. \A d \in DOMAIN tty : d \in DOMAIN num /\ d \in BattOrs
  BY DEF PlugsInv
<1>2. Plugs!BattOrList = DOMAIN tty
  BY <1>1, PluggedGives DEF Plugs!BattOrList, Plugs!IsBattOr
<1>3. \A d \in DOMAIN tty : tree[num[d]] = d
  BY <1>1, PluggedGives
<1>4. QED
  BY <1>2, <1>3 DEF Plugs!Serials

\* The map that is made of it fits: a phone that has no BattOr on its port ends the lookup.
LEMMA PairsFit ==
  ASSUME PlugsInv, tree = Plugged, NEW b, b \subseteq Plugs!Range(tree), ~Plugs!Clash(b)
  PROVE  PortsFit(Plugs!Pairs(b))
<1>1. SUFFICES ASSUME NEW p \in Plugs!Range(tree) \ b PROVE Port[CHOOSE x \in b : Port[x] = Port[p]] = Port[p]
  BY DEF PortsFit, Plugs!Pairs
<1>2. p \in Plugs!Device /\ p \in DOMAIN Port
  BY PluggedGives, ToolsAssumption DEF PlugsInv, Plugs!MapAssumption, Plugs!Device
<1>3. Port[p] \in Plugs!Range(Port) /\ p \in Plugs!On(Port[p], Plugs!Device \ b)
  BY <1>2 DEF Plugs!Range, Plugs!On
<1>4. Plugs!On(Port[p], b) # {}
  BY <1>3 DEF Plugs!Clash
<1>5. \E x \in b : Port[x] = Port[p]
  BY <1>4 DEF Plugs!On
<1>6. QED
  BY <1>5

\* The invariant holds at first: every map is empty.
LEMMA PlugsInvInit == Plugs!Init => PlugsInv
<1>1. SUFFICES ASSUME Plugs!Init PROVE PlugsInv
  OBVIOUS
<1>2. /\ num \in [Plugs!Device -> 1..MaxNum] /\ tty \in [BattOrs -> Plugs!Lines] /\ step = "idle" /\ op = "none" /\ line = Plugs!NoLine
      /\ \A d, e \in DOMAIN num : num[d] = num[e] => d = e
      /\ DOMAIN mapFile = {}
  BY <1>1 DEF Plugs!Init, Plugs!Numberings, Plugs!Wirings, Plugs!IsInjective, Plugs!Nothing
<1>3. NothingMoved
  BY <1>2 DEF NothingMoved
<1>4. QED
  BY <1>2, <1>3, NotLines DEF PlugsInv, PortsFit, Plugs!LineIsOfPhone, Plugs!Device

\* Plugging in or out gives no number twice.
LEMMA ReplugKeeps ==
  ASSUME PlugsInv, NEW d \in Plugs!Device, Plugs!Replug(d)
  PROVE  PlugsInv'
<1>1. moved' /\ UNCHANGED <<step, map, line, op, mapFile, fileMoved>>
  BY DEF Plugs!Replug, Plugs!lookup
<1>2. /\ DOMAIN num' \subseteq Plugs!Device /\ DOMAIN tty' = DOMAIN num' \intersect BattOrs
      /\ \A x, y \in DOMAIN num' : num'[x] = num'[y] => x = y
  <2>1. CASE d \in DOMAIN num /\ num' = Plugs!Rest(num, d) /\ tty' = Plugs!Rest(tty, d)
    BY <2>1 DEF Plugs!Rest, PlugsInv
  <2>2. CASE d \notin DOMAIN num
    <3>1. PICK n : n \notin Plugs!Range(num) /\ num' = Plugs!Plus(num, d, n)
      BY <2>2 DEF Plugs!Replug
    <3>2. DOMAIN num' = DOMAIN num \union {d} /\ num'[d] = n /\ \A x \in DOMAIN num : num'[x] = num[x] /\ num[x] # n
      BY <2>2, <3>1 DEF Plugs!Plus, Plugs!Range
    <3>3. DOMAIN tty' = DOMAIN num' \intersect BattOrs
      <4>1. CASE d \in BattOrs
        <5>1. PICK t : tty' = Plugs!Plus(tty, d, t)
          BY <2>2, <4>1 DEF Plugs!Replug
        <5>2. QED
          BY <3>2, <4>1, <5>1 DEF Plugs!Plus, PlugsInv
      <4>2. CASE d \notin BattOrs
        BY <2>2, <3>2, <4>2 DEF Plugs!Replug, PlugsInv
      <4>3. QED
        BY <4>1, <4>2
    <3>4. QED
      BY <3>2, <3>3 DEF PlugsInv
  <2>3. QED
    BY <2>1, <2>2 DEF Plugs!Replug
<1>3. QED
  BY <1>1, <1>2 DEF PlugsInv, Plugs!LineIsOfPhone, PortsFit

\* Steps that leave the plugs alone keep what they say.
LEMMA PluggedKept ==
  ASSUME UNCHANGED Plugs!world
  PROVE  Plugged' = Plugged
BY DEF Plugs!world, Plugged, Plugs!Numbers

\* Beginning a lookup, and reading.
LEMMA ReadingKeeps ==
  ASSUME PlugsInv, (\E o \in {"path", "file", "write"}, p \in Phones : Plugs!Begin(o, p)) \/ Plugs!ReadKinds \/ Plugs!ReadTree
  PROVE  PlugsInv'
<1>1. CASE \E o \in {"path", "file", "write"}, p \in Phones : Plugs!Begin(o, p)
  <2>1. /\ line' = Plugs!NoLine /\ UNCHANGED <<num, tty, mapFile, fileMoved>>
        /\ step' \in {"kinds", "kinds2"} /\ (op' = "file" => map' = mapFile /\ step' = "kinds2") /\ (op' # "file" => step' = "kinds")
    BY <1>1 DEF Plugs!Begin
  <2>2. NothingMoved'
    BY <2>1 DEF NothingMoved
  <2>3. QED
    BY <2>1, <2>2, NotLines DEF PlugsInv, Plugs!LineIsOfPhone, PortsFit
<1>2. CASE Plugs!ReadKinds
  <2>1. UNCHANGED <<Plugs!world, tree, map, line, Plugs!lookup>> /\ kinds' = Plugged' /\ line = Plugs!NoLine
        /\ ((step = "kinds" /\ step' = "tree") \/ (step = "kinds2" /\ step' = "tree2"))
    BY <1>2, PluggedKept DEF Plugs!ReadKinds, Plugged, PlugsInv
  <2>2. ~moved => NothingMoved'
    BY <2>1 DEF NothingMoved, PlugsInv, Plugs!lookup, PortsFit
  <2>3. QED
    BY <2>1, <2>2, NotLines DEF PlugsInv, Plugs!LineIsOfPhone, Plugs!world, Plugs!lookup, PortsFit
<1>3. CASE Plugs!ReadTree
  <2>1. UNCHANGED <<Plugs!world, kinds, map, line, Plugs!lookup>> /\ tree' = Plugged' /\ line = Plugs!NoLine /\ Plugged' = Plugged
        /\ ((step = "tree" /\ step' = "generate") \/ (step = "tree2" /\ step' = "list"))
    BY <1>3, PluggedKept DEF Plugs!ReadTree, Plugged, PlugsInv
  <2>2. ~moved => NothingMoved'
    BY <2>1 DEF NothingMoved, PlugsInv, Plugs!lookup, PortsFit
  <2>3. QED
    BY <2>1, <2>2, NotLines DEF PlugsInv, Plugs!LineIsOfPhone, Plugs!world, Plugs!lookup, PortsFit
<1>4. QED
  BY <1>1, <1>2, <1>3

\* Making the map.
LEMMA GenerateKeeps ==
  ASSUME PlugsInv, Plugs!GenerateSerialMap
  PROVE  PlugsInv'
<1>1. UNCHANGED <<Plugs!world, op, phone, kinds, tree>> /\ step = "generate" /\ op # "file" /\ line = Plugs!NoLine /\ Plugged' = Plugged
  BY PluggedKept DEF Plugs!GenerateSerialMap, PlugsInv
<1>2. CASE Plugs!Ends(Plugs!Failed) /\ UNCHANGED <<map, mapFile, fileMoved>>
  <2>1. NothingMoved'
    BY <1>2 DEF NothingMoved, Plugs!Ends
  <2>2. QED
    BY <1>1, <1>2, <2>1, NotLines DEF PlugsInv, Plugs!Ends, Plugs!LineIsOfPhone, Plugs!world, PortsFit
<1>3. CASE /\ map' = IF Plugs!Cardinality(Plugs!Serials) = 1 THEN Plugs!Nothing ELSE Plugs!Pairs(Plugs!Serials)
           /\ Plugs!Cardinality(Plugs!Serials) = 1 \/ ~Plugs!Clash(Plugs!Serials)
           /\ IF op = "write" THEN mapFile' = map' /\ fileMoved' = moved /\ Plugs!Ends(Plugs!NoLine)
                              ELSE step' = "kinds2" /\ UNCHANGED <<mapFile, fileMoved, line>>
  <2>1. ASSUME ~moved PROVE PortsFit(map')
    <3>1. CASE Plugs!Cardinality(Plugs!Serials) = 1
      BY <1>3, <3>1 DEF Plugs!Nothing, PortsFit
    <3>2. CASE Plugs!Cardinality(Plugs!Serials) # 1
      <4>1. kinds = Plugged /\ tree = Plugged
        BY <1>1, <2>1 DEF PlugsInv, NothingMoved
      <4>2. Plugs!Serials \subseteq Plugs!Range(tree)
        BY <4>1, ListIsPlugged, PluggedGives DEF PlugsInv
      <4>3. QED
        BY <1>3, <3>2, <4>1, <4>2, PairsFit
    <3>3. QED
      BY <3>1, <3>2
  <2>2. line' = Plugs!NoLine /\ step' \in {"idle", "kinds2"} /\ (~fileMoved' => PortsFit(mapFile'))
    BY <1>1, <1>3, <2>1 DEF Plugs!Ends, PlugsInv
  <2>3. ~moved' => NothingMoved'
    BY <1>1, <1>3, <2>1, <2>2 DEF NothingMoved, Plugs!world, PortsFit
  <2>4. QED
    BY <1>1, <2>2, <2>3, NotLines DEF PlugsInv, Plugs!LineIsOfPhone, Plugs!world, PortsFit
<1>4. QED
  BY <1>2, <1>3 DEF Plugs!GenerateSerialMap

\* Listing the lines: one BattOr is the answer, with several the map has to know the phone.
LEMMA ListKeeps ==
  ASSUME PlugsInv, Plugs!ListLines
  PROVE  PlugsInv'
<1>1. UNCHANGED <<Plugs!world, kinds, tree, map, Plugs!lookup>> /\ step = "list" /\ line = Plugs!NoLine /\ Plugged' = Plugged
  BY PluggedKept DEF Plugs!ListLines, PlugsInv
<1>2. CASE Plugs!Ends(Plugs!Failed)
  BY <1>1, <1>2, NotLines DEF PlugsInv, NothingMoved, Plugs!Ends, Plugs!LineIsOfPhone, Plugs!world, Plugs!lookup, PortsFit
<1>3. CASE Plugs!Cardinality(Plugs!BattOrList) = 1 /\ Plugs!Ends(tty[CHOOSE d \in Plugs!BattOrList : TRUE])
  <2>1. ASSUME ~moved PROVE \E d \in DOMAIN tty : line' = tty[d] /\ ~(Plugs!Cardinality(DOMAIN tty) > 1)
    <3>1. Plugs!BattOrList = DOMAIN tty
      BY <1>1, <2>1, ListIsPlugged DEF PlugsInv, NothingMoved
    <3>2. DOMAIN tty # {}
      BY <1>3, <3>1, FS_EmptySet, SameSizes
    <3>3. (CHOOSE d \in Plugs!BattOrList : TRUE) \in DOMAIN tty
      BY <3>1, <3>2
    <3>4. ~(Plugs!Cardinality(DOMAIN tty) > 1)
      BY <1>3, <3>1
    <3>5. QED
      BY <1>3, <3>3, <3>4 DEF Plugs!Ends
  <2>2. Plugs!LineIsOfPhone'
    BY <1>1, <2>1 DEF Plugs!LineIsOfPhone, Plugs!world, Plugs!lookup
  <2>3. QED
    BY <1>1, <1>3, <2>2 DEF PlugsInv, NothingMoved, Plugs!Ends, Plugs!world, Plugs!lookup, PortsFit
<1>4. CASE phone \in DOMAIN map /\ map[phone] \in Plugs!Range(tree) /\ step' = "line" /\ UNCHANGED line
  BY <1>1, <1>4, NotLines DEF PlugsInv, NothingMoved, Plugs!LineIsOfPhone, Plugs!world, Plugs!lookup, PortsFit
<1>5. QED
  BY <1>2, <1>3, <1>4 DEF Plugs!ListLines

\* The line that has the number of the phone's BattOr is that BattOr's.
LEMMA FindKeeps ==
  ASSUME PlugsInv, Plugs!FindLine
  PROVE  PlugsInv'
<1> DEFINE n == CHOOSE g \in DOMAIN tree : tree[g] = map[phone]
           lines == {d \in DOMAIN tty : num[d] = n}
           found == CHOOSE d \in lines : TRUE
<1>1. UNCHANGED <<Plugs!world, kinds, tree, map, Plugs!lookup>> /\ step = "line" /\ line = Plugs!NoLine
      /\ (Plugs!Ends(Plugs!Failed) \/ (lines # {} /\ Plugs!Ends(tty[found])))
  BY DEF Plugs!FindLine, PlugsInv
<1>2. CASE Plugs!Ends(Plugs!Failed)
  BY <1>1, <1>2, NotLines DEF PlugsInv, NothingMoved, Plugs!Ends, Plugs!LineIsOfPhone, Plugs!world, Plugs!lookup, PortsFit
<1>3. CASE lines # {} /\ Plugs!Ends(tty[found])
  <2>1. ASSUME ~moved, ~(op = "file" /\ fileMoved) PROVE found \in DOMAIN tty /\ Port[found] = Port[phone]
    <3>1. tree = Plugged /\ phone \in DOMAIN map /\ map[phone] \in Plugs!Range(tree)
      BY <1>1, <2>1 DEF PlugsInv, NothingMoved
    <3>2. n \in DOMAIN tree /\ tree[n] = map[phone]
      BY <3>1 DEF Plugs!Range
    <3>3. found \in DOMAIN tty /\ num[found] = n /\ found \in DOMAIN num
      BY <1>3 DEF PlugsInv
    <3>4. found = map[phone]
      BY <3>1, <3>2, <3>3, PluggedGives
    <3>5. PortsFit(map)
      BY <1>1, <2>1 DEF PlugsInv, NothingMoved
    <3>6. QED
      BY <3>1, <3>3, <3>4, <3>5 DEF PortsFit
  <2>2. Plugs!LineIsOfPhone'
    BY <1>1, <1>3, <2>1 DEF Plugs!LineIsOfPhone, Plugs!world, Plugs!lookup, Plugs!Ends
  <2>3. QED
    BY <1>1, <1>3, <2>2 DEF PlugsInv, NothingMoved, Plugs!Ends, Plugs!world, Plugs!lookup, PortsFit
<1>4. QED
  BY <1>1, <1>2, <1>3

\* Every step of a plug or of a lookup keeps the invariant.
LEMMA PlugsInvStep == PlugsInv /\ [Plugs!Next]_plugVars => PlugsInv'
<1>1. ASSUME PlugsInv, UNCHANGED plugVars PROVE PlugsInv'
  <2>1. Plugged' = Plugged
    BY <1>1, PluggedKept DEF plugVars, Plugs!vars, Plugs!world
  <2>2. QED
    BY <1>1, <2>1 DEF plugVars, Plugs!vars, PlugsInv, NothingMoved, Plugs!LineIsOfPhone, PortsFit
<1>2. QED
  BY <1>1, ReplugKeeps, ReadingKeeps, GenerateKeeps, ListKeeps, FindKeeps DEF Plugs!Next

\* What the invariant says of the line.
LEMMA PlugsInvImplies == PlugsInv => Plugs!LineIsOfPhone
BY DEF PlugsInv

\* The types of the map: what stands in the tree is a device.
PlugsTypes == Plugs!TypeOK /\ Plugs!Range(tree) \subseteq Plugs!Device

\* Every line, and either way to have none, is a result.
LEMMA LinesAreResults == Plugs!Lines \subseteq 0..Plugs!Failed /\ Plugs!NoLine \in 0..Plugs!Failed /\ Plugs!Failed \in 0..Plugs!Failed
<1>1. Plugs!Cardinality(BattOrs) \in Nat
  BY ToolsAssumption, SameSizes, FS_CardinalityType DEF Plugs!MapAssumption
<1>2. QED
  BY <1>1 DEF Plugs!NoLine, Plugs!Failed, Plugs!Lines

\* The types of the map hold at first.
LEMMA PlugsTypesInit == Plugs!Init => PlugsTypes
<1> SUFFICES ASSUME Plugs!Init PROVE PlugsTypes
  OBVIOUS
<1>1. num \in [Plugs!Device -> 1..MaxNum] /\ tty \in [BattOrs -> Plugs!Lines]
  BY DEF Plugs!Init, Plugs!Numberings, Plugs!Wirings
<1>2. DOMAIN num \intersect BattOrs = BattOrs
  BY <1>1 DEF Plugs!Device
<1>3. DOMAIN Plugs!Nothing = {} /\ Plugs!Range(Plugs!Nothing) = {}
  BY DEF Plugs!Nothing, Plugs!Range
<1>4. 0 \in 0..MaxReplugs
  BY ToolsAssumption DEF Plugs!MapAssumption
<1>5. line \in 0..Plugs!Failed
  BY LinesAreResults DEF Plugs!Init
<1>6. DOMAIN map \subseteq Plugs!Device /\ DOMAIN mapFile \subseteq Plugs!Device /\ Plugs!Range(tree) \subseteq Plugs!Device
  BY <1>3 DEF Plugs!Init
<1>7. QED
  BY <1>1, <1>2, <1>4, <1>5, <1>6 DEF Plugs!Init, PlugsTypes, Plugs!TypeOK

\* What is read are devices.
LEMMA NumbersAreDevices == ASSUME PlugsTypes, NEW set PROVE Plugs!Range(Plugs!Numbers(set)) \subseteq Plugs!Device
<1> DEFINE f == [n \in {num[d] : d \in DOMAIN num \intersect set} |-> CHOOSE d \in DOMAIN num : num[d] = n]
<1>1. ASSUME NEW n \in DOMAIN f PROVE f[n] \in Plugs!Device
  <2>1. \E d \in DOMAIN num : num[d] = n
    BY <1>1
  <2>2. f[n] \in DOMAIN num
    BY <1>1, <2>1
  <2>3. QED
    BY <2>2 DEF PlugsTypes, Plugs!TypeOK
<1>2. Plugs!Numbers(set) = f
  BY DEF Plugs!Numbers
<1> HIDE DEF f
<1>3. QED
  BY <1>1, <1>2 DEF Plugs!Range

\* A device that is plugged in has a number and, if it is a BattOr, a line.
LEMMA ReplugTypes == ASSUME PlugsTypes, NEW d \in Plugs!Device, Plugs!Replug(d) PROVE PlugsTypes'
<1>1. /\ UNCHANGED <<step, kinds, tree, map, line, op, phone, mapFile, fileMoved>> /\ moved' = TRUE
      /\ replugs' = replugs + 1 /\ replugs < MaxReplugs
  BY DEF Plugs!Replug, Plugs!lookup
<1>2. replugs' \in 0..MaxReplugs
  BY <1>1, ToolsAssumption DEF Plugs!MapAssumption, PlugsTypes, Plugs!TypeOK
<1>3. DOMAIN tty = DOMAIN num \intersect BattOrs /\ (\A x \in DOMAIN num : num[x] \in 1..MaxNum) /\ (\A x \in DOMAIN tty : tty[x] \in Plugs!Lines)
      /\ DOMAIN num \subseteq Plugs!Device
  BY DEF PlugsTypes, Plugs!TypeOK
<1>4. /\ DOMAIN num' \subseteq Plugs!Device /\ \A x \in DOMAIN num' : num'[x] \in 1..MaxNum
      /\ DOMAIN tty' = DOMAIN num' \intersect BattOrs /\ \A x \in DOMAIN tty' : tty'[x] \in Plugs!Lines
  <2>1. CASE d \in DOMAIN num /\ num' = Plugs!Rest(num, d) /\ tty' = Plugs!Rest(tty, d)
    BY <1>3, <2>1 DEF Plugs!Rest
  <2>2. CASE d \notin DOMAIN num
    <3>1. PICK n \in 1..MaxNum : num' = Plugs!Plus(num, d, n)
      BY <2>2 DEF Plugs!Replug
    <3>2. DOMAIN num' = DOMAIN num \union {d} /\ \A x \in DOMAIN num' : num'[x] \in 1..MaxNum
      BY <1>3, <3>1 DEF Plugs!Plus
    <3>3. CASE d \in BattOrs
      <4>1. PICK t \in Plugs!Lines : tty' = Plugs!Plus(tty, d, t)
        BY <2>2, <3>3 DEF Plugs!Replug
      <4>2. QED
        BY <1>3, <3>2, <3>3, <4>1 DEF Plugs!Plus
    <3>4. CASE d \notin BattOrs
      BY <1>3, <2>2, <3>2, <3>4 DEF Plugs!Replug
    <3>5. QED
      BY <3>3, <3>4
  <2>3. QED
    BY <2>1, <2>2 DEF Plugs!Replug
<1>5. QED
  BY <1>1, <1>2, <1>4 DEF PlugsTypes, Plugs!TypeOK

\* The lines that are found are lines.
LEMMA FoundTypes == ASSUME PlugsTypes, Plugs!ListLines \/ Plugs!FindLine PROVE PlugsTypes'
<1>1. \A d \in DOMAIN tty : tty[d] \in 0..Plugs!Failed
  BY LinesAreResults DEF PlugsTypes, Plugs!TypeOK
<1>2. line' \in 0..Plugs!Failed /\ step' \in {"idle", "line"}
  <2>1. CASE Plugs!ListLines
    <3>1. Plugs!Cardinality(Plugs!BattOrList) = 1 => Plugs!BattOrList # {}
      BY FS_EmptySet, SameSizes
    <3>2. Plugs!Cardinality(Plugs!BattOrList) = 1 => (CHOOSE d \in Plugs!BattOrList : TRUE) \in DOMAIN tty
      BY <3>1 DEF Plugs!BattOrList
    <3>3. QED
      BY <1>1, <2>1, <3>2, LinesAreResults DEF Plugs!ListLines, Plugs!Ends, PlugsTypes, Plugs!TypeOK
  <2>2. CASE Plugs!FindLine
    <3> DEFINE n == CHOOSE x \in DOMAIN tree : tree[x] = map[phone]
               lines == {d \in DOMAIN tty : num[d] = n}
    <3>1. lines # {} => (CHOOSE d \in lines : TRUE) \in DOMAIN tty
      OBVIOUS
    <3>2. (step' = "idle" /\ line' = Plugs!Failed) \/ (lines # {} /\ step' = "idle" /\ line' = tty[CHOOSE d \in lines : TRUE])
      BY <2>2 DEF Plugs!FindLine, Plugs!Ends
    <3>3. QED
      BY <1>1, <3>1, <3>2, LinesAreResults
  <2>3. QED
    BY <2>1, <2>2
<1>3. UNCHANGED <<num, tty, replugs, moved, kinds, tree, map, op, phone, mapFile, fileMoved>>
  BY DEF Plugs!ListLines, Plugs!FindLine, Plugs!world, Plugs!lookup
<1>4. QED
  BY <1>2, <1>3 DEF PlugsTypes, Plugs!TypeOK

\* A map is of phones that stand in the tree.
LEMMA GenerateTypes == ASSUME PlugsTypes, Plugs!GenerateSerialMap PROVE PlugsTypes'
<1>1. DOMAIN Plugs!Nothing = {} /\ \A b : DOMAIN Plugs!Pairs(b) \subseteq Plugs!Device
  BY DEF Plugs!Nothing, Plugs!Pairs, PlugsTypes
<1>2. /\ UNCHANGED <<num, tty, replugs, moved, op, phone, kinds, tree>>
      /\ map' \in {map, Plugs!Nothing, Plugs!Pairs(Plugs!Serials)} /\ mapFile' \in {mapFile, map'} /\ fileMoved' \in {fileMoved, moved}
      /\ step' \in {"idle", "kinds2"} /\ line' \in {line, Plugs!Failed, Plugs!NoLine}
  BY DEF Plugs!GenerateSerialMap, Plugs!Ends, Plugs!world
<1>3. DOMAIN map' \subseteq Plugs!Device /\ DOMAIN mapFile' \subseteq Plugs!Device
  BY <1>1, <1>2 DEF PlugsTypes, Plugs!TypeOK
<1>4. line' \in 0..Plugs!Failed /\ fileMoved' \in BOOLEAN
  BY <1>2, LinesAreResults DEF PlugsTypes, Plugs!TypeOK
<1>5. QED
  BY <1>2, <1>3, <1>4 DEF PlugsTypes, Plugs!TypeOK

\* Every step of the lookup, and every plug, keeps the types of the map.
LEMMA PlugsTypesStep == PlugsTypes /\ [Plugs!Next]_plugVars => PlugsTypes'
<1> SUFFICES ASSUME PlugsTypes, Plugs!Next \/ UNCHANGED plugVars PROVE PlugsTypes'
  OBVIOUS
<1>1. CASE \E d \in Plugs!Device : Plugs!Replug(d)
  BY <1>1, ReplugTypes
<1>2. ASSUME NEW o \in {"path", "file", "write"}, NEW p \in Phones, Plugs!Begin(o, p) PROVE PlugsTypes'
  <2>1. /\ UNCHANGED <<num, tty, replugs, kinds, tree, mapFile, fileMoved>> /\ op' = o /\ phone' = p /\ moved' = FALSE
        /\ line' = Plugs!NoLine /\ step' \in {"kinds", "kinds2"} /\ map' \in {mapFile, Plugs!Nothing}
    BY <1>2 DEF Plugs!Begin
  <2>2. DOMAIN map' \subseteq Plugs!Device
    BY <2>1 DEF Plugs!Nothing, PlugsTypes, Plugs!TypeOK
  <2>3. QED
    BY <2>1, <2>2, LinesAreResults DEF PlugsTypes, Plugs!TypeOK
<1>3. CASE Plugs!ReadKinds
  BY <1>3 DEF Plugs!ReadKinds, Plugs!world, Plugs!lookup, PlugsTypes, Plugs!TypeOK
<1>4. CASE Plugs!ReadTree
  <2>1. Plugs!Range(tree') \subseteq Plugs!Device
    BY <1>4, NumbersAreDevices DEF Plugs!ReadTree
  <2>2. QED
    BY <1>4, <2>1 DEF Plugs!ReadTree, Plugs!world, Plugs!lookup, PlugsTypes, Plugs!TypeOK
<1>5. CASE Plugs!GenerateSerialMap
  BY <1>5, GenerateTypes
<1>6. CASE Plugs!ListLines \/ Plugs!FindLine
  BY <1>6, FoundTypes
<1>7. CASE UNCHANGED plugVars
  BY <1>7 DEF plugVars, Plugs!vars, PlugsTypes, Plugs!TypeOK
<1>8. QED
  BY <1>1, <1>2, <1>3, <1>4, <1>5, <1>6, <1>7 DEF Plugs!Next

-----------------------------------------------------------------------------
(* The trace log *)

\* An event is its process and its number; the tokens hold sequences of them.
Event == Log!Process \X Nat
Token == [mark : {"[", ",", "events"}, events : Seq(Event)]

\* The tokens that have an event.
InFile(e) == \E x \in DOMAIN logFile : e \in Log!Range(logFile[x].events)

LogTypes ==
  /\ forked \in {"no", "runs", "ended", "terminated"} /\ clash \in BOOLEAN
  /\ enabled \in [Log!Process -> BOOLEAN] /\ owner \in [Log!Process -> Log!Process \union {"none"}]
  /\ lock \in [Log!Process -> Log!Thread \union {"free", "lost"}] /\ flock \in {"free", "own", "shared"}
  /\ at \in [Log!Thread -> {"idle", "locked", "begin", "write", "end"}] /\ flush \in [Log!Thread -> {"flush", "close", "last"}]
  /\ added \in [Log!Process -> Nat] /\ buffer \in [Log!Process -> Seq(Event)] /\ logFile \in Seq(Token)
  /\ copied \subseteq Event

\* A thread that flushes has its process's lock.  Only the child ends with its flush, and before the fork it does nothing.
LocksHeld ==
  /\ \A t \in Log!Thread : at[t] # "idle" => lock[Log!Of(t)] = t
  /\ \A t \in Log!Thread : flush[t] = "last" => t = "child"
  /\ forked = "no" => at["child"] = "idle" /\ added["child"] = 0 /\ copied = {}

\* Unless writers clashed, one thread is at the file, with the file's lock, and the file is as far as that thread is.
OneAtTheFile ==
  ~clash =>
    /\ \A t, u \in Log!Thread : Log!Inside(t) /\ Log!Inside(u) => t = u
    /\ \A t \in Log!Thread : Log!Inside(t) => flock = Log!Open(t) /\ logFile # <<>>
    /\ Log!WellFormed
    /\ \A t \in Log!Thread : at[t] = "write" => Len(logFile) % 2 = 0
    /\ (\A t \in Log!Thread : at[t] # "write") => logFile = <<>> \/ Len(logFile) % 2 = 1

\* Who traces has opened the list.
ListIsOpen == logFile = <<>> => \A p \in Log!Process : ~enabled[p] /\ \A t \in Log!Thread : at[t] = "idle"

\* A buffer holds events of its process; only the child's may hold its parent's, until it has added one of its own.
BuffersFit ==
  /\ \A p \in Log!Process : \A e \in Log!Range(buffer[p]) : e[2] \in 1..added[e[1]] /\ (e[1] = p \/ (p = "child" /\ owner[p] # p /\ e[1] = "main"))
  /\ \A p \in Log!Process : owner[p] # p => added[p] = 0
  /\ \A p \in {"main", "other"} : owner[p] \in {p, "none"}
  /\ owner["child"] # "child" /\ buffer["child"] # <<>> => copied = {}
  /\ \A t \in Log!Thread : at[t] \in {"begin", "write"} => buffer[Log!Of(t)] # <<>>

\* The file has events that were added; those that are still in their process's buffer it has only as copies.
OnceInFile ==
  /\ \A x \in DOMAIN logFile : \A e \in Log!Range(logFile[x].events) : e[2] \in 1..added[e[1]]
  /\ \A p \in Log!Process : \A e \in Log!Range(buffer[p]) : e[1] = p /\ InFile(e) => e \in copied
  /\ \A j, x \in DOMAIN logFile : \A e \in Log!Range(logFile[j].events) : e \in Log!Range(logFile[x].events) /\ j # x => e \in copied

\* No event is lost: it is in the file or in its process's buffer, and who leaves leaves no buffer.
NothingMissing ==
  /\ \A p \in Log!Process : \A n \in 1..added[p] : InFile(<<p, n>>) \/ <<p, n>> \in Log!Range(buffer[p])
  /\ \A t \in Log!Thread : at[t] = "end" => buffer[Log!Of(t)] = <<>>
  /\ \A p \in {"main", "other"} : added[p] > 0 /\ ~enabled[p] /\ lock[p] = "free" => buffer[p] = <<>>
  /\ forked = "ended" => buffer["child"] = <<>>

\* What is known of the log.
LogInv == LogTypes /\ LocksHeld /\ OneAtTheFile /\ ListIsOpen /\ BuffersFit /\ OnceInFile /\ NothingMissing

\* What a sequence of events has after one more.
LEMMA RangeGrows ==
  ASSUME NEW s \in Seq(Event), NEW e \in Event
  PROVE  /\ Append(s, e) \in Seq(Event) /\ Append(s, e) # <<>>
         /\ Log!Range(Append(s, e)) = Log!Range(s) \union {e}
<1>1. DOMAIN Append(s, e) = DOMAIN s \union {Len(s) + 1} /\ Append(s, e)[Len(s) + 1] = e /\ \A x \in DOMAIN s : Append(s, e)[x] = s[x]
  OBVIOUS
<1>2. QED
  BY <1>1 DEF Log!Range

\* An empty sequence has no element, and the elements of a sequence of events are events.
LEMMA RangeOfSeqs ==
  /\ <<>> \in Seq(Event) /\ Log!Range(<<>>) = {}
  /\ \A s \in Seq(Event) : Log!Range(s) \subseteq Event
BY DEF Log!Range

\* A sequence of one.
LEMMA OneToken == ASSUME NEW S, NEW x \in S PROVE <<x>> \in Seq(S)
OBVIOUS

\* Half of the numbers are even.
LEMMA Parity == 0 % 2 = 0 /\ \A n \in Nat : (n % 2 = 1 => (n + 1) % 2 = 0) /\ (n % 2 = 0 => (n + 1) % 2 = 1)
OBVIOUS

\* The file after one more token.
LEMMA FileGrows ==
  ASSUME logFile \in Seq(Token), NEW w \in Token, logFile' = Append(logFile, w)
  PROVE  /\ logFile' \in Seq(Token) /\ logFile' # <<>> /\ Len(logFile) \in Nat /\ Len(logFile') = Len(logFile) + 1
         /\ DOMAIN logFile = 1..Len(logFile) /\ DOMAIN logFile' = 1..Len(logFile) + 1 /\ DOMAIN logFile \subseteq DOMAIN logFile'
         /\ \A x \in DOMAIN logFile' : x \in DOMAIN logFile \/ x = Len(logFile) + 1
         /\ logFile'[Len(logFile) + 1] = w /\ \A x \in DOMAIN logFile : logFile'[x] = logFile[x]
OBVIOUS

\* The tokens are tokens.
LEMMA Tokens == /\ Log!Mark("[") \in Token /\ Log!Mark(",") \in Token
                /\ Log!Range(Log!Mark("[").events) = {} /\ Log!Range(Log!Mark(",").events) = {}
                /\ \A s \in Seq(Event) : Log!Batch(s) \in Token /\ Log!Batch(s).events = s /\ Log!Batch(s).mark = "events"
BY RangeOfSeqs DEF Log!Mark, Log!Batch, Token

\* Each thread is of a process.
LEMMA OfProcess == \A t \in Log!Thread : Log!Of(t) \in Log!Process /\ (t = "child" <=> Log!Of(t) = "child") /\ Log!Open(t) \in {"own", "shared"}
BY DEF Log!Thread, Log!Process, Log!Of, Log!Open

\* The invariant holds at first.
LEMMA LogInvInit == Log!Init => LogInv
<1> SUFFICES ASSUME Log!Init PROVE LogInv
  OBVIOUS
<1>1. LogTypes
  <2>1. <<>> \in Seq(Token) /\ <<>> \in Seq(Event)
    OBVIOUS
  <2>2. QED
    BY <2>1 DEF Log!Init, LogTypes, Log!Process
<1>2. LocksHeld /\ OneAtTheFile /\ ListIsOpen
  BY DEF Log!Init, LocksHeld, OneAtTheFile, ListIsOpen, Log!Inside, Log!WellFormed, Log!Process, Log!Thread
<1>3. BuffersFit /\ OnceInFile /\ NothingMissing
  BY RangeOfSeqs DEF Log!Init, BuffersFit, OnceInFile, NothingMissing, Log!Process, Log!Thread, InFile, Log!Of
<1>4. QED
  BY <1>1, <1>2, <1>3 DEF LogInv

\* Enabling opens the list.
LEMMA EnableKeeps ==
  ASSUME LogInv, NEW p \in Log!Process, Log!Enable(p)
  PROVE  LogInv'
<1>1. LogTypes'
  <2>1. logFile \in Seq(Token) => <<Log!Mark("[")>> \in Seq(Token)
    BY Tokens, OneToken
  <2>2. QED
    BY <2>1 DEF LogInv, LogTypes, Log!Enable
<1>2. LocksHeld'
  BY DEF LogInv, LocksHeld, Log!Enable
<1>3. OneAtTheFile'
  <2>1. CASE logFile = <<>>
    <3>1. \A t \in Log!Thread : at[t] = "idle"
      BY <2>1 DEF LogInv, ListIsOpen, Log!Process
    <3>2. logFile' = <<Log!Mark("[")>> /\ at' = at
      BY <2>1 DEF Log!Enable
    <3>3. Len(logFile') = 1 /\ DOMAIN logFile' = {1} /\ logFile'[1].mark = "["
      BY <3>2 DEF Log!Mark
    <3>4. QED
      BY <3>1, <3>2, <3>3 DEF OneAtTheFile, Log!Inside, Log!WellFormed
  <2>2. CASE logFile # <<>>
    BY <2>2 DEF LogInv, Log!Enable, OneAtTheFile, Log!Inside, Log!WellFormed
  <2>3. QED
    BY <2>1, <2>2
<1>4. ListIsOpen'
  BY DEF LogInv, ListIsOpen, Log!Enable
<1>5. \A e : InFile(e)' <=> InFile(e)
  <2>1. CASE logFile = <<>>
    <3>1. logFile' = <<Log!Mark("[")>>
      BY <2>1 DEF Log!Enable
    <3>2. DOMAIN logFile' = {1} /\ logFile'[1] = Log!Mark("[")
      BY <3>1
    <3>3. \A x \in DOMAIN logFile' : Log!Range(logFile'[x].events) = {}
      BY <3>2, Tokens
    <3>4. DOMAIN logFile = {}
      BY <2>1
    <3>5. QED
      BY <3>3, <3>4 DEF InFile
  <2>2. CASE logFile # <<>>
    BY <2>2 DEF Log!Enable, InFile
  <2>3. QED
    BY <2>1, <2>2
<1>6. BuffersFit'
  BY DEF LogInv, BuffersFit, Log!Enable
<1>7. OnceInFile'
  <2>1. CASE logFile = <<>>
    <3>1. logFile' = <<Log!Mark("[")>>
      BY <2>1 DEF Log!Enable
    <3>2. DOMAIN logFile' = {1} /\ logFile'[1] = Log!Mark("[")
      BY <3>1
    <3>3. \A x \in DOMAIN logFile' : Log!Range(logFile'[x].events) = {}
      BY <3>2, Tokens
    <3>4. UNCHANGED <<buffer, added, copied>>
      BY DEF Log!Enable
    <3>5. \A q \in Log!Process : \A e \in Log!Range(buffer'[q]) : e[1] = q /\ InFile(e)' => e \in copied'
      BY <1>5, <3>4 DEF LogInv, OnceInFile
    <3>6. QED
      BY <3>3, <3>5 DEF OnceInFile
  <2>2. CASE logFile # <<>>
    <3>1. UNCHANGED <<logFile, buffer, added, copied>>
      BY <2>2 DEF Log!Enable
    <3>2. QED
      BY <3>1, <1>5 DEF LogInv, OnceInFile
  <2>3. QED
    BY <2>1, <2>2
<1>8. NothingMissing'
  BY <1>5 DEF LogInv, NothingMissing, Log!Enable, LogTypes
<1>9. QED
  BY <1>1, <1>2, <1>3, <1>4, <1>6, <1>7, <1>8 DEF LogInv

\* An event that is added is new, and goes into the buffer of its process.
LEMMA AddEventKeeps ==
  ASSUME LogInv, NEW t \in Log!Thread, Log!Add(t)
  PROVE  LogInv'
<1>1. Log!Of(t) \in Log!Process /\ lock[Log!Of(t)] = "free" /\ enabled[Log!Of(t)]
  BY OfProcess DEF Log!Add
<1>2. <<Log!Of(t), added[Log!Of(t)] + 1>> \in Event /\ Log!Kept(Log!Of(t)) \in Seq(Event)
  BY <1>1, RangeOfSeqs DEF LogInv, LogTypes, Event, Log!Kept
<1>3. Append(Log!Kept(Log!Of(t)), <<Log!Of(t), added[Log!Of(t)] + 1>>) \in Seq(Event) /\ Append(Log!Kept(Log!Of(t)), <<Log!Of(t), added[Log!Of(t)] + 1>>) # <<>>
  BY <1>2, RangeGrows
<1>4. buffer'[Log!Of(t)] = Append(Log!Kept(Log!Of(t)), <<Log!Of(t), added[Log!Of(t)] + 1>>)
  BY <1>1 DEF LogInv, LogTypes, Log!Add
<1>5. \A q \in Log!Process : q # Log!Of(t) => buffer'[q] = buffer[q] /\ added'[q] = added[q] /\ owner'[q] = owner[q]
  BY <1>1 DEF LogInv, LogTypes, Log!Add
<1>6. added'[Log!Of(t)] = added[Log!Of(t)] + 1 /\ owner'[Log!Of(t)] = Log!Of(t) /\ added[Log!Of(t)] \in Nat
  BY <1>1 DEF LogInv, LogTypes, Log!Add
<1>7. Log!Range(buffer'[Log!Of(t)]) = Log!Range(Log!Kept(Log!Of(t))) \union {<<Log!Of(t), added[Log!Of(t)] + 1>>}
  BY <1>2, <1>4, RangeGrows
<1>8. \A e \in Log!Range(Log!Kept(Log!Of(t))) : e \in Log!Range(buffer[Log!Of(t)]) /\ e[1] = Log!Of(t)
  <2>1. CASE owner[Log!Of(t)] = Log!Of(t)
    BY <1>1, <2>1 DEF LogInv, BuffersFit, Log!Kept
  <2>2. CASE owner[Log!Of(t)] # Log!Of(t)
    BY <2>2, RangeOfSeqs DEF Log!Kept
  <2>3. QED
    BY <2>1, <2>2
<1>9. UNCHANGED <<forked, enabled, lock, flock, at, flush, copied, logFile, clash>>
  BY DEF Log!Add
<1>10. LogTypes'
  BY <1>1, <1>3, <1>9 DEF LogInv, LogTypes, Log!Add
<1>11. LocksHeld'
  <2>1. Log!Runs(t) => (forked = "no" => Log!Of(t) # "child")
    BY OfProcess DEF Log!Runs
  <2>2. QED
    BY <1>5, <1>9, <2>1 DEF LogInv, LocksHeld, Log!Add, Log!Process
<1>12. OneAtTheFile' /\ ListIsOpen'
  BY <1>1, <1>9 DEF LogInv, OneAtTheFile, ListIsOpen, Log!Inside, Log!WellFormed
<1>13. BuffersFit'
  <2>1. ASSUME NEW q \in Log!Process, NEW e \in Log!Range(buffer'[q])
        PROVE  e[2] \in 1..added'[e[1]] /\ (e[1] = q \/ (q = "child" /\ owner'[q] # q /\ e[1] = "main"))
    <3>1. CASE q = Log!Of(t) /\ e = <<Log!Of(t), added[Log!Of(t)] + 1>>
      BY <1>6, <3>1
    <3>2. CASE q = Log!Of(t) /\ e \in Log!Range(Log!Kept(Log!Of(t)))
      <4>1. e[2] \in 1..added[q] /\ e[1] = q
        BY <1>1, <1>8, <3>2 DEF LogInv, BuffersFit
      <4>2. QED
        BY <1>6, <3>2, <4>1
    <3>3. CASE q # Log!Of(t)
      <4>1. e \in Log!Range(buffer[q]) /\ owner'[q] = owner[q]
        BY <1>5, <3>3
      <4>2. e[1] \in Log!Process /\ e[2] \in 1..added[e[1]] /\ (e[1] = q \/ (q = "child" /\ owner'[q] # q /\ e[1] = "main"))
        BY <4>1 DEF LogInv, BuffersFit, Log!Process
      <4>3. added'[e[1]] = added[e[1]] \/ added'[e[1]] = added[e[1]] + 1
        BY <1>5, <1>6, <4>2
      <4>4. added[e[1]] \in Nat
        BY <4>2 DEF LogInv, LogTypes
      <4>5. QED
        BY <4>2, <4>3, <4>4
    <3>4. QED
      BY <1>7, <3>1, <3>2, <3>3
  <2>2. \A q \in Log!Process : owner'[q] # q => added'[q] = 0
    BY <1>5, <1>6 DEF LogInv, BuffersFit
  <2>3. \A q \in {"main", "other"} : owner'[q] \in {q, "none"}
    BY <1>5, <1>6 DEF LogInv, BuffersFit, Log!Process
  <2>4. owner'["child"] # "child" /\ buffer'["child"] # <<>> => copied' = {}
    BY <1>5, <1>6, <1>9 DEF LogInv, BuffersFit, Log!Process
  <2>5. \A u \in Log!Thread : at'[u] \in {"begin", "write"} => buffer'[Log!Of(u)] # <<>>
    BY <1>3, <1>4, <1>5, <1>9, OfProcess DEF LogInv, BuffersFit
  <2>6. QED
    BY <2>1, <2>2, <2>3, <2>4, <2>5 DEF BuffersFit
<1>14. \A e : InFile(e)' <=> InFile(e)
  BY <1>9 DEF InFile
<1>15. OnceInFile'
  <2>1. ~InFile(<<Log!Of(t), added[Log!Of(t)] + 1>>)
    BY <1>6 DEF LogInv, OnceInFile, InFile
  <2>2. ASSUME NEW x \in DOMAIN logFile, NEW e \in Log!Range(logFile[x].events)
        PROVE  e[2] \in 1..added'[e[1]]
    <3>1. e[2] \in 1..added[e[1]]
      BY <2>2 DEF LogInv, OnceInFile
    <3>2. e[1] \in Log!Process
      <4>1. logFile[x] \in Token
        BY DEF LogInv, LogTypes
      <4>2. e \in Event
        BY <4>1, RangeOfSeqs DEF Token
      <4>3. QED
        BY <4>2 DEF Event
    <3>3. added[e[1]] \in Nat /\ (added'[e[1]] = added[e[1]] \/ added'[e[1]] = added[e[1]] + 1)
      BY <1>5, <1>6, <3>2 DEF LogInv, LogTypes
    <3>4. QED
      BY <3>1, <3>3
  <2>3. ASSUME NEW q \in Log!Process, NEW e \in Log!Range(buffer'[q]), e[1] = q, InFile(e)
        PROVE  e \in copied
    <3>1. e \in Log!Range(buffer[q])
      BY <1>5, <1>7, <1>8, <2>1, <2>3
    <3>2. QED
      BY <2>3, <3>1 DEF LogInv, OnceInFile
  <2>4. QED
    BY <1>9, <1>14, <2>2, <2>3 DEF LogInv, OnceInFile
<1>16. NothingMissing'
  <2>1. ASSUME NEW q \in Log!Process, NEW n \in 1..added'[q]
        PROVE  InFile(<<q, n>>) \/ <<q, n>> \in Log!Range(buffer'[q])
    <3>1. CASE q # Log!Of(t)
      BY <1>5, <2>1, <3>1 DEF LogInv, NothingMissing
    <3>2. CASE q = Log!Of(t) /\ n = added[q] + 1
      BY <1>7, <3>2
    <3>3. CASE q = Log!Of(t) /\ n \in 1..added[q]
      <4>1. owner[q] = q
        <5>1. added[q] # 0
          BY <1>6, <3>3
        <5>2. QED
          BY <5>1 DEF LogInv, BuffersFit
      <4>2. Log!Kept(q) = buffer[q]
        BY <4>1 DEF Log!Kept
      <4>3. QED
        BY <1>7, <3>3, <4>2 DEF LogInv, NothingMissing
    <3>4. QED
      BY <1>6, <2>1, <3>1, <3>2, <3>3
  <2>2. \A u \in Log!Thread : at'[u] = "end" => Log!Of(u) # Log!Of(t)
    BY <1>1, <1>9 DEF LogInv, LocksHeld, Log!Thread
  <2>3. \A u \in Log!Thread : at'[u] = "end" => buffer'[Log!Of(u)] = <<>>
    BY <1>5, <1>9, <2>2, OfProcess DEF LogInv, NothingMissing
  <2>4. \A q \in {"main", "other"} : added'[q] > 0 /\ ~enabled'[q] /\ lock'[q] = "free" => buffer'[q] = <<>>
    BY <1>1, <1>5, <1>9 DEF LogInv, NothingMissing, Log!Process
  <2>5. forked' = "ended" => buffer'["child"] = <<>>
    <3>1. forked = "ended" => Log!Of(t) # "child"
      BY OfProcess DEF Log!Add, Log!Runs
    <3>2. QED
      BY <1>5, <1>9, <3>1 DEF LogInv, NothingMissing, Log!Process
  <2>6. QED
    BY <1>14, <2>1, <2>3, <2>4, <2>5 DEF NothingMissing
<1>17. QED
  BY <1>10, <1>11, <1>12, <1>13, <1>15, <1>16 DEF LogInv

\* The child begins with what its parent's buffer holds, and nothing of it is its own.
LEMMA ForkKeeps ==
  ASSUME LogInv, Log!Fork
  PROVE  LogInv'
<1>1. UNCHANGED <<flock, at, flush, added, copied, logFile, clash>> /\ forked = "no" /\ forked' = "runs" /\ enabled["main"]
  BY DEF Log!Fork
<1>2. /\ buffer'["child"] = buffer["main"] /\ owner'["child"] = owner["main"] /\ lock'["child"] \in {"free", "lost"}
      /\ \A q \in {"main", "other"} : buffer'[q] = buffer[q] /\ owner'[q] = owner[q] /\ lock'[q] = lock[q] /\ enabled'[q] = enabled[q]
  BY DEF LogInv, LogTypes, Log!Fork, Log!Process
<1>3. LogTypes'
  BY DEF LogInv, LogTypes, Log!Fork, Log!Process
<1>4. at["child"] = "idle" /\ added["child"] = 0 /\ copied = {}
  BY <1>1 DEF LogInv, LocksHeld
<1>5. LocksHeld'
  BY <1>1, <1>2, <1>4 DEF LogInv, LocksHeld, Log!Thread, Log!Of
<1>6. OneAtTheFile' /\ ListIsOpen'
  BY <1>1 DEF LogInv, OneAtTheFile, ListIsOpen, Log!Inside, Log!WellFormed, Log!Process
<1>7. BuffersFit'
  BY <1>1, <1>2, <1>4 DEF LogInv, BuffersFit, Log!Process, Log!Thread, Log!Of
<1>8. \A e : InFile(e)' <=> InFile(e)
  BY <1>1 DEF InFile
<1>9. OnceInFile'
  <2>1. \A q \in Log!Process : \A e \in Log!Range(buffer'[q]) : e[1] = q => e \in Log!Range(buffer[q])
    BY <1>2 DEF LogInv, BuffersFit, Log!Process
  <2>2. QED
    BY <1>1, <1>8, <2>1 DEF LogInv, OnceInFile
<1>10. NothingMissing'
  <2>1. \A q \in Log!Process : \A n \in 1..added'[q] : q # "child" /\ n \in 1..added[q]
    BY <1>1, <1>4
  <2>2. \A q \in Log!Process : \A n \in 1..added'[q] : InFile(<<q, n>>)' \/ <<q, n>> \in Log!Range(buffer'[q])
    BY <1>2, <1>8, <2>1 DEF LogInv, NothingMissing, Log!Process
  <2>3. QED
    BY <1>1, <1>2, <1>4, <2>2 DEF LogInv, NothingMissing, Log!Thread, Log!Of
<1>11. QED
  BY <1>3, <1>5, <1>6, <1>7, <1>9, <1>10 DEF LogInv

\* A thread that begins has its process's lock.
LEMMA BeginKeeps ==
  ASSUME LogInv, NEW t \in Log!Thread, NEW o \in {"flush", "close", "last"}, Log!Begin(t, o)
  PROVE  LogInv'
<1>1. UNCHANGED <<forked, buffer, owner, flock, added, copied, logFile, clash>> /\ Log!Of(t) \in Log!Process /\ lock[Log!Of(t)] = "free" /\ enabled[Log!Of(t)]
  BY OfProcess DEF Log!Begin
<1>2. /\ at' = [at EXCEPT ![t] = "locked"] /\ at[t] = "idle" /\ flush' = [flush EXCEPT ![t] = o]
      /\ lock' = [lock EXCEPT ![Log!Of(t)] = t] /\ enabled' = [enabled EXCEPT ![Log!Of(t)] = (o # "close")]
  BY DEF Log!Begin
<1>3. LogTypes'
  BY <1>1, <1>2 DEF LogInv, LogTypes
<1>4. \A u \in Log!Thread : u # t => at'[u] = at[u] /\ flush'[u] = flush[u]
  BY <1>2 DEF LogInv, LogTypes
<1>5. at'[t] = "locked" /\ flush'[t] = o /\ lock'[Log!Of(t)] = t /\ \A q \in Log!Process : q # Log!Of(t) => lock'[q] = lock[q] /\ enabled'[q] = enabled[q]
  BY <1>1, <1>2 DEF LogInv, LogTypes
<1>6. LocksHeld'
  <2>1. \A u \in Log!Thread : u # t /\ at[u] # "idle" => Log!Of(u) # Log!Of(t)
    BY <1>1 DEF LogInv, LocksHeld, Log!Thread
  <2>2. \A u \in Log!Thread : at'[u] # "idle" => lock'[Log!Of(u)] = u
    BY <1>4, <1>5, <2>1, OfProcess DEF LogInv, LocksHeld
  <2>3. \A u \in Log!Thread : flush'[u] = "last" => u = "child"
    BY <1>4, <1>5 DEF LogInv, LocksHeld, Log!Begin
  <2>4. forked = "no" => t # "child"
    BY DEF Log!Begin, Log!Runs
  <2>5. QED
    BY <1>1, <1>4, <2>2, <2>3, <2>4 DEF LogInv, LocksHeld, Log!Thread
<1>7. \A u \in Log!Thread : (Log!Inside(u)' <=> Log!Inside(u)) /\ \A s \in {"begin", "write", "end"} : at'[u] = s <=> at[u] = s
  BY <1>2, <1>4, <1>5 DEF Log!Inside
<1>8. OneAtTheFile'
  BY <1>1, <1>7 DEF LogInv, OneAtTheFile, Log!WellFormed
<1>9. ListIsOpen'
  BY <1>1 DEF LogInv, ListIsOpen
<1>10. BuffersFit'
  BY <1>1, <1>7 DEF LogInv, BuffersFit
<1>11. \A e : InFile(e)' <=> InFile(e)
  BY <1>1 DEF InFile
<1>12. OnceInFile'
  BY <1>1, <1>11 DEF LogInv, OnceInFile
<1>13. NothingMissing'
  <2>1. \A q \in {"main", "other"} : lock'[q] = "free" => lock[q] = "free" /\ enabled'[q] = enabled[q]
    BY <1>5 DEF Log!Process, Log!Thread
  <2>2. QED
    BY <1>1, <1>7, <1>11, <2>1 DEF LogInv, NothingMissing
<1>14. QED
  BY <1>3, <1>6, <1>8, <1>9, <1>10, <1>12, <1>13 DEF LogInv

\* Unless writers clash, the file is free when its lock is given.
LEMMA AcquiredAlone ==
  ASSUME LogInv, NEW t \in Log!Thread, Log!AcquireFileLock(t), ~clash'
  PROVE  ~clash /\ \A u \in Log!Thread : ~Log!Inside(u)
<1>1. ~clash /\ \A u \in Log!Thread : Log!Open(u) = Log!Open(t) => ~Log!Inside(u)
  BY DEF Log!AcquireFileLock
<1>2. \A u \in Log!Thread : Log!Inside(u) => flock = Log!Open(u)
  BY <1>1 DEF LogInv, OneAtTheFile
<1>3. flock \in {"free", Log!Open(t)}
  BY DEF Log!AcquireFileLock, Log!May
<1>4. QED
  BY <1>1, <1>2, <1>3, OfProcess

\* A thread goes to the file when no other is there, unless the two share an open file.
LEMMA AcquireKeeps ==
  ASSUME LogInv, NEW t \in Log!Thread, Log!AcquireFileLock(t)
  PROVE  LogInv'
<1>1. UNCHANGED <<forked, enabled, buffer, owner, lock, flush, added, copied, logFile>> /\ Log!Of(t) \in Log!Process /\ at[t] = "locked" /\ flock' = Log!Open(t)
  BY OfProcess DEF Log!AcquireFileLock
<1>2. at' = [at EXCEPT ![t] = IF buffer[Log!Of(t)] = <<>> THEN "end" ELSE "begin"] /\ clash' \in BOOLEAN
  BY DEF Log!AcquireFileLock
<1>3. LogTypes'
  BY <1>1, <1>2, OfProcess DEF LogInv, LogTypes
<1>4. at'[t] = (IF buffer[Log!Of(t)] = <<>> THEN "end" ELSE "begin") /\ \A u \in Log!Thread : u # t => at'[u] = at[u]
  BY <1>2 DEF LogInv, LogTypes
<1>5. LocksHeld'
  BY <1>1, <1>4 DEF LogInv, LocksHeld, Log!AcquireFileLock, Log!Runs, Log!Thread
<1>6. ListIsOpen'
  BY <1>1, <1>4 DEF LogInv, ListIsOpen, Log!Process
<1>7. OneAtTheFile'
  <2> SUFFICES ASSUME ~clash' PROVE OneAtTheFile'
    BY DEF OneAtTheFile
  <2>1. ~clash /\ \A u \in Log!Thread : ~Log!Inside(u)
    BY AcquiredAlone
  <2>2. \A u \in Log!Thread : Log!Inside(u)' => u = t
    BY <1>4, <2>1 DEF Log!Inside
  <2>3. logFile # <<>>
    BY <1>1 DEF LogInv, ListIsOpen, Log!Process
  <2>4. (\A u \in Log!Thread : at[u] # "write") /\ (\A u \in Log!Thread : at'[u] # "write")
    BY <1>4, <2>1 DEF Log!Inside
  <2>5. Log!WellFormed' <=> Log!WellFormed
    BY <1>1 DEF Log!WellFormed
  <2>6. QED
    BY <1>1, <2>1, <2>2, <2>3, <2>4, <2>5 DEF LogInv, OneAtTheFile
<1>8. BuffersFit'
  BY <1>1, <1>4 DEF LogInv, BuffersFit
<1>9. \A e : InFile(e)' <=> InFile(e)
  BY <1>1 DEF InFile
<1>10. OnceInFile'
  BY <1>1, <1>9 DEF LogInv, OnceInFile
<1>11. NothingMissing'
  BY <1>1, <1>4, <1>9 DEF LogInv, NothingMissing
<1>12. QED
  BY <1>3, <1>5, <1>6, <1>7, <1>8, <1>10, <1>11 DEF LogInv

\* The separator goes to an even place.
LEMMA CommaKeeps ==
  ASSUME LogInv, NEW t \in Log!Thread, Log!WriteComma(t)
  PROVE  LogInv'
<1>1. UNCHANGED <<forked, enabled, buffer, owner, lock, flock, flush, added, copied, clash>> /\ Log!Of(t) \in Log!Process /\ at[t] = "begin"
  BY OfProcess DEF Log!WriteComma
<1>2. at' = [at EXCEPT ![t] = "write"] /\ logFile' = Append(logFile, Log!Mark(","))
  BY DEF Log!WriteComma
<1>3. /\ logFile' \in Seq(Token) /\ logFile' # <<>> /\ Len(logFile) \in Nat /\ Len(logFile') = Len(logFile) + 1
      /\ DOMAIN logFile = 1..Len(logFile) /\ DOMAIN logFile' = 1..Len(logFile) + 1 /\ DOMAIN logFile \subseteq DOMAIN logFile'
      /\ \A x \in DOMAIN logFile' : x \in DOMAIN logFile \/ x = Len(logFile) + 1
      /\ logFile'[Len(logFile) + 1] = Log!Mark(",") /\ \A x \in DOMAIN logFile : logFile'[x] = logFile[x]
  BY <1>2, FileGrows, Tokens DEF LogInv, LogTypes
<1>4. LogTypes'
  BY <1>1, <1>2, <1>3 DEF LogInv, LogTypes
<1>5. at'[t] = "write" /\ \A u \in Log!Thread : u # t => at'[u] = at[u]
  BY <1>2 DEF LogInv, LogTypes
<1>6. LocksHeld'
  BY <1>1, <1>5 DEF LogInv, LocksHeld, Log!WriteComma, Log!Runs, Log!Thread
<1>7. ListIsOpen'
  BY <1>3 DEF ListIsOpen
<1>8. OneAtTheFile'
  <2> SUFFICES ASSUME ~clash PROVE OneAtTheFile'
    BY <1>1 DEF OneAtTheFile
  <2>1. Log!Inside(t) /\ \A u \in Log!Thread : Log!Inside(u) => u = t
    BY <1>1 DEF LogInv, OneAtTheFile, Log!Inside
  <2>2. \A u \in Log!Thread : Log!Inside(u)' => u = t
    BY <1>5, <2>1 DEF Log!Inside
  <2>3. \A u \in Log!Thread : at[u] # "write"
    BY <1>1, <2>1 DEF Log!Inside
  <2>4. Len(logFile) % 2 = 1 /\ Log!WellFormed /\ flock = Log!Open(t)
    BY <2>1, <2>3 DEF LogInv, OneAtTheFile
  <2>5. (Len(logFile) + 1) % 2 = 0 /\ Len(logFile) # 0 /\ Len(logFile) + 1 # 1
    <3>1. (Len(logFile) + 1) % 2 = 0
      BY <1>3, <2>4, Parity
    <3>2. Len(logFile) # 0
      BY <2>4, Parity
    <3>3. Len(logFile) \in Nat
      BY <1>3
    <3>4. QED
      BY <3>1, <3>2, <3>3
  <2>6. Log!Mark(",").mark = ","
    BY DEF Log!Mark
  <2>7. Log!WellFormed'
    <3>1. \A x \in DOMAIN logFile : logFile'[x].mark = IF x = 1 THEN "[" ELSE IF x % 2 = 0 THEN "," ELSE "events"
      BY <1>3, <2>4 DEF Log!WellFormed
    <3>2. logFile'[Len(logFile) + 1].mark = IF Len(logFile) + 1 = 1 THEN "[" ELSE IF (Len(logFile) + 1) % 2 = 0 THEN "," ELSE "events"
      BY <1>3, <2>5, <2>6
    <3>3. QED
      BY <1>3, <3>1, <3>2 DEF Log!WellFormed
  <2>8. QED
    BY <1>1, <1>3, <1>5, <2>2, <2>4, <2>5, <2>7 DEF OneAtTheFile
<1>9. BuffersFit'
  BY <1>1, <1>5 DEF LogInv, BuffersFit
<1>10. \A e : InFile(e)' <=> InFile(e)
  <2>1. Log!Range(logFile'[Len(logFile) + 1].events) = {}
    BY <1>3, Tokens
  <2>2. ASSUME NEW e, InFile(e)' PROVE InFile(e)
    <3>1. PICK x \in DOMAIN logFile' : e \in Log!Range(logFile'[x].events)
      BY <2>2 DEF InFile
    <3>2. x \in DOMAIN logFile
      BY <1>3, <2>1, <3>1
    <3>3. logFile'[x] = logFile[x]
      BY <1>3, <3>2
    <3>4. QED
      BY <3>1, <3>2, <3>3 DEF InFile
  <2>3. ASSUME NEW e, InFile(e) PROVE InFile(e)'
    <3>1. PICK x \in DOMAIN logFile : e \in Log!Range(logFile[x].events)
      BY <2>3 DEF InFile
    <3>2. x \in DOMAIN logFile' /\ logFile'[x] = logFile[x]
      BY <1>3, <3>1
    <3>3. QED
      BY <3>1, <3>2 DEF InFile
  <2>4. QED
    BY <2>2, <2>3
<1>11. OnceInFile'
  <2>1. \A x \in DOMAIN logFile' : \A e \in Log!Range(logFile'[x].events) : x \in DOMAIN logFile /\ e \in Log!Range(logFile[x].events)
    BY <1>3, Tokens
  <2>2. QED
    BY <1>1, <1>10, <2>1 DEF LogInv, OnceInFile
<1>12. NothingMissing'
  BY <1>1, <1>5, <1>10 DEF LogInv, NothingMissing
<1>13. QED
  BY <1>4, <1>6, <1>7, <1>8, <1>9, <1>11, <1>12 DEF LogInv

\* The batch goes to an odd place, and takes its events from the buffer; the child's first one may be copies.
LEMMA EventsKeeps ==
  ASSUME LogInv, NEW t \in Log!Thread, Log!WriteEvents(t)
  PROVE  LogInv'
<1>1. UNCHANGED <<forked, enabled, owner, lock, flock, flush, added, clash>> /\ Log!Of(t) \in Log!Process /\ at[t] = "write"
  BY OfProcess DEF Log!WriteEvents
<1>2. at' = [at EXCEPT ![t] = "end"] /\ logFile' = Append(logFile, Log!Batch(buffer[Log!Of(t)])) /\ buffer' = [buffer EXCEPT ![Log!Of(t)] = <<>>]
  BY DEF Log!WriteEvents
<1>3. /\ logFile' \in Seq(Token) /\ logFile' # <<>> /\ Len(logFile) \in Nat /\ Len(logFile') = Len(logFile) + 1
      /\ DOMAIN logFile = 1..Len(logFile) /\ DOMAIN logFile' = 1..Len(logFile) + 1 /\ DOMAIN logFile \subseteq DOMAIN logFile'
      /\ \A x \in DOMAIN logFile' : x \in DOMAIN logFile \/ x = Len(logFile) + 1
      /\ logFile'[Len(logFile) + 1] = Log!Batch(buffer[Log!Of(t)]) /\ \A x \in DOMAIN logFile : logFile'[x] = logFile[x]
  BY <1>1, <1>2, FileGrows, Tokens DEF LogInv, LogTypes
<1>4. /\ buffer[Log!Of(t)] \in Seq(Event) /\ buffer[Log!Of(t)] # <<>> /\ buffer'[Log!Of(t)] = <<>>
      /\ \A q \in Log!Process : q # Log!Of(t) => buffer'[q] = buffer[q]
  BY <1>1, <1>2 DEF LogInv, LogTypes, BuffersFit
<1>5. /\ copied' \subseteq Event /\ copied \subseteq copied'
      /\ \A e \in Log!Range(buffer[Log!Of(t)]) : e[1] # Log!Of(t) => e \in copied' /\ Log!Of(t) = "child"
      /\ Log!Of(t) = "child" /\ owner[Log!Of(t)] # Log!Of(t) => copied' = Log!Range(buffer[Log!Of(t)])
      /\ forked = "no" => copied' = {} /\ t # "child"
  <2>1. CASE Log!Of(t) = "child" /\ owner[Log!Of(t)] # Log!Of(t)
    <3>1. copied' = Log!Range(buffer[Log!Of(t)]) /\ forked # "no"
      BY <2>1, OfProcess DEF Log!WriteEvents, Log!Runs
    <3>2. copied = {}
      BY <1>4, <2>1 DEF LogInv, BuffersFit
    <3>3. QED
      BY <1>4, <2>1, <3>1, <3>2, RangeOfSeqs
  <2>2. CASE ~(Log!Of(t) = "child" /\ owner[Log!Of(t)] # Log!Of(t))
    <3>1. copied' = copied /\ (forked = "no" => t # "child")
      BY <2>2 DEF Log!WriteEvents, Log!Runs
    <3>2. \A e \in Log!Range(buffer[Log!Of(t)]) : e[1] = Log!Of(t)
      BY <1>1, <2>2 DEF LogInv, BuffersFit
    <3>3. QED
      BY <2>2, <3>1, <3>2 DEF LogInv, LogTypes, LocksHeld
  <2>3. QED
    BY <2>1, <2>2
<1>6. at'[t] = "end" /\ \A u \in Log!Thread : u # t => at'[u] = at[u]
  BY <1>2 DEF LogInv, LogTypes
<1>7. LogTypes'
  <2>1. <<>> \in Seq(Event)
    OBVIOUS
  <2>2. QED
    BY <1>1, <1>2, <1>3, <1>5, <2>1 DEF LogInv, LogTypes
<1>8. LocksHeld'
  BY <1>1, <1>5, <1>6 DEF LogInv, LocksHeld, Log!Thread
<1>9. ListIsOpen'
  BY <1>3 DEF ListIsOpen
<1>10. OneAtTheFile'
  <2> SUFFICES ASSUME ~clash PROVE OneAtTheFile'
    BY <1>1 DEF OneAtTheFile
  <2>1. Log!Inside(t) /\ \A u \in Log!Thread : Log!Inside(u) => u = t
    BY <1>1 DEF LogInv, OneAtTheFile, Log!Inside
  <2>2. \A u \in Log!Thread : Log!Inside(u)' => u = t
    BY <1>6, <2>1 DEF Log!Inside
  <2>3. \A u \in Log!Thread : at'[u] # "write"
    BY <1>6, <2>2 DEF Log!Inside
  <2>4. Len(logFile) % 2 = 0 /\ Len(logFile) # 0 /\ Log!WellFormed /\ flock = Log!Open(t)
    BY <1>1, <1>3, <2>1 DEF LogInv, OneAtTheFile
  <2>5. (Len(logFile) + 1) % 2 = 1 /\ (Len(logFile) + 1) % 2 # 0 /\ Len(logFile) + 1 # 1
    BY <1>3, <2>4, Parity
  <2>6. Log!Batch(buffer[Log!Of(t)]).mark = "events"
    BY DEF Log!Batch
  <2>7. Log!WellFormed'
    <3>1. \A x \in DOMAIN logFile : logFile'[x].mark = IF x = 1 THEN "[" ELSE IF x % 2 = 0 THEN "," ELSE "events"
      BY <1>3, <2>4 DEF Log!WellFormed
    <3>2. logFile'[Len(logFile) + 1].mark = IF Len(logFile) + 1 = 1 THEN "[" ELSE IF (Len(logFile) + 1) % 2 = 0 THEN "," ELSE "events"
      BY <1>3, <2>5, <2>6
    <3>3. QED
      BY <1>3, <3>1, <3>2 DEF Log!WellFormed
  <2>8. QED
    BY <1>1, <1>3, <1>6, <2>2, <2>3, <2>4, <2>5, <2>7 DEF OneAtTheFile
<1>11. \A e : InFile(e)' <=> InFile(e) \/ e \in Log!Range(buffer[Log!Of(t)])
  <2>1. Log!Range(logFile'[Len(logFile) + 1].events) = Log!Range(buffer[Log!Of(t)])
    BY <1>3, <1>4, Tokens
  <2>2. QED
    BY <1>3, <2>1 DEF InFile
<1>12. BuffersFit'
  <2>1. \A q \in Log!Process : \A e \in Log!Range(buffer'[q]) : q # Log!Of(t) /\ e \in Log!Range(buffer[q])
    BY <1>4, RangeOfSeqs
  <2>2. \A q \in Log!Process : \A e \in Log!Range(buffer'[q]) : e[2] \in 1..added'[e[1]] /\ (e[1] = q \/ (q = "child" /\ owner'[q] # q /\ e[1] = "main"))
    BY <1>1, <2>1 DEF LogInv, BuffersFit
  <2>3. owner'["child"] # "child" /\ buffer'["child"] # <<>> => copied' = {}
    <3>1. CASE Log!Of(t) = "child"
      BY <1>4, <3>1
    <3>2. CASE Log!Of(t) # "child"
      <4>1. copied' = copied
        BY <3>2 DEF Log!WriteEvents
      <4>2. QED
        BY <1>1, <1>4, <3>2, <4>1 DEF LogInv, BuffersFit, Log!Process
    <3>3. QED
      BY <3>1, <3>2
  <2>4. \A u \in Log!Thread : u # t /\ at[u] # "idle" => Log!Of(u) # Log!Of(t)
    BY <1>1 DEF LogInv, LocksHeld, Log!Thread
  <2>5. \A u \in Log!Thread : at'[u] \in {"begin", "write"} => buffer'[Log!Of(u)] # <<>>
    BY <1>4, <1>6, <2>4, OfProcess DEF LogInv, BuffersFit
  <2>6. QED
    BY <1>1, <2>2, <2>3, <2>5 DEF LogInv, BuffersFit
<1>13. OnceInFile'
  <2>1. Log!Range(logFile'[Len(logFile) + 1].events) = Log!Range(buffer[Log!Of(t)])
    BY <1>3, <1>4, Tokens
  <2>2. \A e \in Log!Range(buffer[Log!Of(t)]) : e[2] \in 1..added[e[1]] /\ (InFile(e) => e \in copied')
    BY <1>1, <1>5 DEF LogInv, BuffersFit, OnceInFile
  <2>3. \A x \in DOMAIN logFile' : \A e \in Log!Range(logFile'[x].events) : e[2] \in 1..added'[e[1]]
    BY <1>1, <1>3, <2>1, <2>2 DEF LogInv, OnceInFile
  <2>4. ASSUME NEW q \in Log!Process, NEW e \in Log!Range(buffer'[q]), e[1] = q, InFile(e)'
        PROVE  e \in copied'
    <3>1. q # Log!Of(t) /\ e \in Log!Range(buffer[q])
      BY <1>4, RangeOfSeqs
    <3>2. CASE InFile(e)
      BY <1>5, <2>4, <3>1, <3>2 DEF LogInv, OnceInFile
    <3>3. CASE e \in Log!Range(buffer[Log!Of(t)])
      BY <1>5, <2>4, <3>1, <3>3
    <3>4. QED
      BY <1>11, <2>4, <3>2, <3>3
  <2>5. ASSUME NEW j \in DOMAIN logFile', NEW x \in DOMAIN logFile', NEW e \in Log!Range(logFile'[j].events), e \in Log!Range(logFile'[x].events), j # x
        PROVE  e \in copied'
    <3>1. CASE j \in DOMAIN logFile /\ x \in DOMAIN logFile
      BY <1>3, <1>5, <2>5, <3>1 DEF LogInv, OnceInFile
    <3>2. CASE j = Len(logFile) + 1 /\ x \in DOMAIN logFile
      BY <1>3, <2>1, <2>2, <2>5, <3>2 DEF InFile
    <3>3. CASE x = Len(logFile) + 1 /\ j \in DOMAIN logFile
      BY <1>3, <2>1, <2>2, <2>5, <3>3 DEF InFile
    <3>4. QED
      BY <1>3, <2>5, <3>1, <3>2, <3>3
  <2>6. QED
    BY <2>3, <2>4, <2>5 DEF OnceInFile
<1>14. NothingMissing'
  <2>1. \A q \in Log!Process : \A n \in 1..added'[q] : InFile(<<q, n>>)' \/ <<q, n>> \in Log!Range(buffer'[q])
    BY <1>1, <1>4, <1>11 DEF LogInv, NothingMissing
  <2>2. \A q \in Log!Process : buffer[q] = <<>> => buffer'[q] = <<>>
    BY <1>4
  <2>3. \A u \in Log!Thread : at'[u] = "end" => buffer'[Log!Of(u)] = <<>>
    BY <1>4, <1>6, <2>2, OfProcess DEF LogInv, NothingMissing
  <2>4. QED
    BY <1>1, <2>1, <2>2, <2>3 DEF LogInv, NothingMissing, Log!Process
<1>15. QED
  BY <1>7, <1>8, <1>9, <1>10, <1>12, <1>13, <1>14 DEF LogInv

\* A thread leaves with an empty buffer.
LEMMA ReleaseKeeps ==
  ASSUME LogInv, NEW t \in Log!Thread, Log!ReleaseFileLock(t)
  PROVE  LogInv'
<1>1. UNCHANGED <<enabled, buffer, owner, flush, added, copied, logFile, clash>> /\ Log!Of(t) \in Log!Process /\ at[t] = "end"
  BY OfProcess DEF Log!ReleaseFileLock
<1>2. at' = [at EXCEPT ![t] = "idle"] /\ lock' = [lock EXCEPT ![Log!Of(t)] = "free"] /\ flock' \in {"free", flock}
  BY DEF Log!ReleaseFileLock
<1>3. forked' \in {forked, "ended"} /\ (forked' = "ended" => forked = "ended" \/ t = "child")
  BY DEF Log!ReleaseFileLock, LogInv, LocksHeld
<1>4. LogTypes'
  BY <1>1, <1>2, <1>3 DEF LogInv, LogTypes
<1>5. at'[t] = "idle" /\ \A u \in Log!Thread : u # t => at'[u] = at[u]
  BY <1>2 DEF LogInv, LogTypes
<1>6. lock'[Log!Of(t)] = "free" /\ \A q \in Log!Process : q # Log!Of(t) => lock'[q] = lock[q]
  BY <1>1, <1>2 DEF LogInv, LogTypes
<1>7. \A u \in Log!Thread : u # t /\ at[u] # "idle" => Log!Of(u) # Log!Of(t)
  BY <1>1 DEF LogInv, LocksHeld, Log!Thread
<1>8. LocksHeld'
  <2>1. \A u \in Log!Thread : at'[u] # "idle" => lock'[Log!Of(u)] = u
    BY <1>5, <1>6, <1>7, OfProcess DEF LogInv, LocksHeld
  <2>2. forked' = "no" => forked = "no"
    BY <1>3
  <2>3. QED
    BY <1>1, <1>5, <2>1, <2>2 DEF LogInv, LocksHeld, Log!Thread
<1>9. ListIsOpen'
  BY <1>1, <1>5 DEF LogInv, ListIsOpen
<1>10. OneAtTheFile'
  <2> SUFFICES ASSUME ~clash PROVE OneAtTheFile'
    BY <1>1 DEF OneAtTheFile
  <2>1. \A u \in Log!Thread : Log!Inside(u) => u = t
    BY <1>1 DEF LogInv, OneAtTheFile, Log!Inside
  <2>2. (\A u \in Log!Thread : ~Log!Inside(u)') /\ (\A u \in Log!Thread : at'[u] # "write") /\ (\A u \in Log!Thread : at[u] # "write")
    BY <1>1, <1>5, <2>1 DEF Log!Inside
  <2>3. Log!WellFormed' <=> Log!WellFormed
    BY <1>1 DEF Log!WellFormed
  <2>4. QED
    BY <1>1, <2>2, <2>3 DEF LogInv, OneAtTheFile
<1>11. BuffersFit'
  BY <1>1, <1>5 DEF LogInv, BuffersFit
<1>12. \A e : InFile(e)' <=> InFile(e)
  BY <1>1 DEF InFile
<1>13. OnceInFile'
  BY <1>1, <1>12 DEF LogInv, OnceInFile
<1>14. NothingMissing'
  <2>1. buffer[Log!Of(t)] = <<>>
    BY <1>1 DEF LogInv, NothingMissing
  <2>2. \A u \in Log!Thread : at'[u] = "end" => buffer'[Log!Of(u)] = <<>>
    BY <1>1, <1>5 DEF LogInv, NothingMissing
  <2>3. forked' = "ended" => buffer'["child"] = <<>>
    BY <1>1, <1>3, <2>1, OfProcess DEF LogInv, NothingMissing
  <2>4. \A q \in {"main", "other"} : added'[q] > 0 /\ ~enabled'[q] /\ lock'[q] = "free" => buffer'[q] = <<>>
    BY <1>1, <1>6, <2>1 DEF LogInv, NothingMissing, Log!Process
  <2>5. QED
    BY <1>1, <1>12, <2>2, <2>3, <2>4 DEF LogInv, NothingMissing
<1>15. QED
  BY <1>4, <1>8, <1>9, <1>10, <1>11, <1>13, <1>14 DEF LogInv

\* A child that is terminated at the file is a clash.
LEMMA TerminateKeeps ==
  ASSUME LogInv, Log!Terminate
  PROVE  LogInv'
<1>1. UNCHANGED <<enabled, buffer, owner, lock, flock, at, flush, added, copied, logFile>> /\ forked = "runs" /\ forked' = "terminated" /\ clash' \in BOOLEAN /\ (clash => clash')
  BY DEF Log!Terminate, LogInv, LogTypes
<1>2. LogTypes' /\ LocksHeld' /\ ListIsOpen' /\ BuffersFit'
  BY <1>1 DEF LogInv, LogTypes, LocksHeld, ListIsOpen, BuffersFit
<1>3. OneAtTheFile'
  BY <1>1 DEF LogInv, OneAtTheFile, Log!Inside, Log!WellFormed
<1>4. OnceInFile' /\ NothingMissing'
  BY <1>1 DEF LogInv, OnceInFile, NothingMissing, InFile
<1>5. QED
  BY <1>2, <1>3, <1>4 DEF LogInv

\* Every step of the log keeps its invariant.
LEMMA LogInvStep == LogInv /\ [Log!Next]_logVars => LogInv'
<1> SUFFICES ASSUME LogInv, [Log!Next]_logVars PROVE LogInv'
  OBVIOUS
<1>1. CASE UNCHANGED logVars
  <2>1. LogTypes' /\ LocksHeld' /\ OneAtTheFile'
    BY <1>1 DEF LogInv, logVars, Log!vars, LogTypes, LocksHeld, OneAtTheFile, Log!Inside, Log!WellFormed
  <2>2. ListIsOpen' /\ BuffersFit'
    BY <1>1 DEF LogInv, logVars, Log!vars, ListIsOpen, BuffersFit
  <2>3. OnceInFile' /\ NothingMissing'
    BY <1>1 DEF LogInv, logVars, Log!vars, OnceInFile, NothingMissing, InFile
  <2>4. QED
    BY <2>1, <2>2, <2>3 DEF LogInv
<1>2. CASE Log!Next
  BY <1>2, EnableKeeps, AddEventKeeps, ForkKeeps, BeginKeeps, AcquireKeeps, CommaKeeps, EventsKeeps, ReleaseKeeps, TerminateKeeps DEF Log!Next
<1>3. QED
  BY <1>1, <1>2

\* The log's copy of the size of a set is the size.
LEMMA SizeInLog ==
  ASSUME NEW S
  PROVE  Log!Cardinality(S) = Cardinality(S)
BY DEF Log!Cardinality, Cardinality, Log!IsFiniteSet, IsFiniteSet

\* How often an event is in the file, by the tokens that have it.
LEMMA TimesOf ==
  ASSUME logFile \in Seq(Token), NEW e
  PROVE  /\ Log!Times(e) > 0 <=> InFile(e)
         /\ Log!Times(e) > 1 => \E j, x \in DOMAIN logFile : j # x /\ e \in Log!Range(logFile[j].events) /\ e \in Log!Range(logFile[x].events)
<1> DEFINE S == {x \in DOMAIN logFile : e \in Log!Range(logFile[x].events)}
<1>1. IsFiniteSet(S) /\ Log!Times(e) = Cardinality(S)
  <2>1. IsFiniteSet(1..Len(logFile)) /\ DOMAIN logFile = 1..Len(logFile)
    BY FS_Interval
  <2>2. QED
    BY <2>1, FS_Subset, SizeInLog DEF Log!Times
<1> HIDE DEF S
<1>2. Cardinality(S) \in Nat /\ (Cardinality(S) = 0 <=> S = {})
  BY <1>1, FS_CardinalityType, FS_EmptySet
<1>3. S # {} <=> InFile(e)
  BY DEF S, InFile
<1>4. ASSUME Log!Times(e) > 1 PROVE \E j, x \in S : j # x
  <2>1. PICK j \in S : TRUE
    BY <1>1, <1>2, <1>4
  <2>2. S # {j}
    BY <1>1, <1>4, FS_Singleton
  <2>3. QED
    BY <2>1, <2>2
<1>5. QED
  BY <1>1, <1>2, <1>3, <1>4 DEF S

\* What the invariant says of the file.
LEMMA LogInvImplies == LogInv => Log!LogIsSound
<1> SUFFICES ASSUME LogInv PROVE Log!LogIsSound
  OBVIOUS
<1>1. logFile \in Seq(Token)
  BY DEF LogInv, LogTypes
<1>2. ~clash => Log!FileIsList
  BY DEF LogInv, OneAtTheFile, Log!FileIsList
<1>3. \A t, u \in Log!Thread : Log!Inside(t) /\ Log!Inside(u) /\ Log!Open(t) # Log!Open(u) => clash
  BY DEF LogInv, OneAtTheFile
<1>4. \A x \in DOMAIN logFile : \A e \in Log!Range(logFile[x].events) : Log!Times(e) > 1 => e \in copied
  BY <1>1, TimesOf DEF LogInv, OnceInFile
<1>5. ASSUME NEW p \in Log!Process, IF p = "child" THEN forked = "ended" ELSE added[p] > 0 /\ ~enabled[p] /\ lock[p] = "free",
             NEW n \in 1..added[p]
      PROVE  Log!Times(<<p, n>>) > 0
  <2>1. buffer[p] = <<>>
    BY <1>5 DEF LogInv, NothingMissing, Log!Process
  <2>2. InFile(<<p, n>>)
    BY <2>1, RangeOfSeqs DEF LogInv, NothingMissing
  <2>3. QED
    BY <1>1, <2>2, TimesOf
<1>6. QED
  BY <1>2, <1>3, <1>4, <1>5 DEF Log!LogIsSound

\* The bounds of the log: no process adds more events than it may, and what the child copies are its parent's.
AddedFit == \A p \in Log!Process : added[p] <= MaxEvents[p]
LogBounds == AddedFit /\ copied \subseteq {"main"} \X (1..MaxEvents["main"])

\* The bounds hold at first.
LEMMA LogBoundsInit == Log!Init => LogBounds
<1> SUFFICES ASSUME Log!Init PROVE LogBounds
  OBVIOUS
<1>1. \A p \in Log!Process : MaxEvents[p] \in Nat /\ added[p] = 0
  BY ToolsAssumption DEF Log!Init, Log!LogAssumption
<1>2. copied = {}
  BY DEF Log!Init
<1>3. QED
  BY <1>1, <1>2 DEF LogBounds, AddedFit

\* What the child has of its parent's buffer, its parent added.
LEMMA CopiesFit ==
  ASSUME LogInv, LogBounds, owner["child"] # "child"
  PROVE  Log!Range(buffer["child"]) \subseteq {"main"} \X (1..MaxEvents["main"])
<1>1. "child" \in Log!Process /\ "main" \in Log!Process
  BY DEF Log!Process
<1>2. added["child"] = 0 /\ added["main"] \in Nat /\ MaxEvents["main"] \in Nat /\ added["main"] <= MaxEvents["main"]
  BY <1>1, ToolsAssumption DEF Log!LogAssumption, LogInv, LogTypes, BuffersFit, LogBounds, AddedFit
<1>3. ASSUME NEW e \in Log!Range(buffer["child"]) PROVE e \in {"main"} \X (1..MaxEvents["main"])
  <2>1. e \in Event
    BY <1>1, <1>3, RangeOfSeqs DEF LogInv, LogTypes
  <2>2. e[2] \in 1..added[e[1]] /\ (e[1] = "child" \/ e[1] = "main")
    BY <1>1, <1>3 DEF LogInv, BuffersFit
  <2>3. e[1] # "child"
    BY <1>2, <2>2
  <2>4. e[1] = "main" /\ e[2] \in 1..MaxEvents["main"]
    BY <1>2, <2>2, <2>3
  <2>5. e = <<e[1], e[2]>>
    BY <2>1 DEF Event
  <2>6. QED
    BY <2>4, <2>5
<1>4. QED
  BY <1>3

\* Every step of the log keeps the bounds.
LEMMA LogBoundsStep == LogInv /\ LogBounds /\ [Log!Next]_logVars => LogBounds'
<1> SUFFICES ASSUME LogInv, LogBounds, Log!Next \/ UNCHANGED logVars PROVE LogBounds'
  OBVIOUS
<1>1. CASE UNCHANGED <<added, copied>>
  BY <1>1 DEF LogBounds, AddedFit
<1>2. ASSUME NEW t \in Log!Thread, Log!Add(t) PROVE LogBounds'
  <2>1. added' = [added EXCEPT ![Log!Of(t)] = @ + 1] /\ added[Log!Of(t)] < MaxEvents[Log!Of(t)] /\ copied' = copied
    BY <1>2 DEF Log!Add
  <2>2. \A p \in Log!Process : added[p] \in Nat /\ MaxEvents[p] \in Nat
    BY ToolsAssumption DEF Log!LogAssumption, LogInv, LogTypes
  <2>3. \A p \in Log!Process : p # Log!Of(t) => added'[p] = added[p]
    BY <2>1 DEF LogInv, LogTypes
  <2>4. Log!Of(t) \in Log!Process /\ added'[Log!Of(t)] = added[Log!Of(t)] + 1
    BY <2>1, OfProcess DEF LogInv, LogTypes
  <2>5. AddedFit'
    BY <2>1, <2>2, <2>3, <2>4 DEF LogBounds, AddedFit
  <2>6. QED
    BY <2>1, <2>5 DEF LogBounds
<1>3. ASSUME NEW t \in Log!Thread, Log!WriteEvents(t) PROVE LogBounds'
  <2>1. added' = added /\ (copied' = copied \/ (owner["child"] # "child" /\ copied' = Log!Range(buffer["child"])))
    BY <1>3 DEF Log!WriteEvents
  <2>2. copied' \subseteq {"main"} \X (1..MaxEvents["main"])
    BY <2>1, CopiesFit DEF LogBounds
  <2>3. QED
    BY <2>1, <2>2 DEF LogBounds, AddedFit
<1>4. CASE UNCHANGED logVars
  BY <1>1, <1>4 DEF logVars, Log!vars
<1>5. ASSUME NEW t \in Log!Thread, Log!AcquireFileLock(t) \/ Log!WriteComma(t) \/ Log!ReleaseFileLock(t) \/ \E o \in {"flush", "close", "last"} : Log!Begin(t, o)
      PROVE  LogBounds'
  BY <1>1, <1>5 DEF Log!AcquireFileLock, Log!WriteComma, Log!ReleaseFileLock, Log!Begin
<1>6. ASSUME Log!Fork \/ Log!Terminate \/ \E p \in Log!Process : Log!Enable(p) PROVE LogBounds'
  BY <1>1, <1>6 DEF Log!Fork, Log!Terminate, Log!Enable
<1>7. QED
  BY <1>2, <1>3, <1>4, <1>5, <1>6 DEF Log!Next

\* The types of the log.
LEMMA LogTypesHold == LogInv /\ LogBounds => Log!TypeOK
<1> SUFFICES ASSUME LogInv, LogBounds PROVE Log!TypeOK
  OBVIOUS
<1>1. ASSUME NEW p \in Log!Process, NEW e \in Log!Range(buffer[p]) PROVE e[1] \in Log!Process
  <2>1. e \in Event
    BY <1>1, RangeOfSeqs DEF LogInv, LogTypes
  <2>2. QED
    BY <2>1 DEF Event
<1>2. QED
  BY <1>1 DEF LogInv, LogTypes, LogBounds, Log!TypeOK

-----------------------------------------------------------------------------
(* The update of a config *)

Jobs == [dep : Update!Deps, hash : Update!FileHashes, updated : BOOLEAN, backedUp : BOOLEAN, none : BOOLEAN]
Places == Update!Working \union {"closed", "idle"}

UpdateTypes ==
  /\ disk \in {Update!Torn} \union [Update!Deps -> Update!FileHashes] /\ cloud \in [Update!Paths -> {Update!NoObject} \union (Update!Deps \X Update!FileHashes)]
  /\ data \in [Writers -> [Update!Deps -> Update!FileHashes]] /\ pending \in [Writers -> Seq(Jobs)]
  /\ writer \in [Writers -> Places] /\ k \in [Writers -> Nat]
  /\ raced \in BOOLEAN /\ shared \in BOOLEAN /\ late \subseteq Update!Paths

\* A writer that works is at one of its jobs, or has done them all.
AtJob ==
  \A w \in Writers :
    /\ writer[w] \in {"check", "insert", "roll"} => k[w] \in 1..Len(pending[w])
    /\ writer[w] = "write" => k[w] = Len(pending[w]) + 1 /\ k[w] > 1

InCloud(d, h) == cloud[<<d, h>>] = <<d, h>>
Pends(w, d, h) == \E n \in 1..Len(pending[w]) : pending[w][n].dep = d /\ pending[w][n].hash = h

\* Only one writer has something under way.
Alone == \A v, w \in Writers : Update!Busy(v) /\ Update!Busy(w) => v = w

\* An object is what its path says, and the path that jobs would share is not used.
ObjectsFit ==
  /\ cloud[<<"None">>] = Update!NoObject
  /\ \A d \in Update!Deps, h \in Update!FileHashes : cloud[<<d, h>>] \in {Update!NoObject, <<d, h>>} /\ cloud[<<d, h, "backup">>] \in {Update!NoObject, <<d, h>>}

\* What the config names is there, or its rollback came after the config was written; what a writer's copy of it names
\* is so as well, or is still to be uploaded by the writer.
Safe(d, h) == InCloud(d, h) \/ <<d, h>> \in late
DiskBacked == disk # Update!Torn => \A d \in Update!Deps : Safe(d, disk[d])
NameBacked(w, d) == Safe(d, data[w][d]) \/ Pends(w, d, data[w][d])
DataBacked == \A w \in Writers : writer[w] # "closed" => \A d \in Update!Deps : NameBacked(w, d)

\* Nobody relies on an object, but for those whose rollback came late.
Unused(d, h) ==
  \/ <<d, h>> \in late
  \/ /\ disk # Update!Torn => disk[d] # h
     /\ \A v \in Writers : writer[v] # "closed" /\ data[v][d] = h => Pends(v, d, h)

\* Nobody relies on an object that a rollback of w would delete.
OwnUnused(w) ==
  \A n \in 1..Len(pending[w]) :
    pending[w][n].updated /\ ~pending[w][n].backedUp => Unused(pending[w][n].dep, pending[w][n].hash)

\* The jobs that w has done have their objects, and one that goes on without a backup will not overwrite any.
DoneBacked(w) ==
  /\ writer[w] \in {"check", "insert", "write"} =>
       \A n \in 1..Len(pending[w]) : n < k[w] => InCloud(pending[w][n].dep, pending[w][n].hash)
  /\ writer[w] = "insert" /\ ~Update!Job(w).backedUp => cloud[Update!Remote(Update!Job(w))] = Update!NoObject

\* The inductive invariant of the update.
Backed == Alone /\ ObjectsFit /\ DiskBacked /\ DataBacked /\ \A w \in Writers : OwnUnused(w) /\ DoneBacked(w)
UpdateInv == UpdateTypes /\ AtJob /\ (~raced /\ ~shared => Backed)

\* The paths of objects, of backups and the shared one differ.
LEMMA PathsDiffer ==
  /\ \A d \in Update!Deps, h \in Update!FileHashes :
       /\ <<d, h>> \in Update!Paths /\ <<d, h, "backup">> \in Update!Paths /\ <<"None">> \in Update!Paths
       /\ <<d, h>> # Update!NoObject /\ <<d, h>> \in Update!Deps \X Update!FileHashes
       /\ \A e \in Update!Deps, g \in Update!FileHashes : <<d, h>> # <<e, g, "backup">> /\ (<<d, h>> = <<e, g>> => d = e /\ h = g)
       /\ <<"None">> # <<d, h>> /\ <<"None">> # <<d, h, "backup">>
BY DEF Update!Paths, Update!NoObject

\* Changing the job a writer is at.
LEMMA JobIsSet ==
  ASSUME UpdateTypes, NEW w \in Writers, k[w] \in 1..Len(pending[w]), NEW j \in Jobs, Update!SetJob(w, j)
  PROVE  /\ pending' \in [Writers -> Seq(Jobs)]
         /\ \A v \in Writers : Len(pending'[v]) = Len(pending[v])
         /\ \A v \in Writers : v # w => pending'[v] = pending[v]
         /\ pending'[w][k[w]] = j
         /\ \A n \in 1..Len(pending[w]) : n # k[w] => pending'[w][n] = pending[w][n]
<1>1. pending[w] \in Seq(Jobs) /\ pending'[w] = [pending[w] EXCEPT ![k[w]] = j]
  BY DEF UpdateTypes, Update!SetJob
<1>2. pending'[w] \in Seq(Jobs) /\ Len(pending'[w]) = Len(pending[w])
  BY <1>1
<1>3. \A v \in Writers : v # w => pending'[v] = pending[v]
  BY DEF UpdateTypes, Update!SetJob
<1>4. pending' \in [Writers -> Seq(Jobs)]
  <2>1. DOMAIN pending' = Writers /\ pending' = [v \in Writers |-> pending'[v]]
    BY DEF UpdateTypes, Update!SetJob
  <2>2. \A v \in Writers : pending'[v] \in Seq(Jobs)
    BY <1>2, <1>3 DEF UpdateTypes
  <2>3. QED
    BY <2>1, <2>2
<1>5. pending'[w][k[w]] = j /\ \A n \in 1..Len(pending[w]) : n # k[w] => pending'[w][n] = pending[w][n]
  BY <1>1
<1>6. \A v \in Writers : Len(pending'[v]) = Len(pending[v])
  BY <1>2, <1>3
<1>7. QED
  BY <1>3, <1>4, <1>5, <1>6

\* What the names rely on is kept when no object that is used goes, and no job is taken back.
LEMMA NamesKept ==
  ASSUME UpdateTypes, DiskBacked, DataBacked, UNCHANGED <<disk, data, late>>, \A v \in Writers : writer'[v] # "closed" => writer[v] # "closed",
         \A v \in Writers, d \in Update!Deps, h \in Update!FileHashes : Pends(v, d, h) => Pends(v, d, h)',
         \A d \in Update!Deps, h \in Update!FileHashes : InCloud(d, h) => InCloud(d, h)' \/ Unused(d, h)
  PROVE  DiskBacked' /\ DataBacked' /\ \A d \in Update!Deps, h \in Update!FileHashes : Unused(d, h) => Unused(d, h)'
<1>1. \A v \in Writers, d \in Update!Deps : data[v][d] \in Update!FileHashes
  BY DEF UpdateTypes
<1>2. DiskBacked'
  BY DEF DiskBacked, Safe, Unused, UpdateTypes
<1>3. DataBacked'
  <2>1. SUFFICES ASSUME NEW v \in Writers, writer'[v] # "closed", NEW d \in Update!Deps PROVE NameBacked(v, d)'
    BY DEF DataBacked
  <2>2. writer[v] # "closed" /\ data[v][d] \in Update!FileHashes /\ NameBacked(v, d)
    BY <1>1, <2>1 DEF DataBacked
  <2>3. QED
    BY <2>2 DEF NameBacked, Safe, Unused
<1>4. ASSUME NEW d \in Update!Deps, NEW h \in Update!FileHashes, Unused(d, h) PROVE Unused(d, h)'
  BY <1>4 DEF Unused
<1>5. QED
  BY <1>2, <1>3, <1>4

\* A writer that has something under way is the only one: the others have no part in the invariant but their names.
LEMMA WorkerKeeps ==
  ASSUME UpdateTypes, Backed, NEW w \in Writers, Update!Busy(w),
         \A v \in Writers : v # w => writer'[v] = writer[v] /\ pending'[v] = pending[v] /\ k'[v] = k[v],
         ObjectsFit', DiskBacked', DataBacked', OwnUnused(w)', DoneBacked(w)'
  PROVE  Backed'
<1>1. \A v \in Writers : v # w => ~Update!Busy(v)
  BY DEF Backed, Alone
<1>2. \A v \in Writers : v # w => ~Update!Busy(v)'
  BY <1>1 DEF Update!Busy
<1>3. Alone'
  BY <1>2 DEF Alone
<1>4. ASSUME NEW v \in Writers, v # w PROVE OwnUnused(v)' /\ DoneBacked(v)'
  <2>1. writer'[v] \notin Update!Working /\ DOMAIN pending'[v] = 1..Len(pending'[v])
    BY <1>2, <1>4 DEF Update!Busy, UpdateTypes
  <2>2. \A n \in 1..Len(pending'[v]) : ~pending'[v][n].updated
    BY <1>2, <1>4, <2>1 DEF Update!Busy
  <2>3. QED
    BY <2>1, <2>2 DEF OwnUnused, DoneBacked, Update!Working
<1>5. QED
  BY <1>3, <1>4 DEF Backed

\* A pending job is for a dependency and a hash.
LEMMA JobsTyped ==
  ASSUME UpdateTypes, NEW v \in Writers
  PROVE  /\ Len(pending[v]) \in Nat /\ DOMAIN pending[v] = 1..Len(pending[v])
         /\ \A n \in 1..Len(pending[v]) : /\ pending[v][n] \in Jobs /\ pending[v][n].dep \in Update!Deps /\ pending[v][n].hash \in Update!FileHashes
<1>1. pending[v] \in Seq(Jobs)
  BY DEF UpdateTypes
<1>2. /\ Len(pending[v]) \in Nat /\ DOMAIN pending[v] = 1..Len(pending[v])
      /\ \A n \in 1..Len(pending[v]) : pending[v][n] \in Jobs
  BY <1>1
<1>3. \A j \in Jobs : j.dep \in Update!Deps /\ j.hash \in Update!FileHashes
  BY DEF Jobs
<1>4. QED
  BY <1>2, <1>3

\* The invariant holds at first: the config names the old files, which are there.
LEMMA UpdateInvInit == Update!Init => UpdateInv
<1>1. SUFFICES ASSUME Update!Init PROVE UpdateInv
  OBVIOUS
<1>2. ASSUME NEW d \in Update!Deps PROVE InCloud(d, disk[d])
  <2>1. disk[d] = "old" /\ <<d, "old">> \in Update!Paths /\ <<d, "old">> \in {<<e, "old">> : e \in Update!Deps}
    BY <1>1, PathsDiffer DEF Update!Init, Update!FileHashes
  <2>2. QED
    BY <1>1, <2>1 DEF Update!Init, InCloud
<1>3. UpdateTypes /\ AtJob
  <2>1. cloud \in [Update!Paths -> {Update!NoObject} \union (Update!Deps \X Update!FileHashes)]
    <3>1. \A d \in Update!Deps : <<d, "old">> \in Update!Deps \X Update!FileHashes
      BY DEF Update!FileHashes
    <3>2. QED
      BY <1>1, <3>1 DEF Update!Init
  <2>2. disk \in [Update!Deps -> Update!FileHashes] /\ data \in [Writers -> [Update!Deps -> Update!FileHashes]] /\ pending \in [Writers -> Seq(Jobs)]
    BY <1>1 DEF Update!Init, Update!FileHashes
  <2>3. QED
    BY <1>1, <2>1, <2>2 DEF Update!Init, UpdateTypes, AtJob, Places
<1>4. ObjectsFit
  <2>1. \A p \in Update!Paths : cloud[p] \in {p, Update!NoObject} /\ (cloud[p] = p => p \in {<<e, "old">> : e \in Update!Deps} \/ p = Update!NoObject)
    BY <1>1 DEF Update!Init
  <2>2. \A d \in Update!Deps, h \in Update!FileHashes : <<d, h, "backup">> \notin {<<e, "old">> : e \in Update!Deps} /\ <<"None">> \notin {<<e, "old">> : e \in Update!Deps}
    BY PathsDiffer DEF Update!FileHashes
  <2>3. \A p \in Update!Paths : p \notin {<<e, "old">> : e \in Update!Deps} => cloud[p] = Update!NoObject
    BY <1>1 DEF Update!Init
  <2>4. \A d \in Update!Deps, h \in Update!FileHashes : cloud[<<d, h>>] \in {Update!NoObject, <<d, h>>}
    BY <2>1, PathsDiffer
  <2>5. \A d \in Update!Deps, h \in Update!FileHashes : cloud[<<d, h, "backup">>] = Update!NoObject
    BY <2>2, <2>3, PathsDiffer
  <2>6. cloud[<<"None">>] = Update!NoObject
    <3>1. <<"None">> \in Update!Paths /\ <<"None">> \notin {<<e, "old">> : e \in Update!Deps}
      BY DEF Update!Paths
    <3>2. QED
      BY <2>3, <3>1
  <2>7. QED
    BY <2>4, <2>5, <2>6 DEF ObjectsFit
<1>a. Len(<<>>) = 0 /\ DOMAIN <<>> = {}
  OBVIOUS
<1>5. \A w \in Writers : pending[w] = <<>> /\ writer[w] = "closed" /\ Len(pending[w]) = 0 /\ DOMAIN pending[w] = {}
  BY <1>1, <1>a DEF Update!Init
<1>6. Alone /\ DataBacked /\ \A w \in Writers : OwnUnused(w) /\ DoneBacked(w)
  BY <1>5 DEF Alone, Update!Busy, Update!Working, DataBacked, OwnUnused, DoneBacked
<1>7. DiskBacked
  BY <1>2 DEF DiskBacked, Safe
<1>8. QED
  BY <1>3, <1>4, <1>6, <1>7 DEF UpdateInv, Backed

\* A writer that begins its jobs while no other one has something under way is alone.
LEMMA BeginsAlone ==
  ASSUME UpdateTypes, Alone, NEW w \in Writers, NEW f, Update!Begin(w, f), ~raced', \A v \in Writers : v # w => pending'[v] = pending[v]
  PROVE  Alone'
<1>1. \A v \in Writers : v # w => ~Update!Busy(v) /\ writer'[v] = writer[v]
  BY DEF Update!Begin, UpdateTypes
<1>2. \A v \in Writers : v # w => ~Update!Busy(v)'
  BY <1>1 DEF Update!Busy
<1>3. QED
  BY <1>2 DEF Alone

\* Opening the config: what it names is there.
LEMMA OpenKeeps ==
  ASSUME UpdateInv, NEW w \in Writers, Update!Open(w)
  PROVE  UpdateInv'
<1>1. /\ disk # Update!Torn /\ disk \in [Update!Deps -> Update!FileHashes] /\ writer[w] = "closed" /\ writer' = [writer EXCEPT ![w] = "idle"]
      /\ data' = [data EXCEPT ![w] = disk] /\ pending' = [pending EXCEPT ![w] = <<>>]
      /\ UNCHANGED <<disk, cloud, k, force, fails, raced, shared, late>>
  BY DEF Update!Open, UpdateInv, UpdateTypes
<1>2. UpdateTypes'
  BY <1>1 DEF UpdateInv, UpdateTypes, Places
<1>3. /\ writer'[w] = "idle" /\ data'[w] = disk /\ pending'[w] = <<>> /\ Len(pending'[w]) = 0 /\ DOMAIN pending'[w] = {}
      /\ \A v \in Writers : v # w => writer'[v] = writer[v] /\ data'[v] = data[v] /\ pending'[v] = pending[v]
  BY <1>1 DEF UpdateInv, UpdateTypes
<1>4. AtJob'
  BY <1>1, <1>3 DEF UpdateInv, AtJob
<1>5. ASSUME ~raced, ~shared PROVE Backed'
  <2>1. Backed
    BY <1>5 DEF UpdateInv
  <2>2. \A v \in Writers : Update!Busy(v)' => v # w /\ Update!Busy(v)
    BY <1>3 DEF Update!Busy, Update!Working
  <2>3. Alone'
    BY <2>1, <2>2 DEF Backed, Alone
  <2>4. DiskBacked' /\ ObjectsFit'
    BY <1>1, <2>1 DEF Backed, DiskBacked, ObjectsFit, InCloud, Safe
  <2>5. \A d \in Update!Deps, h \in Update!FileHashes : InCloud(d, h)' = InCloud(d, h)
    BY <1>1 DEF InCloud
  <2>6. \A v \in Writers, d \in Update!Deps, h \in Update!FileHashes : v # w => Pends(v, d, h)' = Pends(v, d, h)
    BY <1>3 DEF Pends
  <2>7. DataBacked'
    <3>1. SUFFICES ASSUME NEW v \in Writers, writer'[v] # "closed", NEW d \in Update!Deps PROVE NameBacked(v, d)'
      BY DEF DataBacked
    <3>2. CASE v = w
      <4>1. Safe(d, disk[d])'
        BY <1>1, <2>1, <2>5 DEF Backed, DiskBacked, InCloud, Safe
      <4>2. QED
        BY <1>1, <1>3, <3>2, <4>1 DEF NameBacked, Safe
    <3>3. CASE v # w
      <4>1. data'[v][d] = data[v][d] /\ writer[v] # "closed" /\ data[v][d] \in Update!FileHashes
        BY <1>3, <3>1, <3>3 DEF UpdateInv, UpdateTypes
      <4>2. NameBacked(v, d)
        BY <2>1, <4>1 DEF Backed, DataBacked
      <4>3. QED
        BY <1>1, <2>5, <2>6, <3>3, <4>1, <4>2 DEF NameBacked, Safe
    <3>4. QED
      BY <3>2, <3>3
  <2>8. ASSUME NEW d \in Update!Deps, NEW h \in Update!FileHashes, Unused(d, h) PROVE Unused(d, h)'
    BY <1>1, <1>3, <2>6, <2>8 DEF Unused
  <2>9. ASSUME NEW v \in Writers PROVE OwnUnused(v)' /\ DoneBacked(v)'
    <3>1. CASE v = w
      BY <1>3, <3>1 DEF OwnUnused, DoneBacked
    <3>2. CASE v # w
      <4>1. \A n \in 1..Len(pending[v]) : pending[v][n].dep \in Update!Deps /\ pending[v][n].hash \in Update!FileHashes
        BY JobsTyped DEF UpdateInv
      <4>2. OwnUnused(v)'
        BY <1>3, <2>1, <2>8, <3>2, <4>1 DEF Backed, OwnUnused
      <4>3. DoneBacked(v)'
        BY <1>1, <1>3, <2>1, <3>2 DEF Backed, DoneBacked, InCloud, Update!Job, Update!Remote
      <4>4. QED
        BY <4>2, <4>3
    <3>3. QED
      BY <3>1, <3>2
  <2>10. QED
    BY <2>3, <2>4, <2>7, <2>9 DEF Backed
<1>6. QED
  BY <1>1, <1>2, <1>4, <1>5 DEF UpdateInv

\* Adding a job: the config's copy names the file, which the job will upload.
LEMMA AddKeeps ==
  ASSUME UpdateInv, NEW w \in Writers, NEW d \in Update!Deps, NEW h \in Update!FileHashes, NEW execute \in BOOLEAN,
         Update!AddCloudStorageDependencyUpdateJob(w, d, h, execute)
  PROVE  UpdateInv'
<1> DEFINE job == [dep |-> d, hash |-> h, updated |-> FALSE, backedUp |-> FALSE, none |-> FALSE]
<1>1. /\ UNCHANGED <<disk, cloud, fails, shared, late>> /\ writer[w] = "idle"
      /\ data' = [data EXCEPT ![w][d] = h] /\ pending' = [pending EXCEPT ![w] = Append(@, job)]
      /\ Update!Begin(w, FALSE) \/ UNCHANGED <<writer, k, force, raced>>
  BY DEF Update!AddCloudStorageDependencyUpdateJob
<1>2. /\ pending[w] \in Seq(Jobs) /\ job \in Jobs
      /\ pending'[w] = Append(pending[w], job) /\ \A v \in Writers : v # w => pending'[v] = pending[v] /\ data'[v] = data[v]
      /\ data'[w][d] = h /\ \A e \in Update!Deps : e # d => data'[w][e] = data[w][e]
  BY <1>1 DEF UpdateInv, UpdateTypes, Jobs
<1>3. /\ pending'[w] \in Seq(Jobs) /\ Len(pending'[w]) = Len(pending[w]) + 1 /\ Len(pending[w]) \in Nat
      /\ \A n \in 1..Len(pending[w]) : pending'[w][n] = pending[w][n]
      /\ pending'[w][Len(pending[w]) + 1] = job
      /\ DOMAIN pending'[w] = 1..(Len(pending[w]) + 1) /\ DOMAIN pending[w] = 1..Len(pending[w])
  BY <1>2
<1>4. UpdateTypes'
  <2>1. pending' \in [Writers -> Seq(Jobs)]
    BY <1>1, <1>2, <1>3 DEF UpdateInv, UpdateTypes
  <2>2. data' \in [Writers -> [Update!Deps -> Update!FileHashes]]
    BY <1>1 DEF UpdateInv, UpdateTypes
  <2>3. writer' \in [Writers -> Places] /\ k' \in [Writers -> Nat]
    <3>1. "check" \in Places
      BY DEF Places, Update!Working
    <3>2. writer \in [Writers -> Places] /\ k \in [Writers -> Nat] /\ 1 \in Nat
      BY DEF UpdateInv, UpdateTypes
    <3>3. CASE Update!Begin(w, FALSE)
      <4>1. writer' = [writer EXCEPT ![w] = "check"] /\ k' = [k EXCEPT ![w] = 1]
        BY <3>3 DEF Update!Begin
      <4>2. QED
        BY <3>1, <3>2, <4>1
    <3>4. QED
      BY <1>1, <3>2, <3>3
  <2>4. raced' \in BOOLEAN
    BY <1>1 DEF UpdateInv, UpdateTypes, Update!Begin
  <2>5. QED
    BY <1>1, <2>1, <2>2, <2>3, <2>4 DEF UpdateInv, UpdateTypes
<1>5. AtJob'
  <2>1. \A v \in Writers : v # w => writer'[v] = writer[v] /\ k'[v] = k[v]
    BY <1>1 DEF Update!Begin, UpdateInv, UpdateTypes
  <2>2. (writer'[w] = "check" /\ k'[w] = 1) \/ writer'[w] = "idle"
    BY <1>1 DEF Update!Begin, UpdateInv, UpdateTypes
  <2>3. 1 \in 1..Len(pending'[w])
    BY <1>3
  <2>4. QED
    BY <1>2, <2>1, <2>2, <2>3 DEF UpdateInv, AtJob
<1>6. ASSUME ~raced', ~shared PROVE Backed'
  <2>1. Backed
    BY <1>1, <1>6 DEF UpdateInv, Update!Begin
  <2>2. \A v \in Writers, e \in Update!Deps, g \in Update!FileHashes : Pends(v, e, g) => Pends(v, e, g)'
    <3>1. SUFFICES ASSUME NEW v \in Writers, NEW e \in Update!Deps, NEW g \in Update!FileHashes, Pends(v, e, g) PROVE Pends(v, e, g)'
      OBVIOUS
    <3>2. CASE v = w
      BY <1>3, <3>1, <3>2 DEF Pends
    <3>3. CASE v # w
      BY <1>2, <3>1, <3>3 DEF Pends
    <3>4. QED
      BY <3>2, <3>3
  <2>3. Pends(w, d, h)'
    <3>1. Len(pending[w]) + 1 \in 1..Len(pending'[w]) /\ job.dep = d /\ job.hash = h
      BY <1>3
    <3>2. QED
      BY <1>3, <3>1 DEF Pends
  <2>4. \A e \in Update!Deps, g \in Update!FileHashes : InCloud(e, g)' = InCloud(e, g)
    BY <1>1 DEF InCloud
  <2>5. \A v \in Writers : writer'[v] # "closed" => writer[v] # "closed"
    BY <1>1 DEF Update!Begin, UpdateInv, UpdateTypes
  <2>6. Alone'
    <3>1. CASE Update!Begin(w, FALSE)
      BY <1>2, <1>6, <2>1, <3>1, BeginsAlone DEF UpdateInv, Backed
    <3>2. CASE UNCHANGED <<writer, k, force, raced>>
      <4>1. \A v \in Writers : Update!Busy(v)' => Update!Busy(v)
        <5>1. SUFFICES ASSUME NEW v \in Writers, Update!Busy(v)', v = w, writer'[v] \notin Update!Working PROVE Update!Busy(v)
          BY <1>2, <3>2 DEF Update!Busy
        <5>2. PICK n \in DOMAIN pending'[w] : pending'[w][n].updated
          BY <5>1 DEF Update!Busy
        <5>3. n \in 1..Len(pending[w])
          BY <1>3, <5>2
        <5>4. QED
          BY <1>3, <5>1, <5>2, <5>3 DEF Update!Busy
      <4>2. QED
        BY <2>1, <4>1 DEF Backed, Alone
    <3>3. QED
      BY <1>1, <3>1, <3>2
  <2>7. DiskBacked' /\ ObjectsFit'
    BY <1>1, <2>1 DEF Backed, DiskBacked, ObjectsFit, InCloud, Safe
  <2>8. DataBacked'
    <3>1. SUFFICES ASSUME NEW v \in Writers, writer'[v] # "closed", NEW e \in Update!Deps PROVE NameBacked(v, e)'
      BY DEF DataBacked
    <3>2. CASE v = w /\ e = d
      BY <1>2, <2>3, <3>2 DEF NameBacked, Safe
    <3>3. CASE v # w \/ e # d
      <4>1. data'[v][e] = data[v][e] /\ writer[v] # "closed" /\ data[v][e] \in Update!FileHashes
        BY <1>2, <2>5, <3>1, <3>3 DEF UpdateInv, UpdateTypes
      <4>2. NameBacked(v, e)
        BY <2>1, <4>1 DEF Backed, DataBacked
      <4>3. QED
        BY <1>1, <2>2, <2>4, <4>1, <4>2 DEF NameBacked, Safe
    <3>4. QED
      BY <3>2, <3>3
  <2>9. ASSUME NEW e \in Update!Deps, NEW g \in Update!FileHashes, Unused(e, g) PROVE Unused(e, g)'
    <3>1. SUFFICES ASSUME <<e, g>> \notin late, NEW v \in Writers, writer'[v] # "closed", data'[v][e] = g PROVE Pends(v, e, g)'
      BY <1>1, <2>9 DEF Unused
    <3>2. CASE v = w /\ e = d
      BY <1>2, <2>3, <3>1, <3>2
    <3>3. CASE v # w \/ e # d
      BY <1>2, <2>2, <2>5, <2>9, <3>1, <3>3 DEF Unused
    <3>4. QED
      BY <3>2, <3>3
  <2>10. ASSUME NEW v \in Writers PROVE OwnUnused(v)' /\ DoneBacked(v)'
    <3>1. \A n \in 1..Len(pending[v]) : pending'[v][n] = pending[v][n] /\ pending[v][n].dep \in Update!Deps /\ pending[v][n].hash \in Update!FileHashes
      BY <1>2, <1>3, JobsTyped DEF UpdateInv
    <3>2. \A n \in 1..Len(pending'[v]) : n \in 1..Len(pending[v]) \/ pending'[v][n] = job
      BY <1>2, <1>3
    <3>3. OwnUnused(v)'
      BY <2>1, <2>9, <3>1, <3>2 DEF Backed, OwnUnused
    <3>4. DoneBacked(v)'
      <4>1. CASE v = w
        <5>1. (writer'[v] = "check" /\ k'[v] = 1) \/ writer'[v] = "idle"
          BY <1>1, <4>1 DEF Update!Begin, UpdateInv, UpdateTypes
        <5>2. Len(pending'[v]) \in Nat
          BY <1>3, <4>1
        <5>3. QED
          BY <5>1, <5>2 DEF DoneBacked
      <4>2. CASE v # w
        <5>1. writer'[v] = writer[v] /\ k'[v] = k[v]
          BY <1>1, <4>2 DEF Update!Begin, UpdateInv, UpdateTypes
        <5>2. pending'[v] = pending[v] /\ cloud' = cloud /\ Update!Job(v)' = Update!Job(v)
          BY <1>1, <1>2, <4>2, <5>1 DEF Update!Job
        <5>3. Update!Remote(Update!Job(v))' = Update!Remote(Update!Job(v))
          BY <5>2 DEF Update!Remote
        <5>4. QED
          BY <2>1, <5>1, <5>2, <5>3 DEF Backed, DoneBacked, InCloud
      <4>3. QED
        BY <4>1, <4>2
    <3>5. QED
      BY <3>3, <3>4
  <2>11. QED
    BY <2>6, <2>7, <2>8, <2>10 DEF Backed
<1>7. ASSUME ~raced', ~shared' PROVE Backed'
  BY <1>1, <1>6, <1>7
<1>8. QED
  BY <1>4, <1>5, <1>7 DEF UpdateInv

\* Executing the jobs that are pending.
LEMMA ExecuteKeeps ==
  ASSUME UpdateInv, NEW w \in Writers, NEW f \in BOOLEAN, Update!ExecuteUpdateJobs(w, f)
  PROVE  UpdateInv'
<1>1. /\ UNCHANGED <<disk, cloud, data, pending, shared, late>> /\ writer[w] = "idle" /\ pending[w] # <<>> /\ Update!Begin(w, f)
      /\ writer' = [writer EXCEPT ![w] = "check"] /\ k' = [k EXCEPT ![w] = 1]
  BY DEF Update!ExecuteUpdateJobs, Update!Begin
<1>2. /\ writer'[w] = "check" /\ k'[w] = 1 /\ \A v \in Writers : v # w => writer'[v] = writer[v] /\ k'[v] = k[v]
      /\ Len(pending[w]) \in Nat \ {0}
  <2>1. pending[w] \in Seq(Jobs)
    BY DEF UpdateInv, UpdateTypes
  <2>2. QED
    BY <1>1, <2>1 DEF UpdateInv, UpdateTypes
<1>3. UpdateTypes'
  BY <1>1 DEF UpdateInv, UpdateTypes, Update!Begin, Places, Update!Working
<1>4. AtJob'
  BY <1>1, <1>2 DEF UpdateInv, AtJob
<1>5. ASSUME ~raced', ~shared PROVE Backed'
  <2>1. Backed
    BY <1>1, <1>5 DEF UpdateInv, Update!Begin
  <2>2. /\ \A v \in Writers, d \in Update!Deps, h \in Update!FileHashes : Pends(v, d, h) => Pends(v, d, h)'
        /\ \A d \in Update!Deps, h \in Update!FileHashes : InCloud(d, h) => InCloud(d, h)'
        /\ \A v \in Writers : writer'[v] # "closed" => writer[v] # "closed"
    BY <1>1, <1>2 DEF Pends, InCloud
  <2>3. DiskBacked' /\ DataBacked' /\ \A d \in Update!Deps, h \in Update!FileHashes : Unused(d, h) => Unused(d, h)'
    BY <1>1, <2>1, <2>2, NamesKept DEF UpdateInv, Backed
  <2>4. Alone' /\ ObjectsFit'
    BY <1>1, <1>5, <2>1, BeginsAlone DEF UpdateInv, Backed, ObjectsFit
  <2>5. ASSUME NEW v \in Writers PROVE OwnUnused(v)' /\ DoneBacked(v)'
    <3>1. OwnUnused(v)'
      BY <1>1, <2>1, <2>3, JobsTyped DEF UpdateInv, Backed, OwnUnused
    <3>2. DoneBacked(v)'
      <4>1. CASE v = w
        BY <1>2, <4>1, JobsTyped DEF UpdateInv, DoneBacked
      <4>2. CASE v # w
        BY <1>1, <1>2, <2>1, <4>2 DEF Backed, DoneBacked, InCloud, Update!Job, Update!Remote
      <4>3. QED
        BY <4>1, <4>2
    <3>3. QED
      BY <3>1, <3>2
  <2>6. QED
    BY <2>3, <2>4, <2>5 DEF Backed
<1>6. QED
  BY <1>1, <1>3, <1>4, <1>5 DEF UpdateInv

\* What a step of a writer does that goes on to p with job number m, after it changed the record of its job to j.
JobStepped(w, p, m, j) ==
  /\ UpdateTypes' /\ AtJob' /\ writer'[w] = p /\ k'[w] = m /\ Update!Busy(w)
  /\ k[w] \in 1..Len(pending[w]) /\ Len(pending[w]) \in Nat /\ Len(pending'[w]) = Len(pending[w]) /\ pending'[w][k[w]] = j
  /\ \A n \in 1..Len(pending[w]) : n # k[w] => pending'[w][n] = pending[w][n]
  /\ \A n \in 1..Len(pending[w]) : pending'[w][n].dep = pending[w][n].dep /\ pending'[w][n].hash = pending[w][n].hash
  /\ \A v \in Writers : v # w => writer'[v] = writer[v] /\ pending'[v] = pending[v] /\ k'[v] = k[v]
  /\ \A v \in Writers : writer'[v] # "closed" => writer[v] # "closed"
  /\ \A v \in Writers, d \in Update!Deps, h \in Update!FileHashes : Pends(v, d, h) => Pends(v, d, h)'

\* Where the writer may go on.
GoesOn(w, p, m) ==
  \/ p \in {"check", "insert", "roll"} /\ m \in 1..Len(pending[w])
  \/ p = "write" /\ m = Len(pending[w]) + 1 /\ m > 1
  \/ p = "idle"

\* A step of a writer at one of its jobs that changes this job's record and at most the cloud.
LEMMA JobStep ==
  ASSUME UpdateInv, NEW w \in Writers, writer[w] \in {"check", "insert", "roll"}, NEW p \in Places \ {"closed"}, NEW m \in Nat,
         writer' = [writer EXCEPT ![w] = p], k' = [k EXCEPT ![w] = m], UNCHANGED <<disk, data, raced, late>>,
         NEW j \in Jobs, j.dep = Update!Job(w).dep, j.hash = Update!Job(w).hash, Update!SetJob(w, j),
         cloud' \in [Update!Paths -> {Update!NoObject} \union (Update!Deps \X Update!FileHashes)], shared' \in BOOLEAN, GoesOn(w, p, m)
  PROVE  JobStepped(w, p, m, j)
<1>1. k[w] \in 1..Len(pending[w]) /\ Len(pending[w]) \in Nat
  BY JobsTyped DEF UpdateInv, AtJob
<1>2. /\ pending' \in [Writers -> Seq(Jobs)]
      /\ \A v \in Writers : Len(pending'[v]) = Len(pending[v])
      /\ \A v \in Writers : v # w => pending'[v] = pending[v]
      /\ pending'[w][k[w]] = j
      /\ \A n \in 1..Len(pending[w]) : n # k[w] => pending'[w][n] = pending[w][n]
  BY <1>1, JobIsSet DEF UpdateInv
<1>3. writer'[w] = p /\ k'[w] = m /\ (\A v \in Writers : v # w => writer'[v] = writer[v] /\ k'[v] = k[v]) /\ Update!Busy(w)
  BY DEF UpdateInv, UpdateTypes, Update!Busy, Update!Working
<1>4. UpdateTypes'
  BY <1>2 DEF UpdateInv, UpdateTypes
<1>5. AtJob'
  BY <1>2, <1>3 DEF UpdateInv, AtJob, GoesOn
<1>6. \A n \in 1..Len(pending[w]) : pending'[w][n].dep = pending[w][n].dep /\ pending'[w][n].hash = pending[w][n].hash
  BY <1>2 DEF Update!Job
<1>7. \A v \in Writers, d \in Update!Deps, h \in Update!FileHashes : Pends(v, d, h) => Pends(v, d, h)'
  <2>1. \A v \in Writers : \A n \in 1..Len(pending[v]) :
          pending'[v][n].dep = pending[v][n].dep /\ pending'[v][n].hash = pending[v][n].hash
    BY <1>2, <1>6
  <2>2. QED
    BY <1>2, <2>1 DEF Pends
<1>8. \A v \in Writers : writer'[v] # "closed" => writer[v] # "closed"
  BY <1>3
<1>9. QED
  BY <1>1, <1>2, <1>3, <1>4, <1>5, <1>6, <1>7, <1>8 DEF JobStepped

\* The job that a writer is at.
LEMMA JobTyped ==
  ASSUME UpdateInv, NEW w \in Writers, writer[w] \in {"check", "insert", "roll"}
  PROVE  /\ Update!Job(w) \in Jobs /\ Update!Job(w).dep \in Update!Deps /\ Update!Job(w).hash \in Update!FileHashes /\ k[w] \in 1..Len(pending[w]) /\ Len(pending[w]) \in Nat
         /\ Update!Remote(Update!Job(w)) = <<Update!Job(w).dep, Update!Job(w).hash>> /\ Update!Remote(Update!Job(w)) \in Update!Paths /\ Update!Backup(Update!Job(w)) \in Update!Paths
<1>1. k[w] \in 1..Len(pending[w]) /\ Len(pending[w]) \in Nat /\ Update!Job(w) \in Jobs
  BY JobsTyped DEF UpdateInv, AtJob, Update!Job
<1>2. Update!Job(w).dep \in Update!Deps /\ Update!Job(w).hash \in Update!FileHashes
  BY <1>1 DEF Jobs
<1>3. QED
  BY <1>1, <1>2, PathsDiffer DEF Update!Remote, Update!Backup

\* What a step does to the bucket: no object that is used goes, unless jobs share a backup or another writer is at work.
BucketFits ==
  /\ cloud' \in [Update!Paths -> {Update!NoObject} \union (Update!Deps \X Update!FileHashes)] /\ shared' \in BOOLEAN
  /\ ~raced /\ ~shared' =>
       ~shared /\ ObjectsFit' /\ \A d \in Update!Deps, h \in Update!FileHashes : InCloud(d, h) => InCloud(d, h)' \/ Unused(d, h)

\* A backup is a copy at a path of its own.
LEMMA CopiedFits ==
  ASSUME UpdateInv, NEW w \in Writers, writer[w] = "check", Update!Copied(w)
  PROVE  /\ BucketFits
         /\ ~raced /\ ~shared' => \A d \in Update!Deps, h \in Update!FileHashes : InCloud(d, h) => InCloud(d, h)'
<1>1. /\ cloud[Update!Remote(Update!Job(w))] # Update!NoObject /\ shared' = (shared \/ Update!Job(w).none)
      /\ cloud' = [cloud EXCEPT ![Update!Backup(Update!Job(w))] = cloud[Update!Remote(Update!Job(w))]]
  BY DEF Update!Copied
<1>2. /\ Update!Job(w) \in Jobs /\ Update!Job(w).dep \in Update!Deps /\ Update!Job(w).hash \in Update!FileHashes
      /\ Update!Remote(Update!Job(w)) = <<Update!Job(w).dep, Update!Job(w).hash>> /\ Update!Remote(Update!Job(w)) \in Update!Paths /\ Update!Backup(Update!Job(w)) \in Update!Paths
  BY JobTyped
<1>3. cloud' \in [Update!Paths -> {Update!NoObject} \union (Update!Deps \X Update!FileHashes)] /\ shared' \in BOOLEAN
  BY <1>1, <1>2 DEF UpdateInv, UpdateTypes, Jobs
<1>4. ASSUME ~raced, ~shared'
      PROVE  ~shared /\ ObjectsFit' /\ \A d \in Update!Deps, h \in Update!FileHashes : InCloud(d, h) => InCloud(d, h)'
  <2>1. Backed /\ ~Update!Job(w).none /\ ~shared
    BY <1>1, <1>4 DEF UpdateInv
  <2>2. Update!Backup(Update!Job(w)) = <<Update!Job(w).dep, Update!Job(w).hash, "backup">> /\ cloud[Update!Remote(Update!Job(w))] = <<Update!Job(w).dep, Update!Job(w).hash>>
    BY <1>1, <1>2, <2>1 DEF Update!Backup, Backed, ObjectsFit
  <2>3. \A d \in Update!Deps, h \in Update!FileHashes : cloud'[<<d, h>>] = cloud[<<d, h>>]
    BY <1>1, <1>2, <2>2, PathsDiffer DEF UpdateInv, UpdateTypes
  <2>4. ObjectsFit'
    <3>1. cloud'[<<"None">>] = Update!NoObject
      BY <1>1, <1>2, <2>1, <2>2, PathsDiffer DEF UpdateInv, UpdateTypes, Backed, ObjectsFit
    <3>2. ASSUME NEW d \in Update!Deps, NEW h \in Update!FileHashes PROVE cloud'[<<d, h, "backup">>] \in {Update!NoObject, <<d, h>>}
      <4>1. CASE d = Update!Job(w).dep /\ h = Update!Job(w).hash
        BY <1>1, <2>2, <4>1, PathsDiffer DEF UpdateInv, UpdateTypes
      <4>2. CASE ~(d = Update!Job(w).dep /\ h = Update!Job(w).hash)
        <5>1. <<d, h, "backup">> # Update!Backup(Update!Job(w))
          BY <2>2, <4>2
        <5>2. QED
          BY <1>1, <2>1, <5>1, PathsDiffer DEF UpdateInv, UpdateTypes, Backed, ObjectsFit
      <4>3. QED
        BY <4>1, <4>2
    <3>3. QED
      BY <2>1, <2>3, <3>1, <3>2 DEF Backed, ObjectsFit
  <2>5. QED
    BY <2>1, <2>3, <2>4 DEF InCloud
<1>5. QED
  BY <1>3, <1>4 DEF BucketFits

\* An upload puts the object that its path says.
LEMMA InsertedFits ==
  ASSUME UpdateInv, NEW w \in Writers, writer[w] = "insert", Update!Inserted(w)
  PROVE  /\ BucketFits
         /\ cloud'[Update!Remote(Update!Job(w))] = Update!Remote(Update!Job(w))
         /\ \A q \in Update!Paths : q # Update!Remote(Update!Job(w)) => cloud'[q] = cloud[q]
         /\ \A d \in Update!Deps, h \in Update!FileHashes : InCloud(d, h) => InCloud(d, h)'
<1>1. cloud' = [cloud EXCEPT ![Update!Remote(Update!Job(w))] = Update!Remote(Update!Job(w))] /\ shared' = shared
  BY DEF Update!Inserted, Update!Object, Update!Remote
<1>2. /\ Update!Job(w).dep \in Update!Deps /\ Update!Job(w).hash \in Update!FileHashes
      /\ Update!Remote(Update!Job(w)) = <<Update!Job(w).dep, Update!Job(w).hash>> /\ Update!Remote(Update!Job(w)) \in Update!Paths
  BY JobTyped
<1>3. cloud' \in [Update!Paths -> {Update!NoObject} \union (Update!Deps \X Update!FileHashes)] /\ shared' \in BOOLEAN
  BY <1>1, <1>2, PathsDiffer DEF UpdateInv, UpdateTypes
<1>4. cloud'[Update!Remote(Update!Job(w))] = Update!Remote(Update!Job(w)) /\ \A q \in Update!Paths : q # Update!Remote(Update!Job(w)) => cloud'[q] = cloud[q]
  BY <1>1, <1>2 DEF UpdateInv, UpdateTypes
<1>5. \A d \in Update!Deps, h \in Update!FileHashes : InCloud(d, h) => InCloud(d, h)'
  BY <1>2, <1>4, PathsDiffer DEF InCloud
<1>6. ASSUME Backed PROVE ObjectsFit'
  <2>1. cloud'[<<"None">>] = Update!NoObject
    <3>1. <<"None">> \in Update!Paths /\ <<"None">> # Update!Remote(Update!Job(w))
      BY <1>2, PathsDiffer
    <3>2. QED
      BY <1>4, <1>6, <3>1 DEF Backed, ObjectsFit
  <2>2. \A d \in Update!Deps, h \in Update!FileHashes : cloud'[<<d, h, "backup">>] \in {Update!NoObject, <<d, h>>}
    <3>1. PICK e \in Update!Deps, g \in Update!FileHashes : Update!Remote(Update!Job(w)) = <<e, g>>
      BY <1>2
    <3>2. \A d \in Update!Deps, h \in Update!FileHashes : <<d, h, "backup">> \in Update!Paths /\ <<d, h, "backup">> # <<e, g>>
      BY PathsDiffer
    <3>3. QED
      BY <1>4, <1>6, <3>1, <3>2 DEF Backed, ObjectsFit
  <2>3. \A d \in Update!Deps, h \in Update!FileHashes : cloud'[<<d, h>>] \in {Update!NoObject, <<d, h>>}
    BY <1>2, <1>4, <1>6, PathsDiffer DEF Backed, ObjectsFit
  <2>4. QED
    BY <2>1, <2>2, <2>3 DEF ObjectsFit
<1>7. QED
  BY <1>1, <1>3, <1>4, <1>5, <1>6 DEF BucketFits, UpdateInv

\* A rollback puts back what was there, or deletes an object that nobody relies on.
LEMMA RestoredFits ==
  ASSUME UpdateInv, NEW w \in Writers, writer[w] = "roll", Update!Restored(w)
  PROVE  BucketFits
<1>1. (Update!CopyBack(w, Update!Job(w)) \/ Update!DeleteObject(w, Update!Job(w))) /\ shared' = shared
  BY DEF Update!Restored
<1>2. /\ Update!Job(w) \in Jobs /\ Update!Job(w).dep \in Update!Deps /\ Update!Job(w).hash \in Update!FileHashes /\ k[w] \in 1..Len(pending[w])
      /\ Update!Remote(Update!Job(w)) = <<Update!Job(w).dep, Update!Job(w).hash>> /\ Update!Remote(Update!Job(w)) \in Update!Paths /\ Update!Backup(Update!Job(w)) \in Update!Paths
  BY JobTyped
<1>3. PICK o \in {Update!NoObject} \union (Update!Deps \X Update!FileHashes) :
        /\ cloud' = [cloud EXCEPT ![Update!Remote(Update!Job(w))] = o]
        /\ \/ Update!Job(w).backedUp /\ cloud[Update!Backup(Update!Job(w))] # Update!NoObject /\ o = cloud[Update!Backup(Update!Job(w))]
           \/ ~Update!Job(w).backedUp /\ Update!Job(w).updated /\ o = Update!NoObject
  BY <1>1, <1>2 DEF Update!CopyBack, Update!DeleteObject, UpdateInv, UpdateTypes
<1>4. cloud' \in [Update!Paths -> {Update!NoObject} \union (Update!Deps \X Update!FileHashes)] /\ shared' \in BOOLEAN
  BY <1>1, <1>2, <1>3 DEF UpdateInv, UpdateTypes
<1>5. ASSUME ~raced, ~shared'
      PROVE  ~shared /\ ObjectsFit' /\ \A d \in Update!Deps, h \in Update!FileHashes : InCloud(d, h) => InCloud(d, h)' \/ Unused(d, h)
  <2>1. Backed /\ ~shared
    BY <1>1, <1>5 DEF UpdateInv
  <2>2. cloud'[Update!Remote(Update!Job(w))] = o /\ \A q \in Update!Paths : q # Update!Remote(Update!Job(w)) => cloud'[q] = cloud[q]
    BY <1>2, <1>3 DEF UpdateInv, UpdateTypes
  <2>3. PICK e \in Update!Deps, g \in Update!FileHashes : e = Update!Job(w).dep /\ g = Update!Job(w).hash /\ Update!Remote(Update!Job(w)) = <<e, g>>
    BY <1>2
  <2>4. o = <<e, g>> \/ (o = Update!NoObject /\ Unused(e, g))
    <3>1. CASE Update!Job(w).backedUp
      <4>1. ~Update!Job(w).none
        BY <1>3, <2>1, <3>1 DEF Update!Backup, Backed, ObjectsFit
      <4>2. Update!Backup(Update!Job(w)) = <<e, g, "backup">>
        BY <2>3, <4>1 DEF Update!Backup
      <4>3. QED
        BY <1>3, <2>1, <3>1, <4>2 DEF Backed, ObjectsFit
    <3>2. CASE ~Update!Job(w).backedUp
      BY <1>2, <1>3, <2>1, <2>3, <3>2 DEF Backed, OwnUnused, Update!Job
    <3>3. QED
      BY <3>1, <3>2
  <2>5. /\ <<"None">> \in Update!Paths /\ <<"None">> # <<e, g>>
        /\ \A d \in Update!Deps, h \in Update!FileHashes :
             /\ <<d, h, "backup">> \in Update!Paths /\ <<d, h, "backup">> # <<e, g>>
             /\ <<d, h>> \in Update!Paths /\ (<<d, h>> = <<e, g>> => d = e /\ h = g)
    BY PathsDiffer
  <2>6. ObjectsFit'
    BY <2>1, <2>2, <2>3, <2>4, <2>5 DEF Backed, ObjectsFit
  <2>7. ASSUME NEW d \in Update!Deps, NEW h \in Update!FileHashes, InCloud(d, h) PROVE InCloud(d, h)' \/ Unused(d, h)
    BY <2>2, <2>3, <2>4, <2>5, <2>7 DEF InCloud
  <2>8. QED
    BY <2>1, <2>6, <2>7
<1>6. QED
  BY <1>4, <1>5 DEF BucketFits

\* So does a call that may have been obeyed.
LEMMA ObeyedFits ==
  ASSUME UpdateInv, NEW w \in Writers, Update!MaybeObeyed(w)
  PROVE  BucketFits
<1>1. CASE UNCHANGED <<cloud, shared>>
  BY <1>1 DEF BucketFits, UpdateInv, UpdateTypes, Backed, ObjectsFit, InCloud
<1>2. CASE writer[w] = "check" /\ Update!Copied(w)
  BY <1>2, CopiedFits
<1>3. CASE writer[w] = "insert" /\ Update!Inserted(w)
  BY <1>3, InsertedFits
<1>4. CASE writer[w] = "roll" /\ Update!Restored(w)
  BY <1>4, RestoredFits
<1>5. QED
  BY <1>1, <1>2, <1>3, <1>4 DEF Update!MaybeObeyed

\* Steps of a writer that change nothing but how far it is, and what a call that failed for it may have done.
LEMMA ControlKeeps ==
  ASSUME UpdateInv, NEW w \in Writers, NEW p \in Places \ {"closed"}, NEW m \in Nat, writer[w] \in {"check", "insert", "roll"},
         writer' = [writer EXCEPT ![w] = p], k' = [k EXCEPT ![w] = m], UNCHANGED <<disk, data, pending, raced, late>>, Update!MaybeObeyed(w),
         \/ p = "idle" \/ (p = "roll" /\ m \in 1..Len(pending[w]))
         \/ /\ p = "insert" /\ writer[w] = "check" /\ m = k[w] /\ cloud[Update!Remote(Update!Job(w))] = Update!NoObject
            /\ UNCHANGED <<cloud, shared>>
  PROVE  UpdateInv'
<1>1. /\ writer'[w] = p /\ k'[w] = m /\ \A v \in Writers : v # w => writer'[v] = writer[v] /\ k'[v] = k[v]
      /\ k[w] \in 1..Len(pending[w]) /\ Len(pending[w]) \in Nat \ {0}
  <2>1. Len(pending[w]) \in Nat
    BY JobsTyped DEF UpdateInv
  <2>2. QED
    BY <2>1 DEF UpdateInv, UpdateTypes, AtJob
<1>0. BucketFits
  BY ObeyedFits
<1>2. UpdateTypes'
  BY <1>0 DEF UpdateInv, UpdateTypes, BucketFits
<1>3. AtJob'
  BY <1>1 DEF UpdateInv, AtJob
<1>4. ASSUME ~raced, ~shared' PROVE Backed'
  <2>1. Backed /\ Update!Busy(w)
    BY <1>0, <1>4 DEF UpdateInv, Update!Busy, Update!Working, BucketFits
  <2>2. /\ \A v \in Writers, d \in Update!Deps, h \in Update!FileHashes : Pends(v, d, h) => Pends(v, d, h)'
        /\ \A d \in Update!Deps, h \in Update!FileHashes : InCloud(d, h) => InCloud(d, h)' \/ Unused(d, h)
        /\ \A v \in Writers : writer'[v] # "closed" => writer[v] # "closed"
    BY <1>0, <1>1, <1>4 DEF Pends, BucketFits
  <2>3. DiskBacked' /\ DataBacked' /\ \A d \in Update!Deps, h \in Update!FileHashes : Unused(d, h) => Unused(d, h)'
    BY <2>1, <2>2, NamesKept DEF UpdateInv, Backed
  <2>4. ObjectsFit'
    BY <1>0, <1>4 DEF BucketFits
  <2>5. OwnUnused(w)'
    BY <2>1, <2>3, JobsTyped DEF UpdateInv, Backed, OwnUnused
  <2>6. DoneBacked(w)'
    <3>1. CASE p \in {"idle", "roll"}
      BY <1>1, <3>1 DEF DoneBacked
    <3>2. CASE p = "insert" /\ writer[w] = "check" /\ m = k[w] /\ cloud[Update!Remote(Update!Job(w))] = Update!NoObject /\ UNCHANGED <<cloud, shared>>
      BY <1>1, <2>1, <3>2 DEF Backed, DoneBacked, InCloud, Update!Job, Update!Remote
    <3>3. QED
      BY <3>1, <3>2
  <2>7. QED
    BY <1>1, <2>1, <2>3, <2>4, <2>5, <2>6, WorkerKeeps DEF UpdateInv
<1>5. QED
  BY <1>2, <1>3, <1>4 DEF UpdateInv

\* A backup keeps the invariant.
LEMMA BackUpKeeps ==
  ASSUME UpdateInv, NEW w \in Writers, Update!BackUp(w)
  PROVE  UpdateInv'
<1> DEFINE j == [Update!Job(w) EXCEPT !.backedUp = TRUE]
<1>1. /\ writer[w] = "check" /\ Update!Copied(w) /\ writer' = [writer EXCEPT ![w] = "insert"] /\ k' = [k EXCEPT ![w] = k[w]]
      /\ Update!SetJob(w, j) /\ UNCHANGED <<disk, data, k, raced, late>>
  BY DEF Update!BackUp, UpdateInv, UpdateTypes
<1>2. /\ Update!Job(w) \in Jobs /\ Update!Job(w).dep \in Update!Deps /\ Update!Job(w).hash \in Update!FileHashes /\ k[w] \in 1..Len(pending[w]) /\ k[w] \in Nat
      /\ Update!Remote(Update!Job(w)) = <<Update!Job(w).dep, Update!Job(w).hash>> /\ Update!Remote(Update!Job(w)) \in Update!Paths /\ Update!Backup(Update!Job(w)) \in Update!Paths
  BY <1>1, JobTyped
<1>3. j \in Jobs /\ j.dep = Update!Job(w).dep /\ j.hash = Update!Job(w).hash /\ j.backedUp
  BY <1>2 DEF Jobs
<1>4. /\ BucketFits /\ cloud' \in [Update!Paths -> {Update!NoObject} \union (Update!Deps \X Update!FileHashes)] /\ shared' \in BOOLEAN
      /\ ~raced /\ ~shared' => \A d \in Update!Deps, h \in Update!FileHashes : InCloud(d, h) => InCloud(d, h)'
      /\ "insert" \in Places \ {"closed"}
  BY <1>1, CopiedFits DEF BucketFits, Places, Update!Working
<1>a. GoesOn(w, "insert", k[w])
  BY <1>2 DEF GoesOn
<1> HIDE DEF j
<1>b. JobStepped(w, "insert", k[w], j)
  BY <1>1, <1>2, <1>3, <1>4, <1>a, JobStep
<1>5. /\ UpdateTypes' /\ AtJob' /\ writer'[w] = "insert" /\ k'[w] = k[w] /\ Update!Busy(w)
      /\ Len(pending[w]) \in Nat /\ Len(pending'[w]) = Len(pending[w]) /\ pending'[w][k[w]] = j
      /\ \A n \in 1..Len(pending[w]) : n # k[w] => pending'[w][n] = pending[w][n]
      /\ \A n \in 1..Len(pending[w]) : pending'[w][n].dep = pending[w][n].dep /\ pending'[w][n].hash = pending[w][n].hash
      /\ \A v \in Writers : v # w => writer'[v] = writer[v] /\ pending'[v] = pending[v] /\ k'[v] = k[v]
      /\ \A v \in Writers : writer'[v] # "closed" => writer[v] # "closed"
      /\ \A v \in Writers, d \in Update!Deps, h \in Update!FileHashes : Pends(v, d, h) => Pends(v, d, h)'
  BY <1>b DEF JobStepped
<1>6. ASSUME ~raced', ~shared' PROVE Backed'
  <2>1. Backed /\ ~raced
    BY <1>1, <1>4, <1>6 DEF UpdateInv, BucketFits
  <2>3. \A d \in Update!Deps, h \in Update!FileHashes : InCloud(d, h) => InCloud(d, h)'
    BY <1>4, <1>6, <2>1
  <2>4. ObjectsFit'
    BY <1>4, <1>6, <2>1 DEF BucketFits
  <2>5. DiskBacked' /\ DataBacked' /\ \A d \in Update!Deps, h \in Update!FileHashes : Unused(d, h) => Unused(d, h)'
    BY <1>1, <1>5, <2>1, <2>3, NamesKept DEF UpdateInv, Backed
  <2>6. OwnUnused(w)'
    <3>1. SUFFICES ASSUME NEW n \in 1..Len(pending[w]), pending'[w][n].updated, ~pending'[w][n].backedUp
                   PROVE  Unused(pending[w][n].dep, pending[w][n].hash)'
      BY <1>5 DEF OwnUnused
    <3>2. n # k[w]
      BY <1>3, <1>5, <3>1
    <3>3. QED
      BY <1>5, <2>1, <2>5, <3>1, <3>2, JobsTyped DEF UpdateInv, Backed, OwnUnused
  <2>7. DoneBacked(w)'
    <3>1. Update!Job(w)' = j
      BY <1>5 DEF Update!Job
    <3>2. \A n \in 1..Len(pending[w]) : n < k[w] => InCloud(pending[w][n].dep, pending[w][n].hash)
      BY <1>1, <2>1 DEF Backed, DoneBacked
    <3>3. \A n \in 1..Len(pending[w]) : n < k[w] => InCloud(pending[w][n].dep, pending[w][n].hash)'
      <4>1. SUFFICES ASSUME NEW n \in 1..Len(pending[w]), n < k[w] PROVE InCloud(pending[w][n].dep, pending[w][n].hash)'
        OBVIOUS
      <4>2. PICK d \in Update!Deps, h \in Update!FileHashes : d = pending[w][n].dep /\ h = pending[w][n].hash /\ InCloud(d, h)
        BY <3>2, <4>1, JobsTyped DEF UpdateInv
      <4>3. InCloud(d, h)' /\ pending'[w][n].dep = d /\ pending'[w][n].hash = h
        BY <1>5, <2>3, <4>2
      <4>4. QED
        BY <4>3 DEF InCloud
    <3>4. QED
      BY <1>3, <1>5, <3>1, <3>3 DEF DoneBacked
  <2>8. QED
    BY <1>5, <2>1, <2>4, <2>5, <2>6, <2>7, WorkerKeeps DEF UpdateInv
<1>7. QED
  BY <1>5, <1>6 DEF UpdateInv

\* An upload: nobody relies on the object if there was none.
LEMMA InsertKeeps ==
  ASSUME UpdateInv, NEW w \in Writers, Update!Insert(w)
  PROVE  UpdateInv'
<1> DEFINE j == [Update!Job(w) EXCEPT !.updated = TRUE]
           p == IF k[w] = Len(pending[w]) THEN "write" ELSE "check"
<1>1. /\ writer[w] = "insert" /\ writer' = [writer EXCEPT ![w] = p] /\ k' = [k EXCEPT ![w] = k[w] + 1]
      /\ Update!Inserted(w) /\ shared' = shared /\ Update!SetJob(w, j) /\ UNCHANGED <<disk, data, raced, late>>
  BY DEF Update!Insert, Update!Inserted, UpdateInv, UpdateTypes
<1>2. /\ Update!Job(w) \in Jobs /\ Update!Job(w).dep \in Update!Deps /\ Update!Job(w).hash \in Update!FileHashes /\ k[w] \in 1..Len(pending[w]) /\ k[w] \in Nat
      /\ Update!Remote(Update!Job(w)) = <<Update!Job(w).dep, Update!Job(w).hash>> /\ Update!Remote(Update!Job(w)) \in Update!Paths
      /\ Len(pending[w]) \in Nat
  BY <1>1, JobTyped
<1>3. j \in Jobs /\ j.dep = Update!Job(w).dep /\ j.hash = Update!Job(w).hash /\ j.backedUp = Update!Job(w).backedUp
  BY <1>2 DEF Jobs
<1>4. /\ BucketFits /\ cloud' \in [Update!Paths -> {Update!NoObject} \union (Update!Deps \X Update!FileHashes)] /\ shared' \in BOOLEAN
      /\ cloud'[Update!Remote(Update!Job(w))] = Update!Remote(Update!Job(w)) /\ \A q \in Update!Paths : q # Update!Remote(Update!Job(w)) => cloud'[q] = cloud[q]
      /\ \A d \in Update!Deps, h \in Update!FileHashes : InCloud(d, h) => InCloud(d, h)'
  BY <1>1, InsertedFits DEF BucketFits
<1>5. p \in Places \ {"closed"} /\ k[w] + 1 \in Nat /\ GoesOn(w, p, k[w] + 1) /\ p \in {"check", "write"}
  BY <1>2 DEF GoesOn, Places, Update!Working
<1> HIDE DEF j, p
<1>6. JobStepped(w, p, k[w] + 1, j)
  BY <1>1, <1>2, <1>3, <1>4, <1>5, JobStep
<1>7. /\ UpdateTypes' /\ AtJob' /\ writer'[w] = p /\ k'[w] = k[w] + 1 /\ Update!Busy(w)
      /\ Len(pending'[w]) = Len(pending[w]) /\ pending'[w][k[w]] = j
      /\ \A n \in 1..Len(pending[w]) : n # k[w] => pending'[w][n] = pending[w][n]
      /\ \A n \in 1..Len(pending[w]) : pending'[w][n].dep = pending[w][n].dep /\ pending'[w][n].hash = pending[w][n].hash
      /\ \A v \in Writers : v # w => writer'[v] = writer[v] /\ pending'[v] = pending[v] /\ k'[v] = k[v]
      /\ \A v \in Writers : writer'[v] # "closed" => writer[v] # "closed"
      /\ \A v \in Writers, d \in Update!Deps, h \in Update!FileHashes : Pends(v, d, h) => Pends(v, d, h)'
  BY <1>6 DEF JobStepped
<1>8. ASSUME ~raced, ~shared PROVE Backed'
  <2>1. Backed
    BY <1>8 DEF UpdateInv
  <2>2. ObjectsFit'
    BY <1>1, <1>4, <1>8 DEF BucketFits
  <2>5. DiskBacked' /\ DataBacked' /\ \A d \in Update!Deps, h \in Update!FileHashes : Unused(d, h) => Unused(d, h)'
    BY <1>1, <1>4, <1>7, <2>1, NamesKept DEF UpdateInv, Backed
  <2>6. ASSUME ~Update!Job(w).backedUp PROVE Unused(Update!Job(w).dep, Update!Job(w).hash)
    <3>1. ~InCloud(Update!Job(w).dep, Update!Job(w).hash)
      <4>1. cloud[<<Update!Job(w).dep, Update!Job(w).hash>>] = Update!NoObject
        BY <1>1, <1>2, <2>1, <2>6 DEF Backed, DoneBacked
      <4>2. <<Update!Job(w).dep, Update!Job(w).hash>> # Update!NoObject
        BY <1>2, PathsDiffer
      <4>3. QED
        BY <4>1, <4>2 DEF InCloud
    <3>2. SUFFICES ASSUME <<Update!Job(w).dep, Update!Job(w).hash>> \notin late PROVE Unused(Update!Job(w).dep, Update!Job(w).hash)
      BY DEF Unused
    <3>3. disk # Update!Torn => disk[Update!Job(w).dep] # Update!Job(w).hash
      BY <1>2, <2>1, <3>1, <3>2 DEF Backed, DiskBacked, Safe
    <3>4. ASSUME NEW v \in Writers, writer[v] # "closed", data[v][Update!Job(w).dep] = Update!Job(w).hash PROVE Pends(v, Update!Job(w).dep, Update!Job(w).hash)
      BY <1>2, <2>1, <3>1, <3>2, <3>4 DEF Backed, DataBacked, NameBacked, Safe
    <3>5. QED
      BY <3>3, <3>4 DEF Unused
  <2>7. OwnUnused(w)'
    <3>1. SUFFICES ASSUME NEW n \in 1..Len(pending[w]), pending'[w][n].updated, ~pending'[w][n].backedUp
                   PROVE  Unused(pending[w][n].dep, pending[w][n].hash)'
      BY <1>7 DEF OwnUnused
    <3>2. CASE n # k[w]
      BY <1>7, <2>1, <2>5, <3>1, <3>2, JobsTyped DEF UpdateInv, Backed, OwnUnused
    <3>3. CASE n = k[w]
      <4>1. pending[w][n] = Update!Job(w) /\ ~Update!Job(w).backedUp
        BY <1>3, <1>7, <3>1, <3>3 DEF Update!Job
      <4>2. Unused(Update!Job(w).dep, Update!Job(w).hash)
        BY <2>6, <4>1
      <4>3. PICK e \in Update!Deps, g \in Update!FileHashes : e = pending[w][n].dep /\ g = pending[w][n].hash /\ Unused(e, g)
        BY <1>2, <4>1, <4>2
      <4>4. Unused(e, g)'
        BY <2>5, <4>3
      <4>5. pending'[w][n].dep = e /\ pending'[w][n].hash = g
        BY <1>7, <4>3
      <4>6. QED
        BY <4>4, <4>5
    <3>4. QED
      BY <3>2, <3>3
  <2>8. DoneBacked(w)'
    <3>1. \A n \in 1..Len(pending[w]) : n < k[w] => InCloud(pending[w][n].dep, pending[w][n].hash)
      BY <1>1, <2>1 DEF Backed, DoneBacked
    <3>2. SUFFICES ASSUME NEW n \in 1..Len(pending[w]), n < k[w] + 1
                   PROVE  cloud'[<<pending'[w][n].dep, pending'[w][n].hash>>] = <<pending'[w][n].dep, pending'[w][n].hash>>
      BY <1>5, <1>7 DEF DoneBacked, InCloud
    <3>3. CASE n = k[w]
      BY <1>2, <1>4, <1>7, <3>3 DEF Update!Job
    <3>4. CASE n # k[w]
      <4>1. n < k[w] /\ pending[w][n].dep \in Update!Deps /\ pending[w][n].hash \in Update!FileHashes
        BY <1>2, <3>2, <3>4, JobsTyped DEF UpdateInv
      <4>2. cloud[<<pending[w][n].dep, pending[w][n].hash>>] = <<pending[w][n].dep, pending[w][n].hash>>
        BY <3>1, <4>1 DEF InCloud
      <4>3. cloud'[<<pending[w][n].dep, pending[w][n].hash>>] = <<pending[w][n].dep, pending[w][n].hash>>
        BY <1>2, <1>4, <4>1, <4>2, PathsDiffer
      <4>4. QED
        BY <1>7, <4>3
    <3>5. QED
      BY <3>3, <3>4
  <2>9. QED
    BY <1>7, <2>1, <2>2, <2>5, <2>7, <2>8, WorkerKeeps DEF UpdateInv
<1>9. QED
  BY <1>1, <1>7, <1>8 DEF UpdateInv

\* A rolled back job that was uploaded is not any more; nobody relied on what a rollback deletes.
LEMMA RestoreKeeps ==
  ASSUME UpdateInv, NEW w \in Writers, writer[w] = "roll", Update!NextRoll(w), Update!Restored(w), UNCHANGED <<disk, data, raced, late>>,
         Update!SetJob(w, [Update!Job(w) EXCEPT !.none = @ \/ Update!Job(w).backedUp, !.updated = FALSE])
  PROVE  UpdateInv'
<1> DEFINE p == IF k[w] = 1 THEN "idle" ELSE "roll"
           j == [Update!Job(w) EXCEPT !.none = @ \/ Update!Job(w).backedUp, !.updated = FALSE]
<1>1. writer' = [writer EXCEPT ![w] = p] /\ k' = [k EXCEPT ![w] = k[w] - 1] /\ Update!SetJob(w, j)
  BY DEF Update!NextRoll, UpdateInv, UpdateTypes
<1>2. /\ Update!Job(w) \in Jobs /\ k[w] \in 1..Len(pending[w]) /\ k[w] \in Nat /\ Len(pending[w]) \in Nat
  BY JobTyped
<1>3. j \in Jobs /\ j.dep = Update!Job(w).dep /\ j.hash = Update!Job(w).hash /\ ~j.updated
  BY <1>2 DEF Jobs
<1>4. BucketFits /\ cloud' \in [Update!Paths -> {Update!NoObject} \union (Update!Deps \X Update!FileHashes)] /\ shared' \in BOOLEAN
  BY RestoredFits DEF BucketFits
<1>6. p \in Places \ {"closed"} /\ k[w] - 1 \in Nat /\ GoesOn(w, p, k[w] - 1) /\ p \in {"idle", "roll"}
  BY <1>2 DEF GoesOn, Places, Update!Working
<1> HIDE DEF p, j
<1>7. JobStepped(w, p, k[w] - 1, j)
  BY <1>1, <1>2, <1>3, <1>4, <1>6, JobStep
<1>8. /\ UpdateTypes' /\ AtJob' /\ writer'[w] = p /\ k'[w] = k[w] - 1 /\ Update!Busy(w)
      /\ Len(pending'[w]) = Len(pending[w]) /\ pending'[w][k[w]] = j
      /\ \A n \in 1..Len(pending[w]) : n # k[w] => pending'[w][n] = pending[w][n]
      /\ \A n \in 1..Len(pending[w]) : pending'[w][n].dep = pending[w][n].dep /\ pending'[w][n].hash = pending[w][n].hash
      /\ \A v \in Writers : v # w => writer'[v] = writer[v] /\ pending'[v] = pending[v] /\ k'[v] = k[v]
      /\ \A v \in Writers : writer'[v] # "closed" => writer[v] # "closed"
      /\ \A v \in Writers, d \in Update!Deps, h \in Update!FileHashes : Pends(v, d, h) => Pends(v, d, h)'
  BY <1>7 DEF JobStepped
<1>9. ASSUME ~raced, ~shared' PROVE Backed'
  <2>1. /\ Backed /\ ObjectsFit'
        /\ \A d \in Update!Deps, h \in Update!FileHashes : InCloud(d, h) => InCloud(d, h)' \/ Unused(d, h)
    BY <1>4, <1>9 DEF UpdateInv, BucketFits
  <2>2. DiskBacked' /\ DataBacked' /\ \A d \in Update!Deps, h \in Update!FileHashes : Unused(d, h) => Unused(d, h)'
    BY <1>8, <2>1, NamesKept DEF UpdateInv, Backed
  <2>3. OwnUnused(w)'
    <3>1. SUFFICES ASSUME NEW n \in 1..Len(pending[w]), pending'[w][n].updated, ~pending'[w][n].backedUp
                   PROVE  Unused(pending[w][n].dep, pending[w][n].hash)'
      BY <1>8 DEF OwnUnused
    <3>2. n # k[w] /\ pending'[w][n] = pending[w][n]
      BY <1>3, <1>8, <3>1
    <3>3. PICK d \in Update!Deps, h \in Update!FileHashes : d = pending[w][n].dep /\ h = pending[w][n].hash /\ Unused(d, h)
      BY <2>1, <3>1, <3>2, JobsTyped DEF UpdateInv, Backed, OwnUnused
    <3>4. Unused(d, h)'
      BY <2>2, <3>3
    <3>5. QED
      BY <3>2, <3>3, <3>4
  <2>4. DoneBacked(w)'
    BY <1>6, <1>8 DEF DoneBacked
  <2>5. QED
    BY <1>8, <2>1, <2>2, <2>3, <2>4, WorkerKeeps DEF UpdateInv
<1>10. QED
  BY <1>8, <1>9 DEF UpdateInv

\* What a writer that has done its jobs is about to write is there.
LEMMA WrittenIsSafe ==
  ASSUME UpdateInv, NEW w \in Writers, writer[w] = "write", DataBacked, DoneBacked(w), NEW d \in Update!Deps
  PROVE  Safe(d, data[w][d])
<1>1. NameBacked(w, d)
  BY DEF DataBacked
<1>2. \A n \in 1..Len(pending[w]) : InCloud(pending[w][n].dep, pending[w][n].hash)
  BY JobsTyped DEF UpdateInv, AtJob, DoneBacked
<1>3. QED
  BY <1>1, <1>2 DEF NameBacked, Safe, Pends, InCloud

\* The config is written when all jobs are done.
LEMMA WriteConfigKeeps ==
  ASSUME UpdateInv, NEW w \in Writers, Update!WriteConfigToFile(w)
  PROVE  UpdateInv'
<1>1. /\ writer[w] = "write" /\ disk' = data[w] /\ pending' = [pending EXCEPT ![w] = <<>>] /\ writer' = [writer EXCEPT ![w] = "idle"]
      /\ k' = [k EXCEPT ![w] = 0] /\ UNCHANGED <<cloud, data, raced, shared, late>>
  BY DEF Update!WriteConfigToFile
<1>2. /\ disk' \in [Update!Deps -> Update!FileHashes] /\ disk' = data[w]
      /\ writer' \in [Writers -> Places] /\ k' \in [Writers -> Nat] /\ pending' \in [Writers -> Seq(Jobs)]
      /\ writer'[w] = "idle" /\ pending'[w] = <<>> /\ Len(pending'[w]) = 0 /\ DOMAIN pending'[w] = {}
      /\ \A v \in Writers : v # w => writer'[v] = writer[v] /\ pending'[v] = pending[v] /\ k'[v] = k[v]
  BY <1>1 DEF UpdateInv, UpdateTypes, Places
<1>3. UpdateTypes' /\ AtJob'
  BY <1>1, <1>2 DEF UpdateInv, UpdateTypes, AtJob
<1>4. ASSUME ~raced, ~shared PROVE Backed'
  <2>1. Backed /\ Update!Busy(w)
    BY <1>1, <1>4 DEF UpdateInv, Update!Busy, Update!Working
  <2>2. ASSUME NEW d \in Update!Deps PROVE Safe(d, data[w][d])
    <3>1. NameBacked(w, d)
      BY <1>1, <2>1 DEF Backed, DataBacked
    <3>2. \A n \in 1..Len(pending[w]) : InCloud(pending[w][n].dep, pending[w][n].hash)
      BY <1>1, <2>1, JobsTyped DEF UpdateInv, AtJob, Backed, DoneBacked
    <3>3. QED
      BY <3>1, <3>2 DEF NameBacked, Pends, InCloud, Safe
  <2>3. DiskBacked' /\ ObjectsFit'
    BY <1>1, <2>1, <2>2 DEF Backed, DiskBacked, ObjectsFit, InCloud, Safe
  <2>4. DataBacked'
    <3>1. SUFFICES ASSUME NEW v \in Writers, writer'[v] # "closed", NEW d \in Update!Deps PROVE NameBacked(v, d)'
      BY DEF DataBacked
    <3>2. CASE v = w
      BY <1>1, <2>2, <3>2 DEF NameBacked, Safe, InCloud
    <3>3. CASE v # w
      BY <1>1, <1>2, <2>1, <3>1, <3>3 DEF Backed, DataBacked, NameBacked, InCloud, Pends, Safe
    <3>4. QED
      BY <3>2, <3>3
  <2>5. OwnUnused(w)' /\ DoneBacked(w)'
    BY <1>2 DEF OwnUnused, DoneBacked
  <2>6. QED
    BY <1>2, <2>1, <2>3, <2>4, <2>5, WorkerKeeps DEF UpdateInv
<1>5. QED
  BY <1>1, <1>3, <1>4 DEF UpdateInv

\* A config that could not be written stays or is torn, or is written all the same, and the jobs are rolled back.
LEMMA WriteFailsKeeps ==
  ASSUME UpdateInv, NEW w \in Writers, Update!WriteFails(w)
  PROVE  UpdateInv'
<1>1. /\ writer[w] = "write" /\ writer' = [writer EXCEPT ![w] = "roll"] /\ k' = [k EXCEPT ![w] = Len(pending[w])]
      /\ (disk' \in {disk, Update!Torn} /\ late' = late) \/ (disk' = data[w] /\ late' = late \union Update!Fresh(w))
      /\ UNCHANGED <<cloud, data, pending, raced, shared>>
  BY DEF Update!WriteFails, Update!RollBackAll
<1>2. /\ Len(pending[w]) \in Nat /\ Len(pending[w]) \in 1..Len(pending[w]) /\ "roll" \in Places
      /\ writer'[w] = "roll" /\ k'[w] = Len(pending[w])
      /\ \A v \in Writers : v # w => writer'[v] = writer[v] /\ k'[v] = k[v]
  <2>1. Len(pending[w]) \in Nat /\ k[w] = Len(pending[w]) + 1 /\ k[w] > 1
    BY <1>1, JobsTyped DEF UpdateInv, AtJob
  <2>2. Len(pending[w]) \in 1..Len(pending[w])
    BY <2>1
  <2>3. QED
    BY <1>1, <2>1, <2>2 DEF UpdateInv, UpdateTypes, Places, Update!Working
<1>3. UpdateTypes'
  <2>1. Update!Fresh(w) \subseteq Update!Paths
    <3>1. \A n \in 1..Len(pending[w]) : Update!Remote(pending[w][n]) \in Update!Paths
      BY JobsTyped, PathsDiffer DEF UpdateInv, Update!Remote
    <3>2. QED
      BY <3>1, JobsTyped DEF UpdateInv, Update!Fresh
  <2>2. QED
    BY <1>1, <1>2, <2>1 DEF UpdateInv, UpdateTypes
<1>4. AtJob'
  BY <1>1, <1>2 DEF UpdateInv, AtJob
<1>5. ASSUME ~raced, ~shared PROVE Backed'
  <2>1. Backed /\ Update!Busy(w)
    BY <1>1, <1>5 DEF UpdateInv, Update!Busy, Update!Working
  <2>2. /\ \A v \in Writers, d \in Update!Deps, h \in Update!FileHashes : Pends(v, d, h)' = Pends(v, d, h)
        /\ \A d \in Update!Deps, h \in Update!FileHashes : Safe(d, h) => Safe(d, h)'
        /\ \A v \in Writers : writer'[v] # "closed" => writer[v] # "closed"
    BY <1>1, <1>2 DEF Pends, InCloud, Safe
  <2>3. DiskBacked'
    <3>1. ASSUME NEW d \in Update!Deps PROVE Safe(d, data[w][d])
      BY <1>1, <2>1, <3>1, WrittenIsSafe DEF Backed
    <3>2. CASE disk' = disk
      BY <2>1, <2>2, <3>2 DEF Backed, DiskBacked, UpdateInv, UpdateTypes, Safe
    <3>3. CASE disk' = data[w]
      BY <2>2, <3>1, <3>3 DEF DiskBacked, UpdateInv, UpdateTypes, Safe
    <3>4. CASE disk' = Update!Torn
      BY <3>4 DEF DiskBacked, Update!Torn, Safe
    <3>5. QED
      BY <1>1, <3>2, <3>3, <3>4
  <2>4. DataBacked' /\ ObjectsFit'
    <3>1. ObjectsFit'
      BY <1>1, <2>1 DEF Backed, ObjectsFit
    <3>2. SUFFICES ASSUME NEW v \in Writers, writer'[v] # "closed", NEW d \in Update!Deps PROVE NameBacked(v, d)'
      BY <3>1 DEF DataBacked
    <3>3. data'[v][d] = data[v][d] /\ data[v][d] \in Update!FileHashes /\ NameBacked(v, d)
      BY <1>1, <2>1, <2>2, <3>2 DEF Backed, DataBacked, UpdateInv, UpdateTypes
    <3>4. QED
      BY <2>2, <3>3 DEF NameBacked
  <2>5. OwnUnused(w)'
    <3>1. CASE disk' \in {disk, Update!Torn} /\ late' = late
      <4>1. ASSUME NEW d \in Update!Deps, NEW h \in Update!FileHashes, Unused(d, h) PROVE Unused(d, h)'
        BY <1>1, <2>2, <3>1, <4>1 DEF Unused, Update!Torn
      <4>2. QED
        BY <1>1, <2>1, <4>1, JobsTyped DEF UpdateInv, Backed, OwnUnused
    <3>2. CASE late' = late \union Update!Fresh(w)
      <4>1. \A n \in 1..Len(pending[w]) : pending[w][n].updated /\ ~pending[w][n].backedUp => <<pending[w][n].dep, pending[w][n].hash>> \in late'
        BY <3>2, JobsTyped DEF UpdateInv, Update!Fresh, Update!Remote
      <4>2. QED
        BY <1>1, <4>1 DEF OwnUnused, Unused
    <3>3. QED
      BY <1>1, <3>1, <3>2
  <2>6. DoneBacked(w)'
    BY <1>2 DEF DoneBacked
  <2>7. QED
    BY <1>1, <1>2, <2>1, <2>3, <2>4, <2>5, <2>6, WorkerKeeps DEF UpdateInv
<1>6. QED
  BY <1>1, <1>3, <1>4, <1>5 DEF UpdateInv

\* A writer that ends leaves its jobs, and the config as it was, torn or written; the call it was at may have been obeyed.
LEMMA KilledKeeps ==
  ASSUME UpdateInv, NEW w \in Writers, Update!Killed(w)
  PROVE  UpdateInv'
<1>1. /\ writer[w] # "closed" /\ writer' = [writer EXCEPT ![w] = "closed"] /\ pending' = [pending EXCEPT ![w] = <<>>] /\ k' = [k EXCEPT ![w] = 0]
      /\ disk' = disk \/ (writer[w] = "write" /\ disk' \in {Update!Torn, data[w]})
      /\ Update!MaybeObeyed(w) /\ UNCHANGED <<data, raced, late>>
  BY DEF Update!Killed
<1>2. /\ writer' \in [Writers -> Places] /\ k' \in [Writers -> Nat] /\ pending' \in [Writers -> Seq(Jobs)]
      /\ writer'[w] = "closed" /\ pending'[w] = <<>> /\ Len(pending'[w]) = 0 /\ DOMAIN pending'[w] = {}
      /\ \A v \in Writers : v # w => writer'[v] = writer[v] /\ pending'[v] = pending[v] /\ k'[v] = k[v]
  BY <1>1 DEF UpdateInv, UpdateTypes, Places
<1>0. BucketFits
  BY <1>1, ObeyedFits
<1>3. UpdateTypes'
  BY <1>0, <1>1, <1>2 DEF UpdateInv, UpdateTypes, BucketFits
<1>4. AtJob'
  BY <1>1, <1>2 DEF UpdateInv, AtJob
<1>5. ASSUME ~raced, ~shared' PROVE Backed'
  <2>1. /\ Backed /\ ObjectsFit'
        /\ \A d \in Update!Deps, h \in Update!FileHashes : InCloud(d, h) => InCloud(d, h)' \/ Unused(d, h)
    BY <1>0, <1>5 DEF UpdateInv, BucketFits
  <2>2. writer[w] \notin {"check", "insert", "roll"} => UNCHANGED <<cloud, shared>>
    BY <1>1 DEF Update!MaybeObeyed
  <2>3. DiskBacked'
    <3>1. SUFFICES ASSUME disk' # Update!Torn, NEW d \in Update!Deps PROVE Safe(d, disk[d])'
      BY DEF DiskBacked, Update!Torn, Safe
    <3>2. CASE disk' = disk
      <4>1. Safe(d, disk[d]) /\ disk[d] \in Update!FileHashes /\ disk # Update!Torn
        BY <2>1, <3>1, <3>2 DEF Backed, DiskBacked, UpdateInv, UpdateTypes, Safe
      <4>2. QED
        BY <1>1, <2>1, <3>2, <4>1 DEF Safe, Unused
    <3>3. CASE writer[w] = "write" /\ disk' = data[w]
      <4>1. Safe(d, data[w][d])
        BY <2>1, <3>1, <3>3, WrittenIsSafe DEF Backed
      <4>2. QED
        BY <1>1, <2>2, <3>3, <4>1 DEF InCloud, Safe
    <3>4. QED
      BY <1>1, <3>1, <3>2, <3>3
  <2>4. DataBacked'
    <3>1. SUFFICES ASSUME NEW v \in Writers, writer'[v] # "closed", NEW d \in Update!Deps PROVE NameBacked(v, d)'
      BY DEF DataBacked
    <3>2. v # w /\ writer[v] # "closed" /\ data[v][d] \in Update!FileHashes /\ pending'[v] = pending[v]
      BY <1>2, <3>1 DEF UpdateInv, UpdateTypes
    <3>3. NameBacked(v, d)
      BY <2>1, <3>2 DEF Backed, DataBacked
    <3>4. Pends(v, d, data[v][d]) \/ Safe(d, data[v][d])'
      BY <1>1, <2>1, <3>2, <3>3 DEF NameBacked, Safe, Unused
    <3>5. QED
      BY <1>1, <3>2, <3>4 DEF NameBacked, Pends, Safe
  <2>6. \A v \in Writers : Update!Busy(v)' => v # w /\ Update!Busy(v)
    BY <1>2 DEF Update!Busy, Update!Working
  <2>7. Alone'
    BY <2>1, <2>6 DEF Backed, Alone
  <2>8. ASSUME NEW v \in Writers PROVE OwnUnused(v)' /\ DoneBacked(v)'
    <3>1. CASE v = w
      BY <1>2, <3>1 DEF OwnUnused, DoneBacked
    <3>2. CASE v # w /\ ~Update!Busy(v)
      <4>1. \A n \in 1..Len(pending[v]) : ~pending[v][n].updated
        BY <3>2, JobsTyped DEF Update!Busy, UpdateInv
      <4>2. QED
        BY <1>2, <3>2, <4>1 DEF OwnUnused, DoneBacked, Update!Busy, Update!Working
    <3>3. CASE v # w /\ Update!Busy(v)
      <4>1. ~Update!Busy(w)
        BY <2>1, <3>3 DEF Backed, Alone
      <4>2. writer[w] \notin {"check", "insert", "roll", "write"} /\ cloud' = cloud /\ disk' = disk
        BY <1>1, <2>2, <4>1 DEF Update!Busy, Update!Working
      <4>3. OwnUnused(v)'
        <5>1. SUFFICES ASSUME NEW n \in 1..Len(pending[v]), pending[v][n].updated, ~pending[v][n].backedUp
                       PROVE  Unused(pending[v][n].dep, pending[v][n].hash)'
          BY <1>2, <3>3 DEF OwnUnused
        <5>2. PICK d \in Update!Deps, h \in Update!FileHashes : d = pending[v][n].dep /\ h = pending[v][n].hash /\ Unused(d, h)
          BY <2>1, <5>1, JobsTyped DEF UpdateInv, Backed, OwnUnused
        <5>3. Unused(d, h)'
          BY <1>1, <1>2, <4>2, <5>2 DEF Unused, Pends
        <5>4. pending'[v][n].dep = d /\ pending'[v][n].hash = h
          BY <1>2, <3>3, <5>2
        <5>5. QED
          BY <5>3, <5>4
      <4>4. DoneBacked(v)'
        <5>1. writer'[v] = writer[v] /\ k'[v] = k[v] /\ pending'[v] = pending[v] /\ Update!Job(v)' = Update!Job(v)
          BY <1>1, <1>2, <3>3 DEF Update!Job
        <5>2. Update!Remote(Update!Job(v))' = Update!Remote(Update!Job(v))
          BY <5>1 DEF Update!Remote
        <5>3. QED
          BY <2>1, <4>2, <5>1, <5>2 DEF Backed, DoneBacked, InCloud
      <4>5. QED
        BY <4>3, <4>4
    <3>4. QED
      BY <3>1, <3>2, <3>3
  <2>9. QED
    BY <2>1, <2>3, <2>4, <2>7, <2>8 DEF Backed
<1>6. QED
  BY <1>1, <1>3, <1>4, <1>5 DEF UpdateInv

\* Steps that change only how far the writer is: a conflict, a failure, a check that finds nothing, and a rollback that skips or fails.
LEMMA MovesKeep ==
  ASSUME UpdateInv, NEW w \in Writers,
         \/ Update!Conflicts(w) \/ Update!NothingToBackUp(w) \/ Update!UploadFails(w) \/ Update!RollbackFails(w)
         \/ writer[w] = "roll" /\ Update!NextRoll(w) /\ UNCHANGED <<disk, data, force, fails, raced, late>> /\ UNCHANGED <<cloud, shared, pending>>
  PROVE  UpdateInv'
<1>1. UNCHANGED <<disk, data, pending, raced, late>> /\ writer[w] \in {"check", "insert", "roll"} /\ Update!MaybeObeyed(w)
  BY DEF Update!Conflicts, Update!NothingToBackUp, Update!UploadFails, Update!RollbackFails, Update!MaybeObeyed
<1>2. /\ k[w] \in 1..Len(pending[w]) /\ Len(pending[w]) \in Nat /\ k[w] \in Nat /\ k[w] = k[w] /\ k = [k EXCEPT ![w] = k[w]]
      /\ Len(pending[w]) \in 1..Len(pending[w]) /\ {"roll", "insert", "idle"} \subseteq Places \ {"closed"}
  BY <1>1, JobTyped DEF UpdateInv, UpdateTypes, Places, Update!Working
<1>3. CASE Update!Conflicts(w) \/ Update!UploadFails(w)
  BY <1>1, <1>2, <1>3, ControlKeeps DEF Update!Conflicts, Update!UploadFails, Update!RollBackAll
<1>4. CASE Update!NothingToBackUp(w)
  BY <1>1, <1>2, <1>4, ControlKeeps DEF Update!NothingToBackUp
<1>5. CASE Update!RollbackFails(w)
  BY <1>1, <1>2, <1>5, ControlKeeps DEF Update!RollbackFails
<1>6. CASE writer[w] = "roll" /\ Update!NextRoll(w)
  <2>1. writer' = [writer EXCEPT ![w] = IF k[w] = 1 THEN "idle" ELSE "roll"] /\ k' = [k EXCEPT ![w] = k[w] - 1]
    BY <1>6 DEF Update!NextRoll, UpdateInv, UpdateTypes
  <2>2. CASE k[w] = 1
    <3>1. writer' = [writer EXCEPT ![w] = "idle"] /\ k' = [k EXCEPT ![w] = 0] /\ 0 \in Nat
      BY <2>1, <2>2
    <3>2. QED
      BY <1>1, <1>2, <3>1, ControlKeeps
  <2>3. CASE k[w] # 1
    <3>1. k[w] - 1 \in 1..Len(pending[w]) /\ k[w] - 1 \in Nat
      BY <1>2, <2>3
    <3>2. QED
      BY <1>1, <1>2, <2>1, <2>3, <3>1, ControlKeeps
  <2>4. QED
    BY <2>2, <2>3
<1>7. QED
  BY <1>3, <1>4, <1>5, <1>6

\* A step that leaves the update alone keeps the invariant.
LEMMA UpdateStutters ==
  ASSUME UpdateInv, UNCHANGED updateVars
  PROVE  UpdateInv'
<1>1. UNCHANGED <<disk, cloud, data, pending, writer, k, force, fails, raced, shared, late>>
  BY DEF updateVars, Update!vars
<1>2. UpdateTypes' /\ AtJob'
  BY <1>1 DEF UpdateInv, UpdateTypes, AtJob
<1>3. /\ \A v \in Writers, d \in Update!Deps, h \in Update!FileHashes : Pends(v, d, h)' = Pends(v, d, h)
      /\ \A d \in Update!Deps, h \in Update!FileHashes : InCloud(d, h)' = InCloud(d, h)
      /\ \A v \in Writers : Update!Busy(v)' = Update!Busy(v) /\ Update!Job(v)' = Update!Job(v)
  BY <1>1 DEF Pends, InCloud, Update!Busy, Update!Job
<1>4. \A v \in Writers : Update!Remote(Update!Job(v))' = Update!Remote(Update!Job(v))
  BY <1>3 DEF Update!Remote
<1>5. ASSUME Backed PROVE Backed'
  <2>1. Alone' /\ ObjectsFit'
    BY <1>1, <1>3, <1>5 DEF Backed, Alone, ObjectsFit
  <2>2. DiskBacked' /\ DataBacked' /\ \A d \in Update!Deps, h \in Update!FileHashes : Unused(d, h) => Unused(d, h)'
    BY <1>1, <1>3, <1>5, NamesKept DEF UpdateInv, Backed
  <2>3. ASSUME NEW v \in Writers PROVE OwnUnused(v)' /\ DoneBacked(v)'
    <3>1. OwnUnused(v)'
      BY <1>1, <1>5, <2>2, JobsTyped DEF UpdateInv, Backed, OwnUnused
    <3>2. DoneBacked(v)'
      BY <1>1, <1>3, <1>4, <1>5 DEF Backed, DoneBacked, InCloud
    <3>3. QED
      BY <3>1, <3>2
  <2>4. QED
    BY <2>1, <2>2, <2>3 DEF Backed
<1>6. QED
  BY <1>1, <1>2, <1>5 DEF UpdateInv

\* Every step of the update keeps the invariant.
LEMMA UpdateInvStep ==
  ASSUME UpdateInv, [Update!Next]_updateVars
  PROVE  UpdateInv'
<1> SUFFICES ASSUME Update!Next PROVE UpdateInv'
  BY UpdateStutters
<1>1. PICK w \in Writers :
        \/ Update!Open(w) \/ Update!Conflicts(w) \/ Update!BackUp(w) \/ Update!NothingToBackUp(w) \/ Update!Insert(w) \/ Update!UploadFails(w)
        \/ Update!WriteConfigToFile(w) \/ Update!WriteFails(w) \/ Update!Rollback(w) \/ Update!RollbackFails(w) \/ Update!Killed(w)
        \/ \E f \in BOOLEAN : Update!ExecuteUpdateJobs(w, f)
        \/ \E d \in Update!Deps, h \in Update!FileHashes, execute \in BOOLEAN : Update!AddCloudStorageDependencyUpdateJob(w, d, h, execute)
  BY DEF Update!Next
<1>2. CASE Update!Rollback(w)
  <2>1. CASE Update!Restored(w) /\ Update!SetJob(w, [Update!Job(w) EXCEPT !.none = @ \/ Update!Job(w).backedUp, !.updated = FALSE])
    BY <1>2, <2>1, RestoreKeeps DEF Update!Rollback
  <2>2. CASE UNCHANGED <<cloud, shared, pending>>
    BY <1>2, <2>2, MovesKeep DEF Update!Rollback
  <2>3. QED
    BY <1>2, <2>1, <2>2 DEF Update!Rollback
<1>3. CASE \E f \in BOOLEAN : Update!ExecuteUpdateJobs(w, f)
  BY <1>3, ExecuteKeeps
<1>4. CASE \E d \in Update!Deps, h \in Update!FileHashes, execute \in BOOLEAN : Update!AddCloudStorageDependencyUpdateJob(w, d, h, execute)
  BY <1>4, AddKeeps
<1>5. QED
  BY <1>1, <1>2, <1>3, <1>4, OpenKeeps, BackUpKeeps, InsertKeeps, WriteConfigKeeps, WriteFailsKeeps, KilledKeeps, MovesKeep

\* What the invariant says of the config.
LEMMA UpdateInvImplies ==
  ASSUME UpdateInv
  PROVE  Update!ConfigIsBacked
<1>1. SUFFICES ASSUME NEW d \in Update!Deps, disk # Update!Torn, ~raced, ~shared PROVE cloud[<<d, disk[d]>>] = <<d, disk[d]>> \/ <<d, disk[d]>> \in late
  BY DEF Update!ConfigIsBacked
<1>2. QED
  BY <1>1 DEF UpdateInv, Backed, DiskBacked, InCloud, Safe

\* The bounds of the update: a writer has no more jobs than it may, is at one of them or next to them, and is at none without a config.
WriterFits(w) ==
  /\ Len(pending[w]) <= MaxJobs[w] /\ k[w] \in 0..Len(pending[w]) + 1
  /\ writer[w] = "closed" => k[w] = 0
UpdateBounds == fails \in 0..MaxUpdateFails /\ force \in [Writers -> BOOLEAN] /\ \A w \in Writers : WriterFits(w)

\* The bounds hold at first.
LEMMA UpdateBoundsInit == Update!Init => UpdateBounds
<1> SUFFICES ASSUME Update!Init PROVE UpdateBounds
  OBVIOUS
<1>1. 0 \in 0..MaxUpdateFails /\ Len(<<>>) = 0 /\ 0 \in 0..0 + 1
  BY ToolsAssumption DEF Update!UpdateAssumption
<1>2. ASSUME NEW w \in Writers PROVE WriterFits(w)
  <2>1. MaxJobs[w] \in Nat /\ pending[w] = <<>> /\ k[w] = 0
    BY ToolsAssumption DEF Update!UpdateAssumption, Update!Init
  <2>2. QED
    BY <1>1, <2>1 DEF WriterFits
<1>3. QED
  BY <1>1, <1>2 DEF Update!Init, UpdateBounds

\* What fails is counted within its bound.
LEMMA FailsFit == ASSUME UpdateBounds PROVE (Update!Fails => fails' \in 0..MaxUpdateFails) /\ (fails' = fails => fails' \in 0..MaxUpdateFails)
BY ToolsAssumption DEF Update!UpdateAssumption, UpdateBounds, Update!Fails

\* A step of one writer leaves the others alone.
Leaves(w) == \A v \in Writers : v # w => pending'[v] = pending[v] /\ k'[v] = k[v] /\ writer'[v] = writer[v]
LEMMA WriterKeeps ==
  ASSUME UpdateBounds, NEW w \in Writers, Leaves(w), WriterFits(w)', fails' \in 0..MaxUpdateFails, force' \in [Writers -> BOOLEAN]
  PROVE  UpdateBounds'
<1>1. ASSUME NEW v \in Writers, v # w PROVE WriterFits(v)'
  BY <1>1 DEF Leaves, UpdateBounds, WriterFits
<1>2. QED
  BY <1>1 DEF UpdateBounds

\* Opening, or the end of the process, leaves no jobs.
LEMMA EmptyBounds ==
  ASSUME UpdateInv, UpdateBounds, NEW w \in Writers, Update!Open(w) \/ Update!Killed(w) \/ Update!WriteConfigToFile(w)
  PROVE  UpdateBounds'
<1>1. pending' = [pending EXCEPT ![w] = <<>>] /\ force' = force /\ (fails' = fails \/ Update!Fails)
  BY DEF Update!Open, Update!Killed, Update!WriteConfigToFile
<1>2. (k[w] = 0 /\ k' = k) \/ k' = [k EXCEPT ![w] = 0]
  BY DEF Update!Open, Update!Killed, Update!WriteConfigToFile, UpdateBounds, WriterFits
<1>3. pending'[w] = <<>> /\ k'[w] = 0
  BY <1>1, <1>2 DEF UpdateInv, UpdateTypes
<1>4. Leaves(w)
  BY <1>1, <1>2 DEF UpdateInv, UpdateTypes, Leaves, Update!Open, Update!Killed, Update!WriteConfigToFile
<1>5. WriterFits(w)'
  <2>1. Len(<<>>) = 0 /\ 0 \in 0..0 + 1 /\ MaxJobs[w] \in Nat
    BY ToolsAssumption DEF Update!UpdateAssumption
  <2>2. QED
    BY <1>3, <2>1 DEF WriterFits
<1>6. fails' \in 0..MaxUpdateFails
  BY <1>1, FailsFit
<1>7. force' \in [Writers -> BOOLEAN]
  BY <1>1 DEF UpdateBounds
<1>8. QED
  BY <1>4, <1>5, <1>6, <1>7, WriterKeeps

\* A job that is added is within the bound, and its execution begins with the first one.
LEMMA AddedBounds ==
  ASSUME UpdateInv, UpdateBounds, NEW w \in Writers, NEW d \in Update!Deps, NEW h \in Update!FileHashes, NEW execute \in BOOLEAN,
         Update!AddCloudStorageDependencyUpdateJob(w, d, h, execute)
  PROVE  UpdateBounds'
<1> DEFINE j == [dep |-> d, hash |-> h, updated |-> FALSE, backedUp |-> FALSE, none |-> FALSE]
<1>1. /\ pending' = [pending EXCEPT ![w] = Append(@, j)] /\ fails' = fails /\ Len(pending[w]) < MaxJobs[w] /\ writer[w] = "idle"
      /\ (Update!Begin(w, FALSE) \/ UNCHANGED <<writer, k, force, raced>>)
  BY DEF Update!AddCloudStorageDependencyUpdateJob
<1>2. pending[w] \in Seq(Jobs) /\ pending'[w] = Append(pending[w], j) /\ MaxJobs[w] \in Nat
  BY <1>1, ToolsAssumption DEF Update!UpdateAssumption, UpdateInv, UpdateTypes
<1> HIDE DEF j
<1>3. Len(pending[w]) \in Nat /\ Len(pending'[w]) = Len(pending[w]) + 1 /\ Len(pending'[w]) <= MaxJobs[w]
  BY <1>1, <1>2
<1>4. k'[w] \in {1, k[w]} /\ writer'[w] # "closed" /\ Leaves(w) /\ force' \in [Writers -> BOOLEAN]
  <2>1. CASE Update!Begin(w, FALSE)
    BY <1>1, <2>1 DEF Update!Begin, Leaves, UpdateInv, UpdateTypes, UpdateBounds
  <2>2. CASE UNCHANGED <<writer, k, force, raced>>
    BY <1>1, <2>2 DEF Leaves, UpdateInv, UpdateTypes, UpdateBounds
  <2>3. QED
    BY <1>1, <2>1, <2>2
<1>5. k'[w] \in 0..Len(pending'[w]) + 1
  BY <1>3, <1>4 DEF UpdateBounds, WriterFits
<1>6. WriterFits(w)'
  BY <1>3, <1>4, <1>5 DEF WriterFits
<1>7. fails' \in 0..MaxUpdateFails
  BY <1>1, FailsFit
<1>8. QED
  BY <1>4, <1>6, <1>7, WriterKeeps

\* A step between the jobs, whose number stays: to the first, the next or the last one, back, or to none.
LEMMA JobBounds ==
  ASSUME UpdateInv, UpdateBounds, NEW w \in Writers,
         \A v \in Writers : Len(pending'[v]) = Len(pending[v]), \A v \in Writers : v # w => pending'[v] = pending[v],
         \A v \in Writers : v # w => k'[v] = k[v] /\ writer'[v] = writer[v],
         writer'[w] # "closed", k'[w] \in {0, 1, k[w], k[w] - 1, k[w] + 1, Len(pending[w])},
         k'[w] = k[w] - 1 => k[w] > 0, k'[w] = k[w] + 1 => k[w] <= Len(pending[w]),
         fails' = fails \/ Update!Fails, force' \in [Writers -> BOOLEAN]
  PROVE  UpdateBounds'
<1>1. Len(pending[w]) \in Nat /\ k[w] \in Nat /\ k[w] \in 0..Len(pending[w]) + 1 /\ Len(pending'[w]) = Len(pending[w])
  BY DEF UpdateInv, UpdateTypes, UpdateBounds, WriterFits
<1>2. k'[w] \in 0..Len(pending[w]) + 1
  BY <1>1
<1>3. WriterFits(w)'
  BY <1>1, <1>2 DEF UpdateBounds, WriterFits
<1>4. Leaves(w)
  BY DEF Leaves
<1>5. fails' \in 0..MaxUpdateFails
  BY FailsFit
<1>6. QED
  BY <1>3, <1>4, <1>5, WriterKeeps

\* What a job becomes is a job.
LEMMA JobsStayJobs ==
  ASSUME UpdateInv, NEW w \in Writers, writer[w] \in {"check", "insert", "roll"}
  PROVE  /\ k[w] \in 1..Len(pending[w]) /\ Update!Job(w) \in Jobs
         /\ [Update!Job(w) EXCEPT !.backedUp = TRUE] \in Jobs /\ [Update!Job(w) EXCEPT !.updated = TRUE] \in Jobs
         /\ [Update!Job(w) EXCEPT !.none = @ \/ Update!Job(w).backedUp, !.updated = FALSE] \in Jobs
<1>1. k[w] \in 1..Len(pending[w]) /\ pending[w] \in Seq(Jobs)
  BY DEF UpdateInv, UpdateTypes, AtJob
<1>2. Update!Job(w) \in Jobs
  BY <1>1 DEF Update!Job
<1>3. QED
  BY <1>1, <1>2 DEF Jobs

\* Every step of a writer keeps the bounds.
LEMMA UpdateBoundsStep == UpdateInv /\ UpdateBounds /\ [Update!Next]_updateVars => UpdateBounds'
<1> SUFFICES ASSUME UpdateInv, UpdateBounds, Update!Next \/ UNCHANGED updateVars PROVE UpdateBounds'
  OBVIOUS
<1>0. force \in [Writers -> BOOLEAN] /\ writer \in [Writers -> Places] /\ k \in [Writers -> Nat]
  BY DEF UpdateInv, UpdateTypes, UpdateBounds
<1>1. ASSUME NEW w \in Writers, NEW f \in BOOLEAN, Update!ExecuteUpdateJobs(w, f) PROVE UpdateBounds'
  <2>1. /\ pending' = pending /\ fails' = fails /\ force' \in [Writers -> BOOLEAN] /\ k'[w] = 1 /\ writer'[w] = "check"
        /\ \A v \in Writers : v # w => k'[v] = k[v] /\ writer'[v] = writer[v]
    BY <1>0, <1>1 DEF Update!ExecuteUpdateJobs, Update!Begin
  <2>2. pending[w] \in Seq(Jobs) /\ pending[w] # <<>>
    BY <1>1 DEF Update!ExecuteUpdateJobs, UpdateInv, UpdateTypes
  <2>3. Len(pending[w]) \in Nat /\ Len(pending[w]) >= 1
    BY <2>2
  <2>4. k[w] \in Nat /\ (1 = k[w] - 1 => k[w] > 0) /\ (1 = k[w] + 1 => k[w] <= Len(pending[w]))
    BY <1>0, <2>3
  <2>5. QED
    BY <2>1, <2>4, JobBounds
<1>2. ASSUME NEW w \in Writers, Update!Conflicts(w) \/ Update!UploadFails(w) \/ Update!WriteFails(w) PROVE UpdateBounds'
  <2>1. /\ pending' = pending /\ (fails' = fails \/ Update!Fails) /\ force' = force /\ k'[w] = Len(pending[w]) /\ writer'[w] = "roll"
        /\ \A v \in Writers : v # w => k'[v] = k[v] /\ writer'[v] = writer[v]
    BY <1>0, <1>2 DEF Update!Conflicts, Update!UploadFails, Update!WriteFails, Update!RollBackAll
  <2>2. /\ Len(pending[w]) \in Nat /\ k[w] \in Nat /\ (Len(pending[w]) = k[w] - 1 => k[w] > 0)
        /\ (Len(pending[w]) = k[w] + 1 => k[w] <= Len(pending[w]))
    BY DEF UpdateInv, UpdateTypes
  <2>3. QED
    BY <1>0, <2>1, <2>2, JobBounds
<1>3. ASSUME NEW w \in Writers, Update!BackUp(w) \/ Update!NothingToBackUp(w) \/ Update!Insert(w) PROVE UpdateBounds'
  <2>1. writer[w] \in {"check", "insert", "roll"} /\ k[w] \in 1..Len(pending[w])
    BY <1>3, JobsStayJobs DEF Update!BackUp, Update!NothingToBackUp, Update!Insert
  <2>2. pending' = pending \/ \E j \in Jobs : Update!SetJob(w, j)
    BY <1>3, <2>1, JobsStayJobs DEF Update!BackUp, Update!NothingToBackUp, Update!Insert
  <2>3. (\A v \in Writers : Len(pending'[v]) = Len(pending[v])) /\ \A v \in Writers : v # w => pending'[v] = pending[v]
    BY <2>1, <2>2, JobIsSet DEF UpdateInv
  <2>4. /\ fails' = fails /\ force' = force /\ k'[w] \in {k[w], k[w] + 1} /\ writer'[w] \in {"check", "insert", "write"}
        /\ \A v \in Writers : v # w => k'[v] = k[v] /\ writer'[v] = writer[v]
    BY <1>0, <1>3 DEF Update!BackUp, Update!NothingToBackUp, Update!Insert
  <2>5. Len(pending[w]) \in Nat /\ k[w] \in Nat /\ k[w] > 0 /\ k[w] <= Len(pending[w])
    BY <2>1 DEF UpdateInv, UpdateTypes
  <2>6. QED
    BY <1>0, <2>3, <2>4, <2>5, JobBounds
<1>4. ASSUME NEW w \in Writers, Update!Rollback(w) \/ Update!RollbackFails(w) PROVE UpdateBounds'
  <2>1. writer[w] \in {"check", "insert", "roll"} /\ k[w] \in 1..Len(pending[w])
    BY <1>4, JobsStayJobs DEF Update!Rollback, Update!RollbackFails
  <2>2. pending' = pending \/ \E j \in Jobs : Update!SetJob(w, j)
    BY <1>4, <2>1, JobsStayJobs DEF Update!Rollback, Update!RollbackFails
  <2>3. (\A v \in Writers : Len(pending'[v]) = Len(pending[v])) /\ \A v \in Writers : v # w => pending'[v] = pending[v]
    BY <2>1, <2>2, JobIsSet DEF UpdateInv
  <2>4. /\ (fails' = fails \/ Update!Fails) /\ force' = force /\ k'[w] \in {0, k[w] - 1} /\ writer'[w] \in {"idle", "roll"}
        /\ \A v \in Writers : v # w => k'[v] = k[v] /\ writer'[v] = writer[v]
    BY <1>0, <1>4 DEF Update!Rollback, Update!RollbackFails, Update!NextRoll
  <2>5. k[w] \in Nat /\ k[w] > 0 /\ 0 # k[w] + 1 /\ k[w] - 1 # k[w] + 1
    BY <2>1 DEF UpdateInv, UpdateTypes
  <2>6. QED
    BY <1>0, <2>3, <2>4, <2>5, JobBounds
<1>5. CASE UNCHANGED updateVars
  BY <1>5 DEF updateVars, Update!vars, UpdateBounds, WriterFits
<1>6. QED
  BY <1>1, <1>2, <1>3, <1>4, <1>5, EmptyBounds, AddedBounds DEF Update!Next

\* The types of the update.
LEMMA UpdateTypesHold == UpdateInv /\ UpdateBounds => Update!TypeOK
<1> SUFFICES ASSUME UpdateInv, UpdateBounds PROVE Update!TypeOK
  OBVIOUS
<1>1. \A w \in Writers : \A n \in DOMAIN pending[w] : pending[w][n] \in Jobs
  BY DEF UpdateInv, UpdateTypes
<1>2. \A w \in Writers : Len(pending[w]) <= MaxJobs[w] /\ k[w] \in 0..Len(pending[w]) + 1
  BY DEF UpdateBounds, WriterFits
<1>3. QED
  BY <1>1, <1>2 DEF UpdateInv, UpdateTypes, UpdateBounds, Update!TypeOK, Places, Jobs

-----------------------------------------------------------------------------
(* The fetch of an archive *)

FetchTypes ==
  /\ caller \in [Callers -> {"idle", "lock", "fetch", "unlock"} \union Fetch!Unlocked]
  /\ holder \in Callers \union {"none"} /\ archive \in Hashes \union {"none"}
  /\ source \in [Callers -> Hashes \union {"none"}] /\ stale \in [Callers -> SUBSET Hashes] /\ unsafe \in BOOLEAN
  /\ DOMAIN unzipped = Hashes /\ DOMAIN fetched = Callers

\* The callers between Acquire and Release hold the lock, and leave the archive that they want.
LockInv ==
  /\ \A c \in Callers : caller[c] \in {"fetch", "unlock"} => holder = c
  /\ \A c \in Callers : caller[c] = "unlock" => archive = Wants[c]

\* One caller at a time is past the lock, with the archive it wants.
OneUnlocked == \A c, o \in Callers : caller[c] \in Fetch!Unlocked /\ caller[o] \in Fetch!Unlocked => c = o
ArchiveInv ==
  /\ \A c \in Callers : caller[c] \in {"look", "clean", "open"} => archive = Wants[c]
  /\ \A c \in Callers : caller[c] = "extract" => source[c] = Wants[c]

\* A tree that would be taken for a whole one is whole, or someone extracts or removes it; who is to extract a tree
\* begins without its dependency.
TreeInv ==
  /\ \A h \in Hashes :
       /\ unzipped[h] \subseteq Fetch!Whole(h)
       /\ Fetch!Halfway(unzipped[h]) =>
            \E c \in Callers : (caller[c] = "extract" /\ Wants[c] = h) \/ (caller[c] = "clean" /\ h \in stale[c])
  /\ \A c \in Callers : caller[c] \in {"clean", "open"} => "dependency" \notin Fetch!Names(unzipped[Wants[c]])

GotInv == \A c \in Callers : fetched[c].out = "path" => fetched[c].tree = Fetch!Whole(Wants[c])

SafeInv == OneUnlocked /\ ArchiveInv /\ TreeInv /\ GotInv
FetchInv == FetchTypes /\ LockInv /\ (unsafe \/ SafeInv)

-----------------------------------------------------------------------------
(* Trees *)

\* A part of a whole tree that has the dependency, or all names, is not empty; with all names it is the whole.
LEMMA WholeTrees ==
  ASSUME NEW h, NEW T, T \subseteq Fetch!Whole(h)
  PROVE  /\ \A U \in SUBSET T : "dependency" \in Fetch!Names(U) => "dependency" \in Fetch!Names(T)
         /\ (\A f \in Fetch!Files : <<f, h>> \in T) => T = Fetch!Whole(h)
         /\ h \in Hashes => ~Fetch!Halfway(Fetch!Whole(h)) /\ ~Fetch!Halfway({})
         /\ "dependency" \in Fetch!Names(T) /\ ~Fetch!Halfway(T) => T = Fetch!Whole(h)
<1>1. \A U \in SUBSET T : "dependency" \in Fetch!Names(U) => "dependency" \in Fetch!Names(T)
  BY DEF Fetch!Names
<1>2. (\A f \in Fetch!Files : <<f, h>> \in T) => T = Fetch!Whole(h)
  BY DEF Fetch!Whole
<1>3. h \in Hashes => ~Fetch!Halfway(Fetch!Whole(h)) /\ ~Fetch!Halfway({})
  BY DEF Fetch!Halfway, Fetch!Names
<1>4. ASSUME "dependency" \in Fetch!Names(T), NEW g \in Hashes, T = Fetch!Whole(g) PROVE T = Fetch!Whole(h)
  <2>1. "dependency" \in Fetch!Files
    BY DEF Fetch!Files
  <2>2. <<"dependency", g>> \in Fetch!Files \X {h}
    BY <1>4, <2>1 DEF Fetch!Whole
  <2>3. QED
    BY <1>4, <2>2
<1>5. QED
  BY <1>1, <1>2, <1>3, <1>4 DEF Fetch!Halfway

-----------------------------------------------------------------------------
(* The steps *)

\* Under the lock.
LEMMA LockedStep ==
  ASSUME Fetch!CloudFetchAssumption, FetchInv, NEW c \in Callers,
         Fetch!GetRemotePath(c) \/ Fetch!Acquire(c) \/ Fetch!AcquireTimesOut(c) \/ Fetch!Fetch(c) \/ Fetch!FetchFails(c) \/ Fetch!Release(c)
  PROVE  FetchInv'
<1> USE DEF Fetch!CloudFetchAssumption, FetchInv, FetchTypes, Fetch!To, Fetch!Return, Fetch!Fails, Fetch!Unlocked
<1>1. CASE Fetch!GetRemotePath(c) \/ Fetch!AcquireTimesOut(c) \/ Fetch!FetchFails(c)
  <2>1. /\ caller[c] \in {"idle", "lock", "fetch"} /\ UNCHANGED <<archive, unzipped, source, stale, unsafe>>
        /\ caller' = [caller EXCEPT ![c] = "lock"] \/ caller' = [caller EXCEPT ![c] = "idle"]
        /\ fetched' = [fetched EXCEPT ![c] = Fetch!Nothing] \/ fetched' = [fetched EXCEPT ![c] = Fetch!Error]
    BY <1>1 DEF Fetch!GetRemotePath, Fetch!AcquireTimesOut, Fetch!FetchFails
  <2>2. holder' = IF caller[c] = "fetch" THEN "none" ELSE holder
    BY <1>1 DEF Fetch!GetRemotePath, Fetch!AcquireTimesOut, Fetch!FetchFails
  <2>3. FetchTypes' /\ LockInv'
    BY <2>1, <2>2 DEF LockInv
  <2>4. SafeInv => OneUnlocked' /\ ArchiveInv'
    BY <2>1 DEF SafeInv, OneUnlocked, ArchiveInv
  <2>5. SafeInv => TreeInv' /\ GotInv'
    BY <2>1 DEF SafeInv, TreeInv, GotInv, Fetch!Nothing, Fetch!Error
  <2>6. QED
    BY <2>1, <2>3, <2>4, <2>5 DEF SafeInv
<1>2. CASE Fetch!Acquire(c)
  <2>1. FetchTypes' /\ LockInv'
    BY <1>2 DEF Fetch!Acquire, LockInv
  <2>2. SafeInv => SafeInv'
    BY <1>2 DEF Fetch!Acquire, SafeInv, OneUnlocked, ArchiveInv, TreeInv, GotInv
  <2>3. QED
    BY <1>2, <2>1, <2>2 DEF Fetch!Acquire
<1>3. CASE Fetch!Fetch(c)
  <2>1. FetchTypes' /\ LockInv'
    BY <1>3 DEF Fetch!Fetch, LockInv
  <2>2. ASSUME ~unsafe' PROVE SafeInv'
    <3>1. SafeInv /\ (archive = Wants[c] \/ \A o \in Callers \ {c} : caller[o] \notin Fetch!Unlocked)
      BY <1>3, <2>2 DEF Fetch!Fetch
    <3>2. OneUnlocked' /\ ArchiveInv'
      BY <1>3, <3>1 DEF Fetch!Fetch, SafeInv, OneUnlocked, ArchiveInv
    <3>3. TreeInv' /\ GotInv'
      BY <1>3, <3>1 DEF Fetch!Fetch, SafeInv, TreeInv, GotInv
    <3>4. QED
      BY <3>2, <3>3 DEF SafeInv
  <2>3. QED
    BY <2>1, <2>2
<1>4. CASE Fetch!Release(c)
  <2>1. FetchTypes' /\ LockInv'
    BY <1>4 DEF Fetch!Release, LockInv
  <2>2. ASSUME ~unsafe' PROVE SafeInv'
    <3>1. SafeInv /\ \A o \in Callers \ {c} : caller[o] \notin Fetch!Unlocked
      BY <1>4, <2>2 DEF Fetch!Release
    <3>2. OneUnlocked' /\ ArchiveInv'
      BY <1>4, <3>1 DEF Fetch!Release, SafeInv, OneUnlocked, ArchiveInv, LockInv
    <3>3. TreeInv' /\ GotInv'
      BY <1>4, <3>1 DEF Fetch!Release, SafeInv, TreeInv, GotInv
    <3>4. QED
      BY <3>2, <3>3 DEF SafeInv
  <2>3. QED
    BY <2>1, <2>2
<1>5. QED
  BY <1>1, <1>2, <1>3, <1>4

\* Outside the lock: the lock's part of the invariant is untouched.
LEMMA UnlockedKeepsLock ==
  ASSUME Fetch!CloudFetchAssumption, FetchInv, NEW c \in Callers, caller[c] \in Fetch!Unlocked, NEW s \in {"idle"} \union Fetch!Unlocked,
         caller' = [caller EXCEPT ![c] = s], UNCHANGED <<archive, holder>>, unsafe' \in BOOLEAN, stale' \in [Callers -> SUBSET Hashes],
         source' = source \/ (archive \in Hashes /\ source' = [source EXCEPT ![c] = archive]),
         DOMAIN unzipped' = Hashes, DOMAIN fetched' = Callers
  PROVE  FetchTypes' /\ LockInv' /\ (SafeInv => OneUnlocked')
<1>1. source' \in [Callers -> Hashes \union {"none"}] /\ caller' \in [Callers -> {"idle", "lock", "fetch", "unlock"} \union Fetch!Unlocked]
  BY DEF FetchInv, FetchTypes
<1>2. FetchTypes'
  BY <1>1 DEF FetchInv, FetchTypes
<1>3. LockInv' /\ (SafeInv => OneUnlocked')
  BY DEF FetchInv, FetchTypes, LockInv, Fetch!Unlocked, SafeInv, OneUnlocked
<1>4. QED
  BY <1>2, <1>3

\* Looking outside the lock: what is found is whole.
LEMMA LookStep ==
  ASSUME Fetch!CloudFetchAssumption, FetchInv, NEW c \in Callers, Fetch!Look(c)
  PROVE  FetchInv'
<1> USE DEF Fetch!CloudFetchAssumption, Fetch!Unlocked
<1>1. Wants[c] \in Hashes /\ DOMAIN unzipped = Hashes /\ DOMAIN fetched = Callers /\ caller \in [Callers -> {"idle", "lock", "fetch", "unlock"} \union Fetch!Unlocked]
      /\ stale \in [Callers -> SUBSET Hashes]
  BY DEF FetchInv, FetchTypes
<1>2. UNCHANGED <<archive, holder, unzipped, source, unsafe>> /\ caller[c] = "look"
  BY DEF Fetch!Look
<1>3. SafeInv => \A o \in Callers : o # c => caller[o] \notin Fetch!Unlocked
  BY <1>2 DEF SafeInv, OneUnlocked
<1>4. SafeInv => \A h \in Hashes : ~Fetch!Halfway(unzipped[h])
  BY <1>2, <1>3 DEF SafeInv, TreeInv
<1>5. CASE Fetch!ShouldUnzip(c)
  <2>1. caller' = [caller EXCEPT ![c] = "clean"] /\ fetched' = fetched /\ stale' \in [Callers -> SUBSET Hashes]
    BY <1>1, <1>5 DEF Fetch!Look, Fetch!To
  <2>2. FetchTypes' /\ LockInv' /\ (SafeInv => OneUnlocked')
    BY <1>1, <1>2, <2>1, UnlockedKeepsLock DEF FetchInv, FetchTypes
  <2>3. SafeInv => ArchiveInv' /\ GotInv'
    BY <1>1, <1>2, <2>1 DEF SafeInv, ArchiveInv, GotInv
  <2>4. SafeInv => TreeInv'
    <3>1. \A h \in Hashes : Fetch!Halfway(unzipped[h])' <=> Fetch!Halfway(unzipped[h])
      BY <1>2 DEF Fetch!Halfway
    <3>2. "dependency" \notin Fetch!Names(unzipped[Wants[c]])'
      BY <1>2, <1>5 DEF Fetch!ShouldUnzip, Fetch!Names
    <3>3. SafeInv => \A o \in Callers : caller'[o] \in {"clean", "open"} => o = c
      BY <1>1, <1>3, <2>1
    <3>4. QED
      BY <1>2, <1>4, <3>1, <3>2, <3>3 DEF SafeInv, TreeInv
  <2>5. QED
    BY <1>2, <2>2, <2>3, <2>4 DEF FetchInv, SafeInv
<1>6. CASE ~Fetch!ShouldUnzip(c)
  <2>1. caller' = [caller EXCEPT ![c] = "idle"] /\ fetched' = [fetched EXCEPT ![c] = Fetch!Found(unzipped[Wants[c]])] /\ stale' = stale
    BY <1>6 DEF Fetch!Look, Fetch!Return
  <2>2. FetchTypes' /\ LockInv' /\ (SafeInv => OneUnlocked')
    BY <1>1, <1>2, <2>1, UnlockedKeepsLock DEF FetchInv, FetchTypes
  <2>3. SafeInv => ArchiveInv' /\ TreeInv'
    <3>1. SafeInv => ArchiveInv'
      BY <1>1, <1>2, <2>1 DEF SafeInv, ArchiveInv
    <3>2. \A h \in Hashes : Fetch!Halfway(unzipped[h])' <=> Fetch!Halfway(unzipped[h])
      BY <1>2 DEF Fetch!Halfway
    <3>3. \A o \in Callers : caller'[o] \in {"clean", "open"} => caller[o] = caller'[o]
      BY <1>1, <2>1
    <3>4. QED
      BY <1>2, <1>4, <3>1, <3>2, <3>3 DEF SafeInv, TreeInv, Fetch!Names
  <2>4. SafeInv => unzipped[Wants[c]] = Fetch!Whole(Wants[c])
    <3>1. SafeInv => unzipped[Wants[c]] \subseteq Fetch!Whole(Wants[c]) /\ ~Fetch!Halfway(unzipped[Wants[c]])
      BY <1>1, <1>4 DEF SafeInv, TreeInv
    <3>2. QED
      BY <1>6, <3>1, WholeTrees DEF Fetch!ShouldUnzip
  <2>5. SafeInv => GotInv'
    BY <1>1, <2>1, <2>4 DEF SafeInv, GotInv, Fetch!Found
  <2>6. QED
    BY <1>2, <2>2, <2>3, <2>5 DEF FetchInv, SafeInv
<1>7. QED
  BY <1>5, <1>6

\* Removing the stale trees, or ending without them all removed, or killed anywhere.
LEMMA CleanStep ==
  ASSUME Fetch!CloudFetchAssumption, FetchInv, NEW c \in Callers,
         \/ (\E h \in Hashes, f \in Fetch!Files \X Hashes : Fetch!RemoveFile(c, h, f)) \/ Fetch!StaleRemoved(c) \/ Fetch!RemoveFails(c)
         \/ Fetch!Killed(c)
  PROVE  FetchInv'
<1> USE DEF Fetch!CloudFetchAssumption, Fetch!Unlocked
<1>1. Wants[c] \in Hashes /\ DOMAIN unzipped = Hashes /\ DOMAIN fetched = Callers /\ caller \in [Callers -> {"idle", "lock", "fetch", "unlock"} \union Fetch!Unlocked]
      /\ stale \in [Callers -> SUBSET Hashes] /\ Wants \in [Callers -> Hashes]
  BY DEF FetchInv, FetchTypes
<1>2. ASSUME NEW h \in Hashes, NEW f, Fetch!RemoveFile(c, h, f) PROVE FetchInv'
  <2>1. /\ caller[c] = "clean" /\ h \in stale[c] /\ UNCHANGED <<caller, archive, holder, source, stale, fetched, unsafe>>
        /\ unzipped' = [unzipped EXCEPT ![h] = @ \ {f}]
    BY <1>2 DEF Fetch!RemoveFile
  <2>2. FetchTypes' /\ LockInv' /\ (SafeInv => OneUnlocked' /\ ArchiveInv' /\ GotInv')
    BY <2>1 DEF FetchInv, FetchTypes, LockInv, SafeInv, OneUnlocked, ArchiveInv, GotInv
  <2>3. SafeInv => TreeInv'
    <3>1. unzipped'[h] \subseteq unzipped[h] /\ \A g \in Hashes : g # h => unzipped'[g] = unzipped[g]
      BY <1>1, <2>1
    <3>2. \A g \in Hashes : g # h => (Fetch!Halfway(unzipped[g])' <=> Fetch!Halfway(unzipped[g]))
      BY <3>1 DEF Fetch!Halfway
    <3>3. \A g \in Hashes : "dependency" \notin Fetch!Names(unzipped[g]) => "dependency" \notin Fetch!Names(unzipped[g])'
      BY <3>1 DEF Fetch!Names
    <3>4. ASSUME SafeInv, NEW g \in Hashes PROVE unzipped'[g] \subseteq Fetch!Whole(g)
      BY <3>1, <3>4 DEF SafeInv, TreeInv
    <3>5. ASSUME SafeInv, NEW g \in Hashes, Fetch!Halfway(unzipped[g])'
          PROVE  \E o \in Callers : (caller[o] = "extract" /\ Wants[o] = g) \/ (caller[o] = "clean" /\ g \in stale[o])
      <4>1. CASE g = h
        BY <2>1, <4>1
      <4>2. CASE g # h
        BY <3>2, <3>5, <4>2 DEF SafeInv, TreeInv
      <4>3. QED
        BY <4>1, <4>2
    <3>6. SafeInv => \A o \in Callers : caller[o] \in {"clean", "open"} => "dependency" \notin Fetch!Names(unzipped[Wants[o]])'
      BY <1>1, <3>3 DEF SafeInv, TreeInv
    <3>7. QED
      BY <2>1, <3>4, <3>5, <3>6 DEF TreeInv
  <2>4. QED
    BY <2>1, <2>2, <2>3 DEF FetchInv, SafeInv
<1>3. CASE Fetch!StaleRemoved(c)
  <2>1. /\ caller[c] = "clean" /\ (\A h \in stale[c] : unzipped[h] = {}) /\ caller' = [caller EXCEPT ![c] = "open"]
        /\ stale' = [stale EXCEPT ![c] = {}] /\ UNCHANGED <<archive, holder, unzipped, source, fetched, unsafe>>
    BY <1>3 DEF Fetch!StaleRemoved, Fetch!To
  <2>2. FetchTypes' /\ LockInv' /\ (SafeInv => OneUnlocked')
    BY <1>1, <2>1, UnlockedKeepsLock DEF FetchInv, FetchTypes
  <2>3. SafeInv => ArchiveInv' /\ GotInv'
    BY <1>1, <2>1 DEF SafeInv, ArchiveInv, GotInv
  <2>4. SafeInv => TreeInv'
    <3>1. SafeInv => \A o \in Callers : o # c => caller[o] \notin Fetch!Unlocked
      BY <2>1 DEF SafeInv, OneUnlocked
    <3>2. SafeInv => \A h \in Hashes : unzipped[h] \subseteq Fetch!Whole(h) /\ ~Fetch!Halfway(unzipped[h])
      <4>1. SUFFICES ASSUME SafeInv, NEW h \in Hashes, Fetch!Halfway(unzipped[h]) PROVE FALSE
        BY DEF SafeInv, TreeInv
      <4>2. h \in stale[c]
        BY <2>1, <3>1, <4>1 DEF SafeInv, TreeInv
      <4>3. QED
        BY <2>1, <4>1, <4>2 DEF Fetch!Halfway, Fetch!Names
    <3>3. \A h \in Hashes : Fetch!Halfway(unzipped[h])' <=> Fetch!Halfway(unzipped[h])
      BY <2>1 DEF Fetch!Halfway
    <3>4. \A o \in Callers : caller'[o] \in {"clean", "open"} => caller[o] \in {"clean", "open"}
      BY <1>1, <2>1
    <3>5. QED
      BY <2>1, <3>2, <3>3, <3>4 DEF SafeInv, TreeInv, Fetch!Names
  <2>5. QED
    BY <2>1, <2>2, <2>3, <2>4 DEF FetchInv, SafeInv
<1>4. CASE Fetch!RemoveFails(c) \/ Fetch!Killed(c)
  <2>1. /\ caller' = [caller EXCEPT ![c] = "idle"] /\ fetched' = [fetched EXCEPT ![c] = Fetch!Error] /\ stale' = [stale EXCEPT ![c] = {}]
        /\ UNCHANGED <<archive, unzipped, source>> /\ unsafe' \in BOOLEAN /\ (unsafe => unsafe')
        /\ holder' = (IF holder = c THEN "none" ELSE holder) \/ (holder' = holder /\ caller[c] = "clean")
        /\ caller[c] = "clean" /\ (\E h \in Hashes : Fetch!Halfway(unzipped[h])) => unsafe'
        /\ Fetch!TakenForWhole(c, unzipped[Wants[c]]) => unsafe'
    BY <1>4 DEF Fetch!RemoveFails, Fetch!Killed, Fetch!Return, Fetch!TakenForWhole, FetchInv, FetchTypes
  <2>2. FetchTypes' /\ LockInv'
    BY <1>1, <2>1 DEF FetchInv, FetchTypes, LockInv
  <2>3. ASSUME ~unsafe' PROVE SafeInv'
    <3>1. SafeInv
      BY <2>1, <2>3 DEF FetchInv
    <3>2. OneUnlocked' /\ ArchiveInv' /\ GotInv'
      BY <1>1, <2>1, <3>1 DEF SafeInv, OneUnlocked, ArchiveInv, GotInv, Fetch!Error
    <3>3. \A h \in Hashes : Fetch!Halfway(unzipped[h])' <=> Fetch!Halfway(unzipped[h])
      BY <2>1 DEF Fetch!Halfway
    <3>4. \A o \in Callers : caller'[o] \in Fetch!Unlocked => o # c /\ caller'[o] = caller[o] /\ stale'[o] = stale[o]
      BY <1>1, <2>1
    <3>5. ASSUME NEW h \in Hashes, Fetch!Halfway(unzipped[h])
          PROVE  \E o \in Callers : o # c /\ ((caller[o] = "extract" /\ Wants[o] = h) \/ (caller[o] = "clean" /\ h \in stale[o]))
      <4>1. PICK o \in Callers : (caller[o] = "extract" /\ Wants[o] = h) \/ (caller[o] = "clean" /\ h \in stale[o])
        BY <3>1, <3>5 DEF SafeInv, TreeInv
      <4>2. o # c
        BY <2>1, <2>3, <3>5, <4>1 DEF Fetch!TakenForWhole, Fetch!Halfway
      <4>3. QED
        BY <4>1, <4>2
    <3>6. \A h \in Hashes : Fetch!Halfway(unzipped[h]) =>
            \E o \in Callers : (caller'[o] = "extract" /\ Wants[o] = h) \/ (caller'[o] = "clean" /\ h \in stale'[o])
      <4>1. \A o \in Callers : o # c => caller'[o] = caller[o] /\ stale'[o] = stale[o]
        BY <1>1, <2>1
      <4>2. QED
        BY <3>5, <4>1
    <3>7. TreeInv'
      BY <2>1, <3>1, <3>3, <3>4, <3>6 DEF SafeInv, TreeInv, Fetch!Names
    <3>8. QED
      BY <3>2, <3>7 DEF SafeInv
  <2>4. QED
    BY <2>2, <2>3 DEF FetchInv
<1>5. QED
  BY <1>2, <1>3, <1>4

\* Opening the archive and unzipping it, file after file, or failing to: only the tree of the caller's own hash is touched.
LEMMA ExtractStep ==
  ASSUME Fetch!CloudFetchAssumption, FetchInv, NEW c \in Callers,
         \/ Fetch!OpenArchive(c) \/ (\E f \in Fetch!Files : Fetch!Extract(c, f)) \/ Fetch!ExtractFails(c)
         \/ \E kept \in SUBSET unzipped[Wants[c]] : Fetch!ExtractKeeps(c, kept)
  PROVE  FetchInv'
<1> USE DEF Fetch!CloudFetchAssumption, Fetch!Unlocked
<1>1. Wants[c] \in Hashes /\ DOMAIN unzipped = Hashes /\ DOMAIN fetched = Callers /\ caller \in [Callers -> {"idle", "lock", "fetch", "unlock"} \union Fetch!Unlocked]
      /\ stale \in [Callers -> SUBSET Hashes] /\ Wants \in [Callers -> Hashes] /\ unsafe \in BOOLEAN
  BY DEF FetchInv, FetchTypes
<1>2. CASE Fetch!OpenArchive(c)
  <2>1. /\ caller[c] = "open" /\ archive \in Hashes /\ source' = [source EXCEPT ![c] = archive] /\ caller' = [caller EXCEPT ![c] = "extract"]
        /\ UNCHANGED <<archive, holder, unzipped, stale, fetched, unsafe>>
    BY <1>2 DEF Fetch!OpenArchive, Fetch!To, FetchInv, FetchTypes
  <2>2. FetchTypes' /\ LockInv' /\ (SafeInv => OneUnlocked')
    BY <1>1, <2>1, UnlockedKeepsLock
  <2>3. SafeInv => ArchiveInv' /\ GotInv'
    BY <1>1, <2>1 DEF SafeInv, ArchiveInv, GotInv, FetchInv, FetchTypes
  <2>4. SafeInv => TreeInv'
    <3>1. \A h \in Hashes : Fetch!Halfway(unzipped[h])' <=> Fetch!Halfway(unzipped[h])
      BY <2>1 DEF Fetch!Halfway
    <3>2. \A o \in Callers : o # c => caller'[o] = caller[o]
      BY <1>1, <2>1
    <3>3. caller'[c] = "extract"
      BY <1>1, <2>1
    <3>4. SafeInv => \A h \in Hashes : Fetch!Halfway(unzipped[h]) =>
            \E o \in Callers : (caller'[o] = "extract" /\ Wants[o] = h) \/ (caller'[o] = "clean" /\ h \in stale[o])
      BY <2>1, <3>2 DEF SafeInv, TreeInv
    <3>5. QED
      BY <2>1, <3>1, <3>2, <3>3, <3>4 DEF SafeInv, TreeInv, Fetch!Names
  <2>5. QED
    BY <2>1, <2>2, <2>3, <2>4 DEF FetchInv, SafeInv
<1>3. ASSUME NEW f \in Fetch!Files, Fetch!Extract(c, f) PROVE FetchInv'
  <2>1. /\ caller[c] = "extract" /\ UNCHANGED <<caller, archive, holder, source, stale, fetched, unsafe>>
        /\ unzipped' = [unzipped EXCEPT ![Wants[c]] = {x \in @ : x[1] # f} \union {<<f, source[c]>>}]
    BY <1>3 DEF Fetch!Extract
  <2>2. FetchTypes' /\ LockInv'
    BY <2>1 DEF FetchInv, FetchTypes, LockInv
  <2>3. SafeInv => TreeInv'
    <3>1. SafeInv => source[c] = Wants[c]
      BY <2>1 DEF SafeInv, ArchiveInv
    <3>2. SafeInv => unzipped'[Wants[c]] \subseteq Fetch!Whole(Wants[c])
      BY <1>1, <2>1, <3>1 DEF SafeInv, TreeInv, Fetch!Whole
    <3>3. \A h \in Hashes \ {Wants[c]} : unzipped'[h] = unzipped[h] /\ (Fetch!Halfway(unzipped[h])' <=> Fetch!Halfway(unzipped[h]))
      BY <1>1, <2>1 DEF Fetch!Halfway
    <3>4. SafeInv => \A o \in Callers : caller[o] \notin {"clean", "open"}
      BY <2>1 DEF SafeInv, OneUnlocked
    <3>5. QED
      BY <2>1, <3>2, <3>3, <3>4 DEF SafeInv, TreeInv
  <2>4. SafeInv => SafeInv'
    BY <2>1, <2>3 DEF SafeInv, OneUnlocked, ArchiveInv, GotInv
  <2>5. QED
    BY <2>1, <2>2, <2>4 DEF FetchInv
<1>4. ASSUME NEW kept \in SUBSET unzipped[Wants[c]], (Fetch!ExtractFails(c) /\ kept = {}) \/ Fetch!ExtractKeeps(c, kept) PROVE FetchInv'
  <2>1. /\ caller[c] \in {"open", "extract"} /\ UNCHANGED <<archive, holder, source, stale>> /\ unsafe' \in BOOLEAN
        /\ caller' = [caller EXCEPT ![c] = "idle"] /\ fetched' = [fetched EXCEPT ![c] = Fetch!Error] /\ unzipped' = [unzipped EXCEPT ![Wants[c]] = kept]
        /\ unsafe => unsafe'
        /\ Fetch!TakenForWhole(c, kept) => unsafe'
    BY <1>1, <1>4 DEF Fetch!ExtractFails, Fetch!ExtractKeeps, Fetch!Return, Fetch!TakenForWhole, Fetch!Names
  <2>2. FetchTypes' /\ LockInv' /\ (SafeInv => OneUnlocked')
    BY <1>1, <2>1, UnlockedKeepsLock
  <2>3. ASSUME ~unsafe' PROVE ArchiveInv' /\ GotInv' /\ TreeInv' /\ OneUnlocked'
    <3>1. SafeInv
      BY <2>1, <2>3 DEF FetchInv
    <3>2. ArchiveInv' /\ GotInv'
      BY <1>1, <2>1, <3>1 DEF SafeInv, ArchiveInv, GotInv, Fetch!Error
    <3>3. "dependency" \notin Fetch!Names(kept)
      <4>1. CASE caller[c] = "extract"
        BY <2>1, <2>3, <4>1 DEF Fetch!TakenForWhole
      <4>2. CASE caller[c] = "open"
        BY <3>1, <4>2 DEF SafeInv, TreeInv, Fetch!Names
      <4>3. QED
        BY <2>1, <4>1, <4>2
    <3>4. /\ unzipped'[Wants[c]] = kept
          /\ \A h \in Hashes \ {Wants[c]} : unzipped'[h] = unzipped[h] /\ (Fetch!Halfway(unzipped[h])' <=> Fetch!Halfway(unzipped[h]))
      BY <1>1, <2>1 DEF Fetch!Halfway
    <3>5. ~Fetch!Halfway(unzipped[Wants[c]])'
      BY <3>3, <3>4 DEF Fetch!Halfway, Fetch!Names
    <3>6. \A o \in Callers : o # c => caller[o] \notin Fetch!Unlocked
      BY <2>1, <3>1 DEF SafeInv, OneUnlocked
    <3>7. \A o \in Callers : caller'[o] \notin Fetch!Unlocked
      BY <1>1, <2>1, <3>6
    <3>8. \A h \in Hashes \ {Wants[c]} : ~Fetch!Halfway(unzipped[h])
      BY <2>1, <3>1, <3>6 DEF SafeInv, TreeInv
    <3>9. \A h \in Hashes : unzipped'[h] \subseteq Fetch!Whole(h) /\ ~Fetch!Halfway(unzipped[h])'
      BY <1>1, <3>1, <3>4, <3>5, <3>8 DEF SafeInv, TreeInv
    <3>10. TreeInv'
      BY <3>7, <3>9 DEF TreeInv
    <3>11. QED
      BY <2>2, <3>1, <3>2, <3>10
  <2>4. QED
    BY <2>1, <2>2, <2>3 DEF FetchInv, SafeInv
<1>5. {} \in SUBSET unzipped[Wants[c]]
  OBVIOUS
<1>6. QED
  BY <1>2, <1>3, <1>4, <1>5

\* At the end of the unzipping its tree is whole.
LEMMA ExtractEndsStep ==
  ASSUME Fetch!CloudFetchAssumption, FetchInv, NEW c \in Callers, Fetch!ExtractEnds(c)
  PROVE  FetchInv'
<1> USE DEF Fetch!CloudFetchAssumption, Fetch!Unlocked
<1>1. Wants[c] \in Hashes /\ DOMAIN unzipped = Hashes /\ DOMAIN fetched = Callers /\ caller \in [Callers -> {"idle", "lock", "fetch", "unlock"} \union Fetch!Unlocked]
  BY DEF FetchInv, FetchTypes
<1>2. /\ caller[c] = "extract" /\ UNCHANGED <<archive, holder, unzipped, source, stale, unsafe>> /\ Fetch!Extracted(c) = Fetch!Files
      /\ caller' = [caller EXCEPT ![c] = "idle"]
      /\ fetched' = [fetched EXCEPT ![c] = Fetch!Error] \/ fetched' = [fetched EXCEPT ![c] = Fetch!Found(unzipped[Wants[c]])]
  BY DEF Fetch!ExtractEnds, Fetch!Return
<1>3. FetchTypes' /\ LockInv' /\ (SafeInv => OneUnlocked')
  BY <1>1, <1>2, UnlockedKeepsLock DEF FetchInv, FetchTypes
<1>4. SafeInv => ArchiveInv'
  BY <1>1, <1>2 DEF SafeInv, ArchiveInv
<1>5. SafeInv => unzipped[Wants[c]] = Fetch!Whole(Wants[c])
  <2>1. SafeInv => source[c] = Wants[c] /\ unzipped[Wants[c]] \subseteq Fetch!Whole(Wants[c])
    BY <1>1, <1>2 DEF SafeInv, ArchiveInv, TreeInv
  <2>2. \A f \in Fetch!Files : <<f, source[c]>> \in unzipped[Wants[c]]
    BY <1>2 DEF Fetch!Extracted
  <2>3. QED
    BY <2>1, <2>2 DEF Fetch!Whole
<1>6. SafeInv => GotInv'
  BY <1>1, <1>2, <1>5 DEF SafeInv, GotInv, Fetch!Found, Fetch!Error
<1>7. SafeInv => TreeInv'
  <2>1. SafeInv => \A o \in Callers : o # c => caller[o] \notin Fetch!Unlocked
    BY <1>2 DEF SafeInv, OneUnlocked
  <2>2. SafeInv => \A o \in Callers : caller'[o] \notin Fetch!Unlocked
    BY <1>1, <1>2, <2>1
  <2>3. SafeInv => \A h \in Hashes \ {Wants[c]} : ~Fetch!Halfway(unzipped[h])
    BY <1>2, <2>1 DEF SafeInv, TreeInv
  <2>4. SafeInv => ~Fetch!Halfway(unzipped[Wants[c]])
    BY <1>1, <1>5, WholeTrees
  <2>5. \A h \in Hashes : Fetch!Halfway(unzipped[h])' <=> Fetch!Halfway(unzipped[h])
    BY <1>2 DEF Fetch!Halfway
  <2>6. QED
    BY <1>2, <2>2, <2>3, <2>4, <2>5 DEF SafeInv, TreeInv
<1>8. QED
  BY <1>2, <1>3, <1>4, <1>6, <1>7 DEF FetchInv, SafeInv

-----------------------------------------------------------------------------
(* Every behaviour *)

\* The invariant holds at first.
LEMMA FetchInit ==
  ASSUME Fetch!CloudFetchAssumption, Fetch!Init
  PROVE  FetchInv
<1>1. FetchTypes /\ LockInv
  BY DEF Fetch!Init, FetchTypes, LockInv
<1>2. OneUnlocked /\ ArchiveInv /\ GotInv
  BY DEF Fetch!Init, OneUnlocked, ArchiveInv, GotInv, Fetch!Nothing, Fetch!Unlocked
<1>3. TreeInv
  <2>1. ASSUME NEW h \in Hashes PROVE unzipped[h] \subseteq Fetch!Whole(h) /\ ~Fetch!Halfway(unzipped[h])
    <3>1. unzipped[h] \in {{}, Fetch!Whole(h)}
      BY DEF Fetch!Init
    <3>2. QED
      BY <3>1, WholeTrees
  <2>2. QED
    BY <2>1 DEF Fetch!Init, TreeInv
<1>4. QED
  BY <1>1, <1>2, <1>3 DEF FetchInv, SafeInv

\* Every step of a caller keeps the invariant.
LEMMA FetchStep ==
  ASSUME Fetch!CloudFetchAssumption, FetchInv, [Fetch!Next]_fetchVars
  PROVE  FetchInv'
<1>1. CASE Fetch!Next
  BY <1>1, LockedStep, LookStep, CleanStep, ExtractStep, ExtractEndsStep DEF Fetch!Next
<1>2. CASE UNCHANGED fetchVars
  BY <1>2 DEF fetchVars, Fetch!vars, FetchInv, FetchTypes, LockInv, SafeInv, OneUnlocked, ArchiveInv, TreeInv, GotInv
<1>3. QED
  BY <1>1, <1>2

\* The bounds of the fetches, and what a tree is: at most one file of each name, out of archives.
Distinct(T) == T \subseteq Fetch!Files \X Hashes /\ \A x, y \in T : x[1] = y[1] => x = y
FetchBounds ==
  /\ calls \in 0..MaxCalls /\ fetchFails \in 0..MaxFails /\ (\A h \in Hashes : Distinct(unzipped[h]))
  /\ \A c \in Callers : caller[c] = "extract" => source[c] \in Hashes

\* No tree, a whole one, and one more file.
LEMMA DistinctTrees ==
  /\ Distinct({}) /\ \A h \in Hashes : Distinct(Fetch!Whole(h))
  /\ \A T : Distinct(T) => \A U \in SUBSET T : Distinct(U)
  /\ \A T, f, h : Distinct(T) /\ f \in Fetch!Files /\ h \in Hashes => Distinct({x \in T : x[1] # f} \union {<<f, h>>})
BY DEF Distinct, Fetch!Whole

\* The bounds hold at first.
LEMMA FetchBoundsInit == Fetch!Init => FetchBounds
<1> SUFFICES ASSUME Fetch!Init PROVE FetchBounds
  OBVIOUS
<1>1. 0 \in 0..MaxCalls /\ 0 \in 0..MaxFails
  BY ToolsAssumption DEF Fetch!CloudFetchAssumption
<1>2. \A h \in Hashes : unzipped[h] \in {{}, Fetch!Whole(h)}
  BY DEF Fetch!Init
<1>3. \A h \in Hashes : Distinct(unzipped[h])
  BY <1>2, DistinctTrees
<1>4. \A c \in Callers : caller[c] # "extract"
  BY DEF Fetch!Init
<1>5. QED
  BY <1>1, <1>3, <1>4 DEF Fetch!Init, FetchBounds

\* What fails is counted within its bound.
LEMMA FailuresFit == ASSUME FetchBounds PROVE (Fetch!Fails => fetchFails' \in 0..MaxFails) /\ (fetchFails' = fetchFails => fetchFails' \in 0..MaxFails)
BY ToolsAssumption DEF Fetch!CloudFetchAssumption, FetchBounds, Fetch!Fails

\* Every step of a caller keeps the bounds.
LEMMA FetchBoundsStep == FetchInv /\ FetchBounds /\ [Fetch!Next]_fetchVars => FetchBounds'
<1> SUFFICES ASSUME FetchInv, FetchBounds, [Fetch!Next]_fetchVars PROVE FetchBounds'
  OBVIOUS
<1>1. caller \in [Callers -> {"idle", "lock", "fetch", "unlock"} \union Fetch!Unlocked] /\ source \in [Callers -> Hashes \union {"none"}]
      /\ archive \in Hashes \union {"none"} /\ DOMAIN unzipped = Hashes /\ Wants \in [Callers -> Hashes]
  BY ToolsAssumption DEF Fetch!CloudFetchAssumption, FetchInv, FetchTypes
<1>2. ASSUME NEW c \in Callers,
             \/ Fetch!GetRemotePath(c) \/ Fetch!Acquire(c) \/ Fetch!AcquireTimesOut(c) \/ Fetch!Fetch(c) \/ Fetch!FetchFails(c) \/ Fetch!Release(c)
             \/ Fetch!Look(c) \/ Fetch!StaleRemoved(c) \/ Fetch!RemoveFails(c) \/ Fetch!ExtractEnds(c) \/ Fetch!Killed(c)
      PROVE  FetchBounds'
  <2>1. /\ unzipped' = unzipped /\ source' = source /\ (fetchFails' = fetchFails \/ Fetch!Fails) /\ (\A o \in Callers : caller'[o] = "extract" => caller[o] = "extract")
        /\ (calls' = calls \/ (calls < MaxCalls /\ calls' = calls + 1))
    BY <1>1, <1>2 DEF Fetch!GetRemotePath, Fetch!Acquire, Fetch!AcquireTimesOut, Fetch!Fetch, Fetch!FetchFails, Fetch!Release, Fetch!Look, Fetch!StaleRemoved, Fetch!RemoveFails, Fetch!ExtractEnds, Fetch!Killed, Fetch!To, Fetch!Return
  <2>2. calls' \in 0..MaxCalls
    BY <2>1, ToolsAssumption DEF Fetch!CloudFetchAssumption, FetchBounds
  <2>3. fetchFails' \in 0..MaxFails
    BY <2>1, FailuresFit
  <2>4. QED
    BY <2>1, <2>2, <2>3 DEF FetchBounds
<1>3. ASSUME NEW c \in Callers, NEW h \in Hashes, NEW f, Fetch!RemoveFile(c, h, f) PROVE FetchBounds'
  <2>1. UNCHANGED <<caller, source, calls, fetchFails>> /\ \A g \in Hashes : unzipped'[g] \subseteq unzipped[g]
    BY <1>1, <1>3 DEF Fetch!RemoveFile
  <2>2. QED
    BY <2>1, DistinctTrees DEF FetchBounds
<1>4. ASSUME NEW c \in Callers, Fetch!OpenArchive(c) PROVE FetchBounds'
  <2>1. /\ UNCHANGED <<unzipped, calls, fetchFails>> /\ source'[c] = archive /\ archive \in Hashes
        /\ \A o \in Callers : o # c => source'[o] = source[o] /\ caller'[o] = caller[o]
    BY <1>1, <1>4 DEF Fetch!OpenArchive, Fetch!To
  <2>2. \A o \in Callers : caller'[o] = "extract" => source'[o] \in Hashes
    BY <2>1 DEF FetchBounds
  <2>3. QED
    BY <2>1, <2>2 DEF FetchBounds
<1>5. ASSUME NEW c \in Callers, NEW f \in Fetch!Files, Fetch!Extract(c, f) PROVE FetchBounds'
  <2>1. /\ UNCHANGED <<caller, source, calls, fetchFails>> /\ source[c] \in Hashes /\ Wants[c] \in Hashes
        /\ unzipped' = [unzipped EXCEPT ![Wants[c]] = {x \in @ : x[1] # f} \union {<<f, source[c]>>}]
    BY <1>1, <1>5 DEF Fetch!Extract, FetchBounds
  <2>2. ASSUME NEW h \in Hashes PROVE Distinct(unzipped'[h])
    <3>1. h # Wants[c] => unzipped'[h] = unzipped[h]
      BY <1>1, <2>1
    <3>2. unzipped'[Wants[c]] = {x \in unzipped[Wants[c]] : x[1] # f} \union {<<f, source[c]>>}
      BY <1>1, <2>1
    <3>3. Distinct(unzipped'[Wants[c]])
      BY <2>1, <3>2, DistinctTrees DEF FetchBounds
    <3>4. QED
      BY <3>1, <3>3 DEF FetchBounds
  <2>3. QED
    BY <2>1, <2>2 DEF FetchBounds
<1>6. ASSUME NEW c \in Callers, Fetch!ExtractFails(c) \/ \E kept \in SUBSET unzipped[Wants[c]] : Fetch!ExtractKeeps(c, kept) PROVE FetchBounds'
  <2>1. /\ Fetch!Fails /\ UNCHANGED <<source, calls>> /\ (\A h \in Hashes : unzipped'[h] \subseteq unzipped[h])
        /\ \A o \in Callers : caller'[o] = "extract" => caller[o] = "extract"
    BY <1>1, <1>6 DEF Fetch!ExtractFails, Fetch!ExtractKeeps, Fetch!Return
  <2>2. \A h \in Hashes : Distinct(unzipped'[h])
    BY <2>1, DistinctTrees DEF FetchBounds
  <2>3. QED
    BY <2>1, <2>2, FailuresFit DEF FetchBounds
<1>7. CASE UNCHANGED fetchVars
  BY <1>7 DEF fetchVars, Fetch!vars, FetchBounds
<1>8. QED
  BY <1>2, <1>3, <1>4, <1>5, <1>6, <1>7 DEF Fetch!Next

\* The types of the fetches.
LEMMA FetchTypesHold == FetchInv /\ FetchBounds => Fetch!TypeOK
BY DEF FetchInv, FetchTypes, FetchBounds, Distinct, Fetch!TypeOK

\* What the invariant says of the calls.
LEMMA FetchInvImplies == FetchInv => Fetch!FetchIsWhole
BY DEF FetchInv, SafeInv, GotInv, Fetch!FetchIsWhole

-----------------------------------------------------------------------------
(* The lookup of a dependency *)

LessThan == {p \in Nat \X Nat : p[1] < p[2]}

\* A set of natural numbers that is not empty has a least element.
LEMMA LeastOf ==
  ASSUME NEW S, S \subseteq Nat, S # {}
  PROVE  \E n \in S : \A m \in S : n <= m
<1>1. IsWellFoundedOn(LessThan, Nat)
  BY NatLessThanWellFounded DEF OpToRel, LessThan
<1>2. PICK n \in S : \A m \in S : <<m, n>> \notin LessThan
  BY <1>1, WFMin
<1>3. \A m \in S : ~(m < n)
  BY <1>2 DEF LessThan
<1>4. QED
  BY <1>3

-----------------------------------------------------------------------------
(* Lists of groups *)

\* A path is in a list of groups, and the first place it is at.
In(s, x) == \E n \in DOMAIN s : x \in s[n]
FirstAt(s, n, x) == n \in DOMAIN s /\ x \in s[n] /\ \A m \in DOMAIN s : x \in s[m] => n <= m

\* A list of groups that has a path has a first one that has it, and only one.
LEMMA FirstExists ==
  ASSUME NEW s \in Lookup!Groups, NEW x
  PROVE  /\ In(s, x) => \E n \in DOMAIN s : FirstAt(s, n, x)
         /\ \A m, n : FirstAt(s, m, x) /\ FirstAt(s, n, x) => m = n
         /\ \A n : FirstAt(s, n, x) => In(s, x) /\ n \in Nat /\ n >= 1
<1> DEFINE S == {n \in DOMAIN s : x \in s[n]}
<1>1. S \subseteq Nat /\ DOMAIN s = 1..Len(s) /\ Len(s) \in Nat
  BY DEF Lookup!Groups
<1>2. ASSUME In(s, x) PROVE \E n \in DOMAIN s : FirstAt(s, n, x)
  <2>1. S # {}
    BY <1>2 DEF In
  <2>2. PICK n \in S : \A m \in S : n <= m
    BY <1>1, <2>1, LeastOf
  <2>3. QED
    BY <2>2 DEF FirstAt
<1>3. \A m, n : FirstAt(s, m, x) /\ FirstAt(s, n, x) => m = n
  BY <1>1 DEF FirstAt
<1>4. \A n : FirstAt(s, n, x) => In(s, x) /\ n \in Nat /\ n >= 1
  BY <1>1 DEF FirstAt, In
<1>5. QED
  BY <1>2, <1>3, <1>4

\* Two paths that are new to a list are in the order of their first groups.
InOrder(old, new, acc, x, y, m, n, u, v) ==
  ~In(old, x) /\ ~In(old, y) /\ FirstAt(acc, m, x) /\ FirstAt(acc, n, y) /\ FirstAt(new, u, x) /\ FirstAt(new, v, y) =>
    (u < v => m < n) /\ (u = v => m = n)
Ordered(old, new, c, acc) ==
  \A x, y : \A m, n : \A u, v \in 1..c : InOrder(old, new, acc, x, y, m, n, u, v)

\* acc is the list old after the first c groups of new: it begins with old, has what the two have, in their order.
Follows(old, new, c, acc) ==
  /\ acc \in Lookup!Groups /\ Len(old) <= Len(acc)
  /\ \A n \in 1..Len(old) : acc[n] = old[n]
  /\ \A x : In(acc, x) <=> In(old, x) \/ \E v \in 1..c : x \in new[v]
  /\ Ordered(old, new, c, acc)

\* A group that is appended holds what is new in it.
LEMMA GroupAdds ==
  ASSUME NEW acc \in Lookup!Groups, NEW g \in (SUBSET Lookup!Paths) \ {{}}
  PROVE  /\ Lookup!WithGroup(acc, g) \in Lookup!Groups
         /\ Lookup!Fresh(acc, g) = {x \in g : ~In(acc, x)}
         /\ Lookup!Fresh(acc, g) = {} => Lookup!WithGroup(acc, g) = acc
         /\ Lookup!Fresh(acc, g) # {} => /\ Lookup!WithGroup(acc, g) = Append(acc, Lookup!Fresh(acc, g))
                                         /\ Len(Lookup!WithGroup(acc, g)) = Len(acc) + 1
                                         /\ DOMAIN Lookup!WithGroup(acc, g) = DOMAIN acc \union {Len(acc) + 1}
                                         /\ Lookup!WithGroup(acc, g)[Len(acc) + 1] = Lookup!Fresh(acc, g)
                                         /\ \A n \in DOMAIN acc : Lookup!WithGroup(acc, g)[n] = acc[n]
         /\ \A x : In(Lookup!WithGroup(acc, g), x) <=> In(acc, x) \/ x \in g
<1>1. Lookup!Fresh(acc, g) = {x \in g : ~In(acc, x)}
  BY DEF Lookup!Fresh, In, Lookup!Range
<1>2. CASE Lookup!Fresh(acc, g) = {}
  BY <1>1, <1>2 DEF Lookup!WithGroup
<1>3. CASE Lookup!Fresh(acc, g) # {}
  <2> DEFINE F == Lookup!Fresh(acc, g)
             w == Append(acc, F)
  <2>1. F \in (SUBSET Lookup!Paths) \ {{}}
    BY <1>1, <1>3
  <2>2. Lookup!WithGroup(acc, g) = w
    BY <1>3 DEF Lookup!WithGroup
  <2> HIDE DEF F
  <2>3. /\ w \in Lookup!Groups /\ Len(w) = Len(acc) + 1 /\ DOMAIN w = DOMAIN acc \union {Len(acc) + 1}
        /\ w[Len(acc) + 1] = F /\ \A n \in DOMAIN acc : w[n] = acc[n]
    BY <2>1 DEF Lookup!Groups
  <2> HIDE DEF w
  <2>4. \A x : In(w, x) <=> In(acc, x) \/ x \in g
    BY <1>1, <2>3 DEF In, F
  <2>5. QED
    BY <1>1, <1>3, <2>2, <2>3, <2>4 DEF F, w
<1>4. QED
  BY <1>2, <1>3

\* Each group leads from one list to the next.
LEMMA GroupFollows ==
  ASSUME NEW old \in Lookup!Groups, NEW new \in Lookup!Groups, NEW c \in 1..Len(new), NEW acc, Follows(old, new, c - 1, acc)
  PROVE  Follows(old, new, c, Lookup!WithGroup(acc, new[c]))
<1> DEFINE g == new[c]
           w == Lookup!WithGroup(acc, g)
<1>1. /\ acc \in Lookup!Groups /\ g \in (SUBSET Lookup!Paths) \ {{}} /\ Len(new) \in Nat /\ c \in Nat /\ c >= 1 /\ Len(acc) \in Nat
      /\ DOMAIN new = 1..Len(new) /\ DOMAIN acc = 1..Len(acc) /\ Len(old) \in Nat /\ Len(old) <= Len(acc)
  BY DEF Follows, Lookup!Groups
<1>2. /\ w \in Lookup!Groups /\ Lookup!Fresh(acc, g) = {x \in g : ~In(acc, x)}
      /\ Lookup!Fresh(acc, g) = {} => w = acc
      /\ Lookup!Fresh(acc, g) # {} => /\ Len(w) = Len(acc) + 1 /\ DOMAIN w = DOMAIN acc \union {Len(acc) + 1}
                                      /\ w[Len(acc) + 1] = Lookup!Fresh(acc, g) /\ \A n \in DOMAIN acc : w[n] = acc[n]
      /\ \A x : In(w, x) <=> In(acc, x) \/ x \in g
  BY <1>1, GroupAdds
<1> HIDE DEF w
<1>3. /\ Len(old) <= Len(w) /\ (\A n \in 1..Len(old) : w[n] = old[n])
      /\ DOMAIN acc \subseteq DOMAIN w /\ \A n \in DOMAIN acc : w[n] = acc[n]
  BY <1>1, <1>2 DEF Follows
<1>4. ASSUME NEW x PROVE In(w, x) <=> In(old, x) \/ \E v \in 1..c : x \in new[v]
  <2>1. In(acc, x) <=> In(old, x) \/ \E v \in 1..(c - 1) : x \in new[v]
    BY DEF Follows
  <2>2. \A v : v \in 1..c <=> v \in 1..(c - 1) \/ v = c
    BY <1>1
  <2>3. QED
    BY <1>2, <2>1, <2>2
<1>5. ASSUME NEW x, NEW m, FirstAt(w, m, x)
      PROVE  /\ In(acc, x) => FirstAt(acc, m, x)
             /\ ~In(acc, x) => m = Len(acc) + 1
  <2>1. \A n \in DOMAIN w : n \in DOMAIN acc \/ (n = Len(acc) + 1 /\ n \notin DOMAIN acc /\ w[n] = Lookup!Fresh(acc, g))
    BY <1>1, <1>2
  <2>2. ASSUME In(acc, x) PROVE FirstAt(acc, m, x)
    <3>1. PICK n \in DOMAIN acc : x \in acc[n]
      BY <2>2 DEF In
    <3>2. m <= n /\ n < Len(acc) + 1 /\ m \in DOMAIN w
      BY <1>1, <1>3, <1>5, <3>1 DEF FirstAt
    <3>3. m \in DOMAIN acc
      BY <1>1, <2>1, <3>2
    <3>4. QED
      BY <1>3, <1>5, <3>3 DEF FirstAt
  <2>3. ASSUME ~In(acc, x) PROVE m = Len(acc) + 1
    BY <1>3, <1>5, <2>1, <2>3 DEF FirstAt, In
  <2>4. QED
    BY <2>2, <2>3
<1>6. ASSUME NEW x, NEW y, NEW m, NEW n, NEW u \in 1..c, NEW v \in 1..c
      PROVE  InOrder(old, new, w, x, y, m, n, u, v)
  <2> SUFFICES ASSUME ~In(old, x), ~In(old, y), FirstAt(w, m, x), FirstAt(w, n, y), FirstAt(new, u, x), FirstAt(new, v, y)
               PROVE  (u < v => m < n) /\ (u = v => m = n)
    BY DEF InOrder
  <2>1. \A z : \A l \in 1..c : ~In(old, z) /\ FirstAt(new, l, z) => (In(acc, z) <=> l \in 1..(c - 1))
    <3>1. ASSUME NEW z, NEW l \in 1..c, ~In(old, z), FirstAt(new, l, z)
          PROVE  In(acc, z) <=> l \in 1..(c - 1)
      <4>1. In(acc, z) <=> \E h \in 1..(c - 1) : z \in new[h]
        BY <3>1 DEF Follows
      <4>2. ASSUME NEW h \in 1..(c - 1), z \in new[h] PROVE l \in 1..(c - 1)
        BY <1>1, <3>1, <4>2 DEF FirstAt
      <4>3. z \in new[l]
        BY <3>1 DEF FirstAt
      <4>4. QED
        BY <4>1, <4>2, <4>3
    <3>2. QED
      BY <3>1
  <2>2. CASE In(acc, x) /\ In(acc, y)
    <3>1. u \in 1..(c - 1) /\ v \in 1..(c - 1)
      BY <1>6, <2>1, <2>2
    <3>2. FirstAt(acc, m, x) /\ FirstAt(acc, n, y)
      BY <1>5, <1>6, <2>2
    <3>3. Ordered(old, new, c - 1, acc)
      BY DEF Follows
    <3>4. InOrder(old, new, acc, x, y, m, n, u, v)
      BY <3>1, <3>3, Zenon DEF Ordered
    <3>5. QED
      BY <1>6, <3>2, <3>4 DEF InOrder
  <2>3. CASE In(acc, x) /\ ~In(acc, y)
    <3>1. u < v /\ u # v
      BY <1>1, <1>6, <2>1, <2>3
    <3>2. m \in DOMAIN acc /\ n = Len(acc) + 1
      BY <1>5, <1>6, <2>3 DEF FirstAt
    <3>3. QED
      BY <1>1, <3>1, <3>2
  <2>4. CASE ~In(acc, x) /\ In(acc, y)
    <3>1. ~(u < v) /\ u # v
      BY <1>1, <1>6, <2>1, <2>4
    <3>2. QED
      BY <3>1
  <2>5. CASE ~In(acc, x) /\ ~In(acc, y)
    <3>1. u = c /\ v = c
      BY <1>1, <1>6, <2>1, <2>5
    <3>2. m = n /\ ~(u < v)
      BY <1>1, <1>5, <1>6, <2>5, <3>1
    <3>3. QED
      BY <3>2
  <2>6. QED
    BY <2>2, <2>3, <2>4, <2>5
<1>7. Ordered(old, new, c, w)
  BY <1>6, Zenon DEF Ordered
<1>8. QED
  BY <1>2, <1>3, <1>4, <1>7 DEF Follows, w

\* A function that is given step by step exists.
LEMMA StepsExist ==
  ASSUME NEW old, NEW new \in Lookup!Groups
  PROVE  \E h : \A n \in 0..Len(new) : h[n] = IF n = 0 THEN old ELSE Lookup!WithGroup(h[n - 1], new[n])
<1> DEFINE Upto(m) == \E h : \A n \in 0..m : h[n] = IF n = 0 THEN old ELSE Lookup!WithGroup(h[n - 1], new[n])
           S == {m \in 0..Len(new) : ~Upto(m)}
<1>1. Len(new) \in Nat
  BY DEF Lookup!Groups
<1>2. ASSUME S # {} PROVE FALSE
  <2>1. PICK m \in S : \A l \in S : m <= l
    <3>1. S \subseteq Nat
      BY <1>1
    <3>2. QED
      BY <1>2, <3>1, LeastOf
  <2>2. m \in 0..Len(new) /\ ~Upto(m) /\ m \in Nat
    BY <1>1, <2>1
  <2>3. m # 0
    <3>1. Upto(0)
      <4> DEFINE h == [n \in {0} |-> old]
      <4>1. \A n \in 0..0 : n = 0 /\ h[n] = old
        OBVIOUS
      <4> HIDE DEF h
      <4>2. QED
        BY <4>1
    <3>2. QED
      BY <2>2, <3>1
  <2>4. m - 1 \in 0..Len(new) /\ m - 1 \notin S
    <3>1. m - 1 \in 0..Len(new) /\ ~(m <= m - 1)
      BY <1>1, <2>2, <2>3
    <3>2. QED
      BY <2>1, <3>1
  <2>5. PICK h : \A n \in 0..(m - 1) : h[n] = IF n = 0 THEN old ELSE Lookup!WithGroup(h[n - 1], new[n])
    BY <2>4
  <2> DEFINE e == [n \in 0..m |-> IF n = m THEN Lookup!WithGroup(h[m - 1], new[m]) ELSE h[n]]
  <2>6. ASSUME NEW n \in 0..m PROVE e[n] = IF n = 0 THEN old ELSE Lookup!WithGroup(e[n - 1], new[n])
    <3>1. CASE n = m
      <4>1. e[n] = Lookup!WithGroup(h[m - 1], new[m]) /\ e[n - 1] = h[m - 1]
        BY <2>2, <2>3, <3>1
      <4>2. QED
        BY <2>3, <3>1, <4>1
    <3>2. CASE n # m
      <4>1. n \in 0..(m - 1) /\ e[n] = h[n]
        BY <2>2, <3>2
      <4>2. CASE n = 0
        BY <2>5, <4>1, <4>2
      <4>3. CASE n # 0
        <5>1. n - 1 \in 0..m /\ n - 1 # m
          BY <2>2, <4>1, <4>3
        <5>2. e[n - 1] = h[n - 1]
          BY <5>1
        <5>3. QED
          BY <2>5, <4>1, <4>3, <5>2
      <4>4. QED
        BY <4>2, <4>3
    <3>3. QED
      BY <3>1, <3>2
  <2> HIDE DEF e
  <2>7. Upto(m)
    BY <2>6
  <2>8. QED
    BY <2>2, <2>7
<1>3. Upto(Len(new))
  <2>1. Len(new) \in 0..Len(new)
    BY <1>1
  <2>2. QED
    BY <1>2, <2>1
<1>4. QED
  BY <1>3

\* The loop over the groups leads to the list after all of them, whatever their number.
LEMMA UpdateFollows ==
  ASSUME NEW old \in Lookup!Groups, NEW new \in Lookup!Groups
  PROVE  Follows(old, new, Len(new), Lookup!UpdateGroups(old, new))
<1> DEFINE After(f) == [n \in 0..Len(new) |-> IF n = 0 THEN old ELSE Lookup!WithGroup(f[n - 1], new[n])]
           after == CHOOSE f : f = After(f)
<1>1. after = After(after)
  <2>1. PICK h : \A n \in 0..Len(new) : h[n] = IF n = 0 THEN old ELSE Lookup!WithGroup(h[n - 1], new[n])
    BY StepsExist
  <2> DEFINE f == [n \in 0..Len(new) |-> h[n]]
  <2>2. \A n \in 0..Len(new) : f[n] = IF n = 0 THEN old ELSE Lookup!WithGroup(f[n - 1], new[n])
    <3>1. Len(new) \in Nat
      BY DEF Lookup!Groups
    <3>2. \A n \in 0..Len(new) : n # 0 => n - 1 \in 0..Len(new)
      BY <3>1
    <3>3. QED
      BY <2>1, <3>2
  <2>3. f = After(f)
    BY <2>2
  <2>4. QED
    BY <2>3
<1>2. Lookup!UpdateGroups(old, new) = after[Len(new)]
  BY DEF Lookup!UpdateGroups
<1> HIDE DEF after
<1> DEFINE S == {n \in 0..Len(new) : ~Follows(old, new, n, after[n])}
<1>3. Len(new) \in Nat /\ Len(old) \in Nat /\ DOMAIN old = 1..Len(old)
  BY DEF Lookup!Groups
<1>4. ASSUME S # {} PROVE FALSE
  <2>1. PICK n \in S : \A m \in S : n <= m
    <3>1. S \subseteq Nat
      BY <1>3
    <3>2. QED
      BY <1>4, <3>1, LeastOf
  <2>2. n \in 0..Len(new) /\ n \in Nat /\ ~Follows(old, new, n, after[n])
    BY <1>3, <2>1
  <2>3. n # 0
    <3>1. Follows(old, new, 0, old)
      <4>1. 1..0 = {}
        OBVIOUS
      <4>2. QED
        BY <1>3, <4>1 DEF Follows, Ordered, InOrder
    <3>2. after[0] = old
      <4>1. 0 \in 0..Len(new)
        BY <1>3
      <4>2. QED
        BY <1>1, <4>1
    <3>3. QED
      BY <2>2, <3>1, <3>2
  <2>4. n - 1 \in 0..Len(new) /\ n - 1 \notin S /\ n \in 1..Len(new)
    BY <1>3, <2>1, <2>2, <2>3
  <2>5. Follows(old, new, n - 1, after[n - 1])
    BY <2>4
  <2>6. after[n] = Lookup!WithGroup(after[n - 1], new[n])
    BY <1>1, <2>2, <2>3
  <2>7. QED
    BY <2>2, <2>4, <2>5, <2>6, GroupFollows
<1>5. Len(new) \in 0..Len(new)
  BY <1>3
<1>6. QED
  BY <1>2, <1>4, <1>5

-----------------------------------------------------------------------------
(* The order of the configs *)

\* The list s has the groups of the list a, and then what is new in b, in its order.
Merges(a, b, s) ==
  /\ s \in Lookup!Groups
  /\ \A x : In(s, x) <=> In(a, x) \/ In(b, x)
  /\ \A x, n : In(a, x) /\ FirstAt(s, n, x) => FirstAt(a, n, x)
  /\ \A x, y, m, n : In(a, x) /\ ~In(a, y) /\ FirstAt(s, m, x) /\ FirstAt(s, n, y) => m < n
  /\ Ordered(a, b, Len(b), s)

\* So has the list after an update, and a list alone.
LEMMA UpdateMerges ==
  ASSUME NEW a \in Lookup!Groups, NEW b \in Lookup!Groups
  PROVE  Merges(a, b, Lookup!UpdateGroups(a, b)) /\ Merges(<<>>, b, b) /\ Merges(a, <<>>, a)
<1>1. /\ Len(a) \in Nat /\ DOMAIN a = 1..Len(a) /\ Len(b) \in Nat /\ DOMAIN b = 1..Len(b)
      /\ <<>> \in Lookup!Groups /\ \A x : ~In(<<>>, x)
  BY DEF Lookup!Groups, In
<1>2. Merges(<<>>, b, b)
  <2>1. ASSUME NEW x, NEW y, NEW m, NEW n, NEW u \in 1..Len(b), NEW v \in 1..Len(b)
        PROVE  InOrder(<<>>, b, b, x, y, m, n, u, v)
    BY <1>1, FirstExists, Zenon DEF InOrder
  <2>2. Ordered(<<>>, b, Len(b), b)
    BY <2>1, Zenon DEF Ordered
  <2>3. QED
    BY <1>1, <2>2 DEF Merges
<1>3. Merges(a, b, Lookup!UpdateGroups(a, b))
  <2> DEFINE s == Lookup!UpdateGroups(a, b)
  <2>1. Follows(a, b, Len(b), s)
    BY UpdateFollows
  <2> HIDE DEF s
  <2>2. s \in Lookup!Groups /\ Len(s) \in Nat /\ DOMAIN s = 1..Len(s) /\ Len(a) <= Len(s) /\ \A n \in 1..Len(a) : s[n] = a[n]
    BY <2>1 DEF Follows, Lookup!Groups
  <2>3. \A x : In(s, x) <=> In(a, x) \/ In(b, x)
    BY <1>1, <2>1 DEF Follows, In
  <2>4. ASSUME NEW x, NEW n, In(a, x), FirstAt(s, n, x)
        PROVE  FirstAt(a, n, x)
    <3>1. PICK l \in DOMAIN a : x \in a[l]
      BY <2>4 DEF In
    <3>2. n \in DOMAIN s /\ n <= l
      BY <1>1, <2>2, <2>4, <3>1 DEF FirstAt
    <3>3. n \in DOMAIN a
      BY <1>1, <2>2, <3>1, <3>2
    <3>4. QED
      BY <1>1, <2>2, <2>4, <3>3 DEF FirstAt
  <2>5. ASSUME NEW x, NEW y, NEW m, NEW n, In(a, x), ~In(a, y), FirstAt(s, m, x), FirstAt(s, n, y)
        PROVE  m < n
    <3>1. m \in 1..Len(a)
      BY <1>1, <2>4, <2>5 DEF FirstAt
    <3>2. n \notin 1..Len(a) /\ n \in 1..Len(s)
      BY <1>1, <2>2, <2>5 DEF FirstAt, In
    <3>3. QED
      BY <1>1, <2>2, <3>1, <3>2
  <2>6. Ordered(a, b, Len(b), s)
    BY <2>1 DEF Follows
  <2>7. QED
    BY <2>2, <2>3, <2>4, <2>5, <2>6 DEF Merges, s
<1>4. Merges(a, <<>>, a)
  <2>1. Len(<<>>) = 0 /\ 1..0 = {}
    OBVIOUS
  <2>2. Ordered(a, <<>>, Len(<<>>), a)
    BY <2>1 DEF Ordered
  <2>3. QED
    BY <1>1, <2>2 DEF Merges, FirstAt, In
<1>5. QED
  BY <1>2, <1>3, <1>4

\* The places of a path in the lists of two configs, and which path they prefer.
RankIn(a, b, x) ==
  {<<1, n>> : n \in {m \in DOMAIN a : x \in a[m]}} \union {<<2, n>> : n \in {m \in DOMAIN b : x \in b[m]}}
BetterIn(a, b, x, y) ==
  \/ Lookup!Before(Lookup!First(RankIn(a, b, x)), Lookup!First(RankIn(a, b, y)))
  \/ Lookup!First(RankIn(a, b, x)) = Lookup!First(RankIn(a, b, y)) /\ Lookup!Age[x] < Lookup!Age[y]
ListedIn(a, b, S) == {x \in S : RankIn(a, b, x) # {}}
BestIn(a, b, S) == CHOOSE x \in ListedIn(a, b, S) : \A y \in ListedIn(a, b, S) \ {x} : BetterIn(a, b, x, y)

\* One place only can be before all others.
LEMMA OnlyFirst ==
  ASSUME NEW R \in SUBSET (Nat \X Nat), NEW r \in R, \A s \in R \ {r} : Lookup!Before(r, s)
  PROVE  Lookup!First(R) = r
<1>1. ASSUME NEW s \in R, \A q \in R \ {s} : Lookup!Before(s, q), s # r PROVE FALSE
  <2>1. Lookup!Before(r, s) /\ Lookup!Before(s, r)
    BY <1>1
  <2>2. r[1] \in Nat /\ r[2] \in Nat /\ s[1] \in Nat /\ s[2] \in Nat
    OBVIOUS
  <2>3. QED
    BY <2>1, <2>2 DEF Lookup!Before
<1>2. QED
  BY <1>1 DEF Lookup!First

\* The first place is in the first config if that lists the path, else in the second.
LEMMA FirstOfRank ==
  ASSUME NEW a \in Lookup!Groups, NEW b \in Lookup!Groups, NEW x
  PROVE  /\ \A n : FirstAt(a, n, x) => Lookup!First(RankIn(a, b, x)) = <<1, n>>
         /\ \A n : ~In(a, x) /\ FirstAt(b, n, x) => Lookup!First(RankIn(a, b, x)) = <<2, n>>
         /\ RankIn(a, b, x) # {} <=> In(a, x) \/ In(b, x)
<1> DEFINE R == RankIn(a, b, x)
<1>1. DOMAIN a \subseteq Nat /\ DOMAIN b \subseteq Nat
  BY DEF Lookup!Groups
<1>2. R \in SUBSET (Nat \X Nat)
  BY <1>1 DEF RankIn
<1>3. \A s \in R : \/ s[1] = 1 /\ s[2] \in DOMAIN a /\ x \in a[s[2]] /\ s = <<1, s[2]>>
                   \/ s[1] = 2 /\ s[2] \in DOMAIN b /\ x \in b[s[2]] /\ s = <<2, s[2]>>
  BY DEF RankIn
<1>4. /\ \A n \in DOMAIN a : x \in a[n] => <<1, n>> \in R
      /\ \A n \in DOMAIN b : x \in b[n] => <<2, n>> \in R
  BY DEF RankIn
<1> HIDE DEF R
<1>5. ASSUME NEW n, FirstAt(a, n, x) PROVE Lookup!First(R) = <<1, n>>
  <2>1. n \in DOMAIN a /\ x \in a[n] /\ n \in Nat /\ \A m \in DOMAIN a : x \in a[m] => n <= m
    BY <1>1, <1>5 DEF FirstAt
  <2> DEFINE r == <<1, n>>
  <2>2. r \in R /\ r[1] = 1 /\ r[2] = n
    BY <1>4, <2>1
  <2>3. ASSUME NEW s \in R, s # r PROVE Lookup!Before(r, s)
    <3>1. CASE s[1] = 1
      <4>1. s[2] \in DOMAIN a /\ x \in a[s[2]] /\ s = <<1, s[2]>>
        BY <1>3, <3>1
      <4>2. s[2] # n
        BY <2>3, <4>1
      <4>3. s[2] \in Nat /\ n <= s[2]
        BY <1>1, <2>1, <4>1
      <4>4. QED
        BY <2>1, <2>2, <3>1, <4>2, <4>3 DEF Lookup!Before
    <3>2. CASE s[1] # 1
      BY <1>3, <2>2, <3>2 DEF Lookup!Before
    <3>3. QED
      BY <3>1, <3>2
  <2> HIDE DEF r
  <2>4. Lookup!First(R) = r
    BY <1>2, <2>2, <2>3, OnlyFirst
  <2>5. QED
    BY <2>4 DEF r
<1>6. ASSUME NEW n, ~In(a, x), FirstAt(b, n, x) PROVE Lookup!First(R) = <<2, n>>
  <2>1. n \in DOMAIN b /\ x \in b[n] /\ n \in Nat /\ \A m \in DOMAIN b : x \in b[m] => n <= m
    BY <1>1, <1>6 DEF FirstAt
  <2> DEFINE r == <<2, n>>
  <2>2. r \in R /\ r[1] = 2 /\ r[2] = n
    BY <1>4, <2>1
  <2>3. ASSUME NEW s \in R, s # r PROVE Lookup!Before(r, s)
    <3>1. s[1] = 2 /\ s[2] \in DOMAIN b /\ x \in b[s[2]] /\ s = <<2, s[2]>>
      BY <1>3, <1>6 DEF In
    <3>2. s[2] # n
      BY <2>3, <3>1
    <3>3. s[2] \in Nat /\ n <= s[2]
      BY <1>1, <2>1, <3>1
    <3>4. QED
      BY <2>1, <2>2, <3>1, <3>2, <3>3 DEF Lookup!Before
  <2> HIDE DEF r
  <2>4. Lookup!First(R) = r
    BY <1>2, <2>2, <2>3, OnlyFirst
  <2>5. QED
    BY <2>4 DEF r
<1>7. R # {} <=> In(a, x) \/ In(b, x)
  BY <1>3, <1>4 DEF In
<1>8. QED
  BY <1>5, <1>6, <1>7 DEF R

\* The order of the merged groups is the order of the first places.
LEMMA MergedOrder ==
  ASSUME NEW a \in Lookup!Groups, NEW b \in Lookup!Groups, NEW s, Merges(a, b, s), NEW x, NEW y, NEW m, NEW n,
         FirstAt(s, m, x), FirstAt(s, n, y)
  PROVE  /\ m < n => Lookup!Before(Lookup!First(RankIn(a, b, x)), Lookup!First(RankIn(a, b, y)))
         /\ m = n => Lookup!First(RankIn(a, b, x)) = Lookup!First(RankIn(a, b, y))
         /\ Lookup!First(RankIn(a, b, x)) \in Nat \X Nat
<1>1. /\ m \in Nat /\ n \in Nat /\ s \in Lookup!Groups
      /\ In(a, x) \/ In(b, x)
      /\ In(a, y) \/ In(b, y)
  <2>1. s \in Lookup!Groups
    BY DEF Merges
  <2>2. In(s, x) /\ In(s, y) /\ m \in Nat /\ n \in Nat
    BY <2>1, FirstExists
  <2>3. QED
    BY <2>1, <2>2 DEF Merges
<1>2. CASE In(a, x) /\ In(a, y)
  <2>1. FirstAt(a, m, x) /\ FirstAt(a, n, y)
    BY <1>2 DEF Merges
  <2>2. Lookup!First(RankIn(a, b, x)) = <<1, m>> /\ Lookup!First(RankIn(a, b, y)) = <<1, n>>
    BY <2>1, FirstOfRank
  <2>3. QED
    BY <1>1, <2>2 DEF Lookup!Before
<1>3. CASE In(a, x) /\ ~In(a, y)
  <2>1. FirstAt(a, m, x) /\ m < n
    BY <1>3 DEF Merges
  <2>2. PICK v \in DOMAIN b : FirstAt(b, v, y)
    BY <1>1, <1>3, FirstExists
  <2>3. Lookup!First(RankIn(a, b, x)) = <<1, m>> /\ Lookup!First(RankIn(a, b, y)) = <<2, v>>
    BY <1>3, <2>1, <2>2, FirstOfRank
  <2>4. QED
    BY <1>1, <2>1, <2>3 DEF Lookup!Before
<1>4. CASE ~In(a, x) /\ In(a, y)
  <2>1. n < m
    BY <1>4 DEF Merges
  <2>2. PICK u \in DOMAIN b : FirstAt(b, u, x)
    BY <1>1, <1>4, FirstExists
  <2>3. Lookup!First(RankIn(a, b, x)) = <<2, u>> /\ u \in Nat
    BY <1>4, <2>2, FirstOfRank, FirstExists
  <2>4. QED
    BY <1>1, <2>1, <2>3
<1>5. CASE ~In(a, x) /\ ~In(a, y)
  <2>1. PICK u \in DOMAIN b : FirstAt(b, u, x)
    BY <1>1, <1>5, FirstExists
  <2>2. PICK v \in DOMAIN b : FirstAt(b, v, y)
    BY <1>1, <1>5, FirstExists
  <2>3. Lookup!First(RankIn(a, b, x)) = <<2, u>> /\ Lookup!First(RankIn(a, b, y)) = <<2, v>> /\ u \in Nat /\ v \in Nat
    BY <1>5, <2>1, <2>2, FirstOfRank, FirstExists
  <2>4. u \in 1..Len(b) /\ v \in 1..Len(b)
    BY DEF Lookup!Groups
  <2>5. InOrder(a, b, s, x, y, m, n, u, v) /\ InOrder(a, b, s, y, x, n, m, v, u)
    <3>1. Ordered(a, b, Len(b), s)
      BY DEF Merges
    <3>2. QED
      BY <2>4, <3>1, Zenon DEF Ordered
  <2>6. (u < v => m < n) /\ (u = v => m = n) /\ (v < u => n < m)
    BY <1>5, <2>1, <2>2, <2>5 DEF InOrder
  <2>7. QED
    BY <1>1, <2>3, <2>6 DEF Lookup!Before
<1>6. QED
  BY <1>2, <1>3, <1>4, <1>5

-----------------------------------------------------------------------------
(* The file that a lookup finds *)

\* Of several files one is the newest.
LEMMA NewestExists ==
  ASSUME NEW S \in (SUBSET Lookup!Paths) \ {{}}
  PROVE  /\ Lookup!Newest(S) \in S
         /\ \A y \in S \ {Lookup!Newest(S)} : Lookup!Age[Lookup!Newest(S)] < Lookup!Age[y]
         /\ \A x, y \in Lookup!Paths : ~(Lookup!Age[x] < Lookup!Age[y] /\ Lookup!Age[y] < Lookup!Age[x])
<1>1. Lookup!Age["x"] = 3 /\ Lookup!Age["y"] = 2 /\ Lookup!Age["z"] = 1
  <2>1. "x" \in Lookup!Paths /\ "y" \in Lookup!Paths /\ "z" \in Lookup!Paths
    BY DEF Lookup!Paths
  <2>2. QED
    BY <2>1 DEF Lookup!Age
<1>2. \E x \in S : \A y \in S : Lookup!Age[x] <= Lookup!Age[y]
  <2>1. CASE "z" \in S
    BY <1>1, <2>1 DEF Lookup!Paths
  <2>2. CASE "z" \notin S /\ "y" \in S
    BY <1>1, <2>2 DEF Lookup!Paths
  <2>3. CASE "z" \notin S /\ "y" \notin S
    BY <1>1, <2>3 DEF Lookup!Paths
  <2>4. QED
    BY <2>1, <2>2, <2>3
<1>3. Lookup!Newest(S) \in S /\ \A y \in S : Lookup!Age[Lookup!Newest(S)] <= Lookup!Age[y]
  BY <1>2 DEF Lookup!Newest
<1>4. \A x, y \in Lookup!Paths : x # y => Lookup!Age[x] # Lookup!Age[y] /\ Lookup!Age[x] \in Nat
  BY <1>1 DEF Lookup!Paths
<1>5. \A x, y \in Lookup!Paths : ~(Lookup!Age[x] < Lookup!Age[y] /\ Lookup!Age[y] < Lookup!Age[x])
  BY <1>1 DEF Lookup!Paths
<1>6. \A y \in S \ {Lookup!Newest(S)} : Lookup!Age[Lookup!Newest(S)] < Lookup!Age[y]
  <2>1. ASSUME NEW y \in S, y # Lookup!Newest(S) PROVE Lookup!Age[Lookup!Newest(S)] < Lookup!Age[y]
    <3>1. y \in Lookup!Paths /\ Lookup!Newest(S) \in Lookup!Paths
      BY <1>3
    <3>2. Lookup!Age[Lookup!Newest(S)] # Lookup!Age[y] /\ Lookup!Age[Lookup!Newest(S)] \in Nat /\ Lookup!Age[y] \in Nat
      BY <1>4, <2>1, <3>1
    <3>3. QED
      BY <1>3, <3>2
  <2>2. QED
    BY <2>1
<1>7. QED
  BY <1>3, <1>5, <1>6

\* One path only can be better than all others.
LEMMA OnlyBest ==
  ASSUME NEW a \in Lookup!Groups, NEW b \in Lookup!Groups, NEW S \in SUBSET Lookup!Paths, NEW x \in ListedIn(a, b, S),
         \A y \in ListedIn(a, b, S) \ {x} : BetterIn(a, b, x, y)
  PROVE  BestIn(a, b, S) = x
<1> DEFINE F(y) == Lookup!First(RankIn(a, b, y))
<1>1. ASSUME NEW y \in ListedIn(a, b, S) PROVE F(y)[1] \in Nat /\ F(y)[2] \in Nat
  <2>1. In(a, y) \/ In(b, y)
    BY <1>1, FirstOfRank DEF ListedIn
  <2>2. CASE In(a, y)
    <3>1. PICK n \in DOMAIN a : FirstAt(a, n, y)
      BY <2>2, FirstExists
    <3>2. F(y) = <<1, n>> /\ n \in Nat
      BY <3>1, FirstOfRank, FirstExists
    <3>3. QED
      BY <3>2
  <2>3. CASE ~In(a, y)
    <3>1. PICK n \in DOMAIN b : FirstAt(b, n, y)
      BY <2>1, <2>3, FirstExists
    <3>2. F(y) = <<2, n>> /\ n \in Nat
      BY <2>3, <3>1, FirstOfRank, FirstExists
    <3>3. QED
      BY <3>2
  <2>4. QED
    BY <2>2, <2>3
<1>2. ASSUME NEW y \in ListedIn(a, b, S), y # x, BetterIn(a, b, y, x) PROVE FALSE
  <2>1. /\ Lookup!Before(F(x), F(y)) \/ (F(x) = F(y) /\ Lookup!Age[x] < Lookup!Age[y])
        /\ Lookup!Before(F(y), F(x)) \/ (F(y) = F(x) /\ Lookup!Age[y] < Lookup!Age[x])
    BY <1>2 DEF BetterIn
  <2>2. F(x)[1] \in Nat /\ F(x)[2] \in Nat /\ F(y)[1] \in Nat /\ F(y)[2] \in Nat
    BY <1>1
  <2> HIDE DEF F
  <2>3. ~(Lookup!Before(F(x), F(y)) /\ Lookup!Before(F(y), F(x))) /\ (F(x) = F(y) => ~Lookup!Before(F(x), F(y)) /\ ~Lookup!Before(F(y), F(x)))
    BY <2>2 DEF Lookup!Before
  <2>4. x \in Lookup!Paths /\ y \in Lookup!Paths /\ {x} \in (SUBSET Lookup!Paths) \ {{}}
    BY DEF ListedIn
  <2>5. ~(Lookup!Age[x] < Lookup!Age[y] /\ Lookup!Age[y] < Lookup!Age[x])
    BY <2>4, NewestExists
  <2>6. QED
    BY <2>1, <2>3, <2>5
<1>3. QED
  BY <1>2 DEF BestIn

\* A merged entry leads to the best of the files that there are.
LEMMA LookupGetsBest ==
  ASSUME NEW a \in Lookup!Groups, NEW b \in Lookup!Groups, NEW entry, Merges(a, b, entry.groups), exists' \in SUBSET Lookup!Paths
  PROVE  /\ Lookup!GetLocalPath(entry) = IF ListedIn(a, b, exists') = {} THEN "none" ELSE BestIn(a, b, exists')
         /\ ListedIn(a, b, exists') # {} => BestIn(a, b, exists') \in Lookup!Paths
<1> DEFINE S == exists'
           s == entry.groups
           here == {n \in DOMAIN s : s[n] \intersect S # {}}
           first == CHOOSE n \in here : \A m \in here : n <= m
           x == Lookup!Newest(s[first] \intersect S)
<1>1. Lookup!GetLocalPath(entry) = IF here = {} THEN "none" ELSE x
  BY DEF Lookup!GetLocalPath
<1>2. s \in Lookup!Groups /\ DOMAIN s \subseteq Nat /\ S \in SUBSET Lookup!Paths
  BY DEF Merges, Lookup!Groups
<1>3. \A y : In(s, y) <=> RankIn(a, b, y) # {}
  BY FirstOfRank DEF Merges
<1> HIDE DEF s, S
<1>4. ListedIn(a, b, S) = {} <=> here = {}
  BY <1>3 DEF ListedIn, In
<1>5. ASSUME here # {} PROVE x \in Lookup!Paths /\ BestIn(a, b, S) = x
  <2>1. first \in here /\ \A m \in here : first <= m
    <3>1. here \subseteq Nat
      BY <1>2
    <3>2. \E n \in here : \A m \in here : n <= m
      BY <1>5, <3>1, LeastOf
    <3>3. QED
      BY <3>2
  <2> HIDE DEF first
  <2>2. first \in DOMAIN s /\ s[first] \intersect S \in (SUBSET Lookup!Paths) \ {{}}
    BY <1>2, <2>1
  <2>3. x \in s[first] /\ x \in S /\ x \in Lookup!Paths /\ \A y \in (s[first] \intersect S) \ {x} : Lookup!Age[x] < Lookup!Age[y]
    BY <1>2, <2>2, NewestExists
  <2> HIDE DEF x
  <2>4. FirstAt(s, first, x)
    BY <2>1, <2>2, <2>3 DEF FirstAt
  <2>5. x \in ListedIn(a, b, S)
    BY <1>3, <2>2, <2>3 DEF ListedIn, In
  <2>6. ASSUME NEW y \in ListedIn(a, b, S), y # x PROVE BetterIn(a, b, x, y)
    <3>1. In(s, y) /\ y \in S
      BY <1>3, <2>6 DEF ListedIn
    <3>2. PICK n \in DOMAIN s : FirstAt(s, n, y)
      BY <1>2, <3>1, FirstExists
    <3>3. n \in here /\ first <= n /\ n \in Nat /\ first \in Nat
      BY <1>2, <2>1, <2>2, <3>1, <3>2 DEF FirstAt
    <3>4. /\ first < n => Lookup!Before(Lookup!First(RankIn(a, b, x)), Lookup!First(RankIn(a, b, y)))
          /\ first = n => Lookup!First(RankIn(a, b, x)) = Lookup!First(RankIn(a, b, y))
      BY <2>4, <3>2, MergedOrder DEF s
    <3>5. CASE first < n
      BY <3>4, <3>5 DEF BetterIn
    <3>6. CASE first = n
      <4>1. y \in (s[first] \intersect S) \ {x}
        BY <2>6, <3>1, <3>2, <3>6 DEF FirstAt
      <4>2. QED
        BY <2>3, <3>4, <3>6, <4>1 DEF BetterIn
    <3>7. QED
      BY <3>3, <3>5, <3>6
  <2>7. BestIn(a, b, S) = x
    BY <1>2, <2>5, <2>6, OnlyBest
  <2>8. QED
    BY <2>3, <2>7
<1>6. QED
  BY <1>1, <1>4, <1>5 DEF S

-----------------------------------------------------------------------------
(* The invariant of the lookup *)

LookupTypes ==
  /\ configs \in Seq([Lookup!Platforms -> Lookup!Options]) /\ Len(configs) = 2 /\ merged \in 0..2
  /\ refused \in BOOLEAN /\ exists \subseteq Lookup!Paths

\* The entries are those of the configs so far.
MergedEntry(p) ==
  IF merged = 0 THEN Lookup!Absent
  ELSE IF merged = 1 THEN configs[1][p]
  ELSE IF ~configs[1][p].named THEN configs[2][p]
  ELSE IF ~configs[2][p].named THEN configs[1][p]
  ELSE Lookup!Update(configs[1][p], configs[2][p])
EntriesMerged == lookup = [p \in Lookup!Platforms |-> MergedEntry(p)]

\* Two configs that clash have stopped the manager, and only they.
ClashesStop == refused <=> merged = 2 /\ \E p \in Lookup!Platforms : Lookup!Clashes(configs[1][p], configs[2][p])

LookupInv ==
  /\ LookupTypes /\ EntriesMerged /\ ClashesStop
  /\ asked # "nothing" => merged = 2
  /\ Lookup!LookupIsBest

\* What the entries of the configs are: those of a platform that is not named are empty.
LEMMA EntriesOfConfigs ==
  ASSUME LookupTypes, NEW p \in Lookup!Platforms
  PROVE  /\ DOMAIN configs = {1, 2}
         /\ \A n \in {1, 2} : /\ configs[n][p] \in [groups : Lookup!Groups, cloud : BOOLEAN, named : BOOLEAN]
                              /\ ~configs[n][p].named => configs[n][p] = Lookup!Absent
         /\ Lookup!Absent.groups = <<>> /\ Lookup!Absent.cloud = FALSE /\ Lookup!Absent.named = FALSE
         /\ Lookup!Absent \in [groups : Lookup!Groups, cloud : BOOLEAN, named : BOOLEAN]
<1>1. /\ Lookup!Absent \in [groups : Lookup!Groups, cloud : BOOLEAN, named : BOOLEAN]
      /\ Lookup!Absent.groups = <<>> /\ Lookup!Absent.cloud = FALSE /\ Lookup!Absent.named = FALSE
  <2>1. <<>> \in Lookup!Groups
    BY DEF Lookup!Groups
  <2>2. QED
    BY <2>1 DEF Lookup!Absent
<1>2. DOMAIN configs = {1, 2} /\ configs[1] \in [Lookup!Platforms -> Lookup!Options] /\ configs[2] \in [Lookup!Platforms -> Lookup!Options]
  BY DEF LookupTypes
<1>3. \A e \in Entries : e \in [groups : Lookup!Groups, cloud : BOOLEAN, named : BOOLEAN] /\ e.named = TRUE
  BY ToolsAssumption DEF Lookup!LookupAssumption
<1>4. \A e \in Lookup!Options : /\ e \in [groups : Lookup!Groups, cloud : BOOLEAN, named : BOOLEAN]
                                /\ ~e.named => e = Lookup!Absent
  BY <1>1, <1>3 DEF Lookup!Options
<1>5. configs[1][p] \in Lookup!Options /\ configs[2][p] \in Lookup!Options
  BY <1>2
<1>6. QED
  BY <1>1, <1>2, <1>4, <1>5

\* When all configs are merged, an entry has the groups of both configs in their order.
LEMMA EntryMerges ==
  ASSUME LookupTypes, EntriesMerged, merged = 2, NEW p \in Lookup!Platforms
  PROVE  /\ Merges(configs[1][p].groups, configs[2][p].groups, lookup[p].groups)
         /\ lookup[p].cloud <=> configs[1][p].cloud \/ configs[2][p].cloud
         /\ lookup[p].named <=> configs[1][p].named \/ configs[2][p].named
<1> DEFINE c == configs[1][p]
           d == configs[2][p]
<1>1. /\ c \in [groups : Lookup!Groups, cloud : BOOLEAN, named : BOOLEAN] /\ d \in [groups : Lookup!Groups, cloud : BOOLEAN, named : BOOLEAN]
      /\ ~c.named => c.groups = <<>> /\ ~c.cloud
      /\ ~d.named => d.groups = <<>> /\ ~d.cloud
  BY EntriesOfConfigs
<1>2. lookup[p] = IF ~c.named THEN d ELSE IF ~d.named THEN c ELSE Lookup!Update(c, d)
  BY DEF EntriesMerged, MergedEntry
<1> HIDE DEF c, d
<1>3. /\ Merges(c.groups, d.groups, Lookup!UpdateGroups(c.groups, d.groups))
      /\ Merges(<<>>, d.groups, d.groups) /\ Merges(c.groups, <<>>, c.groups)
  BY <1>1, UpdateMerges
<1>4. /\ Lookup!Update(c, d).groups = Lookup!UpdateGroups(c.groups, d.groups)
      /\ Lookup!Update(c, d).cloud = (c.cloud \/ d.cloud) /\ Lookup!Update(c, d).named
  BY DEF Lookup!Update
<1>5. CASE ~c.named
  BY <1>1, <1>2, <1>3, <1>5 DEF c, d
<1>6. CASE c.named /\ ~d.named
  BY <1>1, <1>2, <1>3, <1>6 DEF c, d
<1>7. CASE c.named /\ d.named
  BY <1>1, <1>2, <1>3, <1>4, <1>7 DEF c, d
<1>8. QED
  BY <1>5, <1>6, <1>7

\* The entry that is asked is that of the platform the configs name, and finds the best they have.
LEMMA FetchesBest ==
  ASSUME LookupTypes, EntriesMerged, merged = 2, exists' \subseteq Lookup!Paths, configs' = configs, NEW p \in Lookup!Platforms
  PROVE  /\ Lookup!GetDependencyInfo(p) = Lookup!Chosen(p) /\ Lookup!Chosen(p)' = Lookup!Chosen(p)
         /\ lookup[Lookup!Chosen(p)].named <=> Lookup!Named(p) \/ Lookup!Named("default")
         /\ \A reply : Lookup!Fetch(Lookup!Chosen(p), reply) =
              IF Lookup!Listed(Lookup!Chosen(p))' # {} THEN Lookup!Local(Lookup!Best(Lookup!Chosen(p))')
              ELSE IF Lookup!InCloud(Lookup!Chosen(p))' THEN reply ELSE Lookup!None
         /\ Lookup!Listed(Lookup!Chosen(p))' # {} => Lookup!Best(Lookup!Chosen(p))' \in Lookup!Paths
<1> DEFINE q == Lookup!Chosen(p)
           a == configs[1][q].groups
           b == configs[2][q].groups
<1>1. Lookup!Chosen(p)' = q
  BY DEF Lookup!Chosen, Lookup!Named
<1>2. q \in Lookup!Platforms
  BY DEF Lookup!Chosen, Lookup!Platforms
<1>3. \A r \in Lookup!Platforms : lookup[r].named <=> Lookup!Named(r)
  BY EntryMerges, EntriesOfConfigs DEF Lookup!Named
<1>4. Lookup!GetDependencyInfo(p) = q /\ (lookup[q].named <=> Lookup!Named(p) \/ Lookup!Named("default"))
  BY <1>2, <1>3 DEF Lookup!GetDependencyInfo, Lookup!Chosen
<1> HIDE DEF q
<1>5. /\ Merges(a, b, lookup[q].groups) /\ a \in Lookup!Groups /\ b \in Lookup!Groups /\ DOMAIN configs = {1, 2}
      /\ lookup[q].cloud <=> configs[1][q].cloud \/ configs[2][q].cloud
  BY <1>2, EntryMerges, EntriesOfConfigs
<1>6. \A x : Lookup!Rank(Lookup!Chosen(p), x)' = RankIn(a, b, x)
  <2>1. ASSUME NEW x PROVE Lookup!Rank(Lookup!Chosen(p), x)' = RankIn(a, b, x)
    <3> DEFINE R(c) == {<<c, n>> : n \in {m \in DOMAIN configs[c][q].groups : x \in configs[c][q].groups[m]}}
    <3>1. Lookup!Rank(Lookup!Chosen(p), x)' = UNION {R(c) : c \in DOMAIN configs}
      BY <1>1 DEF Lookup!Rank
    <3>2. RankIn(a, b, x) = R(1) \union R(2)
      BY DEF RankIn
    <3> HIDE DEF R
    <3>3. QED
      BY <1>5, <3>1, <3>2
  <2>2. QED
    BY <2>1
<1>7. Lookup!Listed(Lookup!Chosen(p))' = ListedIn(a, b, exists') /\ Lookup!Best(Lookup!Chosen(p))' = BestIn(a, b, exists')
  <2>1. Lookup!Listed(Lookup!Chosen(p))' = ListedIn(a, b, exists')
    BY <1>6 DEF Lookup!Listed, ListedIn
  <2>2. \A x, y : Lookup!Better(Lookup!Chosen(p), x, y)' <=> BetterIn(a, b, x, y)
    BY <1>6 DEF Lookup!Better, BetterIn
  <2>3. Lookup!Best(Lookup!Chosen(p))' = BestIn(a, b, exists')
    BY <2>1, <2>2 DEF Lookup!Best, BestIn
  <2>4. QED
    BY <2>1, <2>3
<1>8. Lookup!InCloud(Lookup!Chosen(p))' <=> lookup[q].cloud
  BY <1>1, <1>5 DEF Lookup!InCloud
<1> HIDE DEF a, b
<1>9. /\ Lookup!GetLocalPath(lookup[q]) = IF ListedIn(a, b, exists') = {} THEN "none" ELSE BestIn(a, b, exists')
      /\ ListedIn(a, b, exists') # {} => BestIn(a, b, exists') \in Lookup!Paths
  BY <1>5, LookupGetsBest
<1>10. "none" \notin Lookup!Paths
  BY DEF Lookup!Paths
<1>11. \A reply : Lookup!Fetch(q, reply) = IF ListedIn(a, b, exists') # {} THEN Lookup!Local(BestIn(a, b, exists'))
                                           ELSE IF lookup[q].cloud THEN reply ELSE Lookup!None
  BY <1>9, <1>10 DEF Lookup!Fetch
<1>12. QED
  BY <1>1, <1>4, <1>7, <1>8, <1>9, <1>11 DEF q

\* A lookup of one platform answers what the configs plainly have for it.
LEMMA PathIsPlain ==
  ASSUME LookupTypes, EntriesMerged, merged = 2, exists' \subseteq Lookup!Paths, configs' = configs, NEW p \in Lookup!Platforms
  PROVE  Lookup!FetchPath(p) = Lookup!Plainly(p)'
<1> DEFINE q == Lookup!Chosen(p)
           reply == IF errors' = 0 THEN Lookup!Cloud(q) ELSE Lookup!Error
<1>1. /\ Lookup!GetDependencyInfo(p) = q /\ Lookup!Chosen(p)' = q
      /\ Lookup!Fetch(q, reply) = IF Lookup!Listed(Lookup!Chosen(p))' # {} THEN Lookup!Local(Lookup!Best(Lookup!Chosen(p))')
                                  ELSE IF Lookup!InCloud(Lookup!Chosen(p))' THEN reply ELSE Lookup!None
  BY FetchesBest, Zenon
<1>2. Lookup!FetchPath(p) = Lookup!Fetch(q, reply)
  BY <1>1, Zenon DEF Lookup!FetchPath
<1>3. Lookup!Plainly(p)' = IF Lookup!Listed(Lookup!Chosen(p))' # {} THEN Lookup!Local(Lookup!Best(Lookup!Chosen(p))')
                           ELSE IF Lookup!InCloud(Lookup!Chosen(p))' THEN reply ELSE Lookup!None
  <2> HIDE DEF q
  <2>1. Lookup!Plainly(p)' = Lookup!Answer(p, IF errors = 0 THEN Lookup!Cloud(Lookup!Chosen(p)) ELSE Lookup!Error)'
    BY Zenon DEF Lookup!Plainly
  <2>2. QED
    BY <1>1, <2>1 DEF Lookup!Answer, Lookup!Local, Lookup!Cloud, Lookup!None, Lookup!Error
<1> HIDE DEF q, reply
<1>4. QED
  BY <1>1, <1>2, <1>3

\* Initially nothing is merged and nothing was asked.
LEMMA LookupInvInit == Lookup!Init => LookupInv
<1> SUFFICES ASSUME Lookup!Init PROVE LookupInv
  OBVIOUS
<1>1. PICK c, d \in [Lookup!Platforms -> Lookup!Options] : configs = <<c, d>>
  BY DEF Lookup!Init
<1>2. LookupTypes
  <2>1. configs \in Seq([Lookup!Platforms -> Lookup!Options]) /\ Len(configs) = 2
    BY <1>1
  <2>2. 0 \in 0..2
    OBVIOUS
  <2>3. QED
    BY <2>1, <2>2 DEF Lookup!Init, LookupTypes
<1>3. EntriesMerged
  BY DEF Lookup!Init, EntriesMerged, MergedEntry
<1>4. ClashesStop /\ Lookup!LookupIsBest
  BY DEF Lookup!Init, ClashesStop, Lookup!LookupIsBest
<1>5. QED
  BY <1>2, <1>3, <1>4 DEF Lookup!Init, LookupInv

\* The entries of the next config are merged into those there are.
LEMMA UpdateDependenciesKeeps ==
  ASSUME LookupInv, Lookup!UpdateDependencies
  PROVE  LookupInv'
<1>1. /\ LookupTypes /\ EntriesMerged /\ merged \in {0, 1} /\ merged' = merged + 1 /\ asked = "nothing" /\ configs' = configs
      /\ asked' = asked /\ exists' = exists
  BY DEF LookupInv, LookupTypes, Lookup!UpdateDependencies
<1>2. \A p \in Lookup!Platforms : lookup[p] = IF merged = 0 THEN Lookup!Absent ELSE configs[1][p]
  BY <1>1 DEF EntriesMerged, MergedEntry
<1>3. \A p \in Lookup!Platforms :
        lookup'[p] = IF ~lookup[p].named THEN configs[merged + 1][p]
                     ELSE IF ~configs[merged + 1][p].named THEN lookup[p] ELSE Lookup!Update(lookup[p], configs[merged + 1][p])
  BY DEF Lookup!UpdateDependencies
<1>4. LookupTypes'
  BY <1>1 DEF LookupTypes, Lookup!UpdateDependencies
<1>5. EntriesMerged'
  <2>1. \A p \in Lookup!Platforms : lookup'[p] = MergedEntry(p)'
    <3>1. ~Lookup!Absent.named
      BY DEF Lookup!Absent
    <3>2. QED
      BY <1>1, <1>2, <1>3, <3>1 DEF MergedEntry
  <2>2. lookup' = [p \in Lookup!Platforms |-> lookup'[p]]
    BY DEF Lookup!UpdateDependencies
  <2> DEFINE f == lookup'
  <2> HIDE DEF f
  <2>3. QED
    BY <2>1, <2>2 DEF EntriesMerged
<1>6. ClashesStop'
  <2>1. refused' <=> \E p \in Lookup!Platforms : Lookup!Clashes(lookup[p], configs[merged + 1][p])
    BY DEF Lookup!UpdateDependencies
  <2>2. CASE merged = 0
    <3>1. \A p \in Lookup!Platforms : ~Lookup!Clashes(lookup[p], configs[merged + 1][p])
      BY <1>2, <2>2 DEF Lookup!Clashes, Lookup!Absent
    <3>2. QED
      BY <1>1, <2>1, <2>2, <3>1 DEF ClashesStop
  <2>3. CASE merged = 1
    <3>1. (\E p \in Lookup!Platforms : Lookup!Clashes(lookup[p], configs[2][p])) <=> \E p \in Lookup!Platforms : Lookup!Clashes(configs[1][p], configs[2][p])
      BY <1>2, <2>3
    <3>2. QED
      BY <1>1, <2>1, <2>3, <3>1 DEF ClashesStop
  <2>4. QED
    BY <1>1, <2>2, <2>3
<1>7. Lookup!LookupIsBest'
  BY <1>1, <1>6 DEF ClashesStop, Lookup!Clashes, Lookup!LookupIsBest
<1>8. QED
  BY <1>1, <1>4, <1>5, <1>6, <1>7 DEF LookupInv

\* What a lookup answers is the best there is.
LEMMA LookupsKeep ==
  ASSUME LookupInv, Lookup!Lookups
  PROVE  LookupInv'
<1>1. /\ LookupTypes /\ EntriesMerged /\ merged = 2 /\ configs' = configs /\ merged' = merged /\ lookup' = lookup
      /\ refused' = refused /\ ClashesStop /\ exists' \subseteq Lookup!Paths
  BY DEF LookupInv, LookupTypes, Lookup!Lookups
<1>2. LookupTypes' /\ EntriesMerged' /\ ClashesStop'
  <2>1. LookupTypes'
    BY <1>1 DEF LookupTypes
  <2>2. \A p \in Lookup!Platforms : MergedEntry(p)' = MergedEntry(p)
    BY <1>1 DEF MergedEntry
  <2>3. EntriesMerged'
    BY <1>1, <2>2 DEF EntriesMerged
  <2>4. QED
    BY <1>1, <2>1, <2>3 DEF ClashesStop
<1>3. "plain" \in Lookup!Platforms /\ "versioned" \in Lookup!Platforms
  BY DEF Lookup!Platforms
<1>4. Lookup!FetchPath("plain") = Lookup!Plainly("plain")' /\ Lookup!FetchPath("versioned") = Lookup!Plainly("versioned")'
  BY <1>1, <1>3, PathIsPlain
<1>5. \/ asked' = "plain" /\ result' = Lookup!FetchPath("plain")
      \/ asked' = "versioned" /\ result' = Lookup!Versioned
      \/ asked' = "prefetch" /\ result' = Lookup!Prefetch
  BY Zenon DEF Lookup!Lookups, Lookup!Ask
<1>6. Lookup!Versioned = IF Lookup!Plainly("versioned")' = Lookup!None THEN Lookup!Plainly("plain")' ELSE Lookup!Plainly("versioned")'
  BY <1>4 DEF Lookup!Versioned
<1>7. Lookup!Prefetch = IF Lookup!Named("plain")' \/ Lookup!Named("default")' THEN Lookup!Answer("plain", Lookup!Prefetched)' ELSE Lookup!Skipped
  <2> DEFINE q == Lookup!Chosen("plain")
             reply == IF errors' > Retries THEN Lookup!None ELSE IF broken' THEN Lookup!Error ELSE Lookup!Cloud(q)
  <2>1. /\ Lookup!GetDependencyInfo("plain") = q /\ q' = q
        /\ lookup[q].named <=> Lookup!Named("plain") \/ Lookup!Named("default")
        /\ Lookup!Fetch(q, reply) = IF Lookup!Listed(Lookup!Chosen("plain"))' # {} THEN Lookup!Local(Lookup!Best(Lookup!Chosen("plain"))')
                                    ELSE IF Lookup!InCloud(Lookup!Chosen("plain"))' THEN reply ELSE Lookup!None
    BY <1>1, <1>3, FetchesBest, Zenon
  <2>2. Lookup!Prefetch = IF lookup[q].named THEN Lookup!Fetch(q, reply) ELSE Lookup!Skipped
    BY <2>1, Zenon DEF Lookup!Prefetch
  <2>3. (Lookup!Named("plain")' <=> Lookup!Named("plain")) /\ (Lookup!Named("default")' <=> Lookup!Named("default"))
    BY <1>1 DEF Lookup!Named
  <2> HIDE DEF q
  <2>4. Lookup!Prefetched' = reply
    BY <2>1 DEF Lookup!Prefetched, q, Lookup!Cloud, Lookup!None, Lookup!Error
  <2> HIDE DEF reply
  <2>5. Lookup!Answer("plain", Lookup!Prefetched)' =
          IF Lookup!Listed(Lookup!Chosen("plain"))' # {} THEN Lookup!Local(Lookup!Best(Lookup!Chosen("plain"))')
          ELSE IF Lookup!InCloud(Lookup!Chosen("plain"))' THEN reply ELSE Lookup!None
    BY <2>4 DEF Lookup!Answer, Lookup!Local, Lookup!None
  <2>6. QED
    BY <2>1, <2>2, <2>3, <2>5
<1>8. Lookup!LookupIsBest'
  <2>1. refused' <=> \E p \in Lookup!Platforms : merged' = 2 /\ configs'[1][p].cloud /\ configs'[2][p].cloud
    BY <1>2 DEF ClashesStop, Lookup!Clashes
  <2>2. /\ asked' = "plain" => result' = Lookup!Plainly("plain")'
        /\ asked' = "versioned" =>
             result' = IF Lookup!Plainly("versioned")' = Lookup!None THEN Lookup!Plainly("plain")' ELSE Lookup!Plainly("versioned")'
        /\ asked' = "prefetch" =>
             result' = IF Lookup!Named("plain")' \/ Lookup!Named("default")' THEN Lookup!Answer("plain", Lookup!Prefetched)' ELSE Lookup!Skipped
    BY <1>4, <1>5, <1>6, <1>7
  <2>3. QED
    BY <2>1, <2>2 DEF Lookup!LookupIsBest
<1>9. QED
  BY <1>1, <1>2, <1>8 DEF LookupInv

\* The invariant is inductive.
LEMMA LookupInvStep == LookupInv /\ [Lookup!Next]_lookupVars => LookupInv'
<1> SUFFICES ASSUME LookupInv, [Lookup!Next]_lookupVars PROVE LookupInv'
  OBVIOUS
<1>1. CASE UNCHANGED lookupVars
  <2>1. /\ configs' = configs /\ merged' = merged /\ lookup' = lookup /\ refused' = refused /\ exists' = exists
        /\ errors' = errors /\ broken' = broken /\ asked' = asked /\ result' = result
    BY <1>1 DEF lookupVars, Lookup!vars
  <2>2. LookupTypes' /\ EntriesMerged' /\ ClashesStop'
    BY <2>1 DEF LookupInv, LookupTypes, EntriesMerged, MergedEntry, ClashesStop
  <2>3. /\ \A p : Lookup!Plainly(p)' = Lookup!Plainly(p)
        /\ \A p : Lookup!Named(p)' <=> Lookup!Named(p)
        /\ Lookup!Answer("plain", Lookup!Prefetched)' = Lookup!Answer("plain", Lookup!Prefetched)
    BY <2>1 DEF Lookup!Plainly, Lookup!Prefetched, Lookup!Answer, Lookup!Chosen, Lookup!Named, Lookup!Listed, Lookup!InCloud, Lookup!Best,
       Lookup!Better, Lookup!Rank
  <2>4. Lookup!LookupIsBest'
    BY <2>1, <2>3 DEF LookupInv, Lookup!LookupIsBest
  <2>5. QED
    BY <2>1, <2>2, <2>4 DEF LookupInv
<1>2. CASE Lookup!UpdateDependencies
  BY <1>2, UpdateDependenciesKeeps
<1>3. CASE Lookup!Lookups
  BY <1>3, LookupsKeep
<1>4. QED
  BY <1>1, <1>2, <1>3 DEF Lookup!Next

\* What the invariant says of a lookup.
LEMMA LookupInvImplies == LookupInv => Lookup!LookupIsBest
BY DEF LookupInv

\* What was asked for, what it was answered, and how often cloud storage failed.
LookupAnswers ==
  /\ asked \in {"nothing", "plain", "versioned", "prefetch"} /\ result \in Lookup!Results
  /\ errors \in 0..Retries + 1 /\ broken \in BOOLEAN

\* At first nothing was asked for.
LEMMA LookupAnswersInit == Lookup!Init => LookupAnswers
<1>1. Retries \in Nat
  BY ToolsAssumption DEF Lookup!LookupAssumption
<1>2. 0 \in 0..Retries + 1
  BY <1>1
<1>3. QED
  BY <1>2 DEF Lookup!Init, LookupAnswers, Lookup!Results

\* An answer is a file, what cloud storage replied, or none.
LEMMA FetchAnswers ==
  ASSUME LookupInv, merged = 2, exists' \subseteq Lookup!Paths, configs' = configs, NEW p \in Lookup!Platforms, NEW reply \in Lookup!Results
  PROVE  Lookup!Fetch(Lookup!Chosen(p), reply) \in Lookup!Results
<1>1. \A x \in Lookup!Paths : Lookup!Local(x) \in Lookup!Results
  BY DEF Lookup!Results
<1>2. Lookup!None \in Lookup!Results
  BY DEF Lookup!Results
<1>3. QED
  BY <1>1, <1>2, FetchesBest DEF LookupInv

\* Every step of the manager keeps the answers' types.
LEMMA LookupAnswersStep == LookupInv /\ LookupAnswers /\ [Lookup!Next]_lookupVars => LookupAnswers'
<1> SUFFICES ASSUME LookupInv, LookupAnswers, [Lookup!Next]_lookupVars PROVE LookupAnswers'
  OBVIOUS
<1>1. CASE UNCHANGED lookupVars \/ Lookup!UpdateDependencies
  BY <1>1 DEF lookupVars, Lookup!vars, Lookup!UpdateDependencies, LookupAnswers
<1>2. CASE Lookup!Lookups
  <2>1. merged = 2 /\ configs' = configs /\ exists' \subseteq Lookup!Paths /\ LookupTypes /\ EntriesMerged
    BY <1>2 DEF Lookup!Lookups, LookupInv, LookupTypes
  <2>2. /\ "plain" \in Lookup!Platforms /\ "versioned" \in Lookup!Platforms /\ Lookup!Chosen("plain") \in Lookup!Platforms
        /\ Lookup!Chosen("versioned") \in Lookup!Platforms
    BY DEF Lookup!Platforms, Lookup!Chosen
  <2>3. \A q \in Lookup!Platforms : Lookup!Cloud(q) \in Lookup!Results
    BY DEF Lookup!Results
  <2>4. {Lookup!None, Lookup!Skipped, Lookup!Error} \subseteq Lookup!Results
    BY DEF Lookup!Results
  <2>5. Retries \in Nat
    BY ToolsAssumption DEF Lookup!LookupAssumption
  <2>6. \A p \in {"plain", "versioned"} : Lookup!GetDependencyInfo(p) = Lookup!Chosen(p)
    BY <2>1, <2>2, FetchesBest
  <2>7. \A p \in {"plain", "versioned"} : Lookup!FetchPath(p) \in Lookup!Results
    BY <2>1, <2>2, <2>3, <2>4, <2>6, FetchAnswers DEF Lookup!FetchPath
  <2>8. Lookup!Prefetch \in Lookup!Results
    BY <2>1, <2>2, <2>3, <2>4, <2>6, FetchAnswers DEF Lookup!Prefetch
  <2>9. Lookup!Versioned \in Lookup!Results
    BY <2>7 DEF Lookup!Versioned
  <2>10. 0..1 \subseteq 0..Retries + 1
    BY <2>5
  <2>11. errors' \in 0..Retries + 1 /\ broken' \in BOOLEAN
    BY <1>2, <2>10 DEF Lookup!Lookups
  <2>12. /\ asked' \in {"plain", "versioned", "prefetch"}
         /\ result' \in {Lookup!FetchPath("plain"), Lookup!Versioned, Lookup!Prefetch}
    BY <1>2, Zenon DEF Lookup!Lookups, Lookup!Ask
  <2>13. QED
    BY <2>7, <2>8, <2>9, <2>11, <2>12 DEF LookupAnswers
<1>3. QED
  BY <1>1, <1>2 DEF Lookup!Next

\* The types of the lookup: a merged entry is an entry.
LEMMA LookupTypesHold == LookupInv /\ LookupAnswers => Lookup!TypeOK
<1> SUFFICES ASSUME LookupInv, LookupAnswers PROVE Lookup!TypeOK
  OBVIOUS
<1> DEFINE E == [groups : Lookup!Groups, cloud : BOOLEAN, named : BOOLEAN]
<1>1. /\ configs \in Seq([Lookup!Platforms -> Lookup!Options]) /\ Len(configs) = 2 /\ merged \in 0..2 /\ merged \in 0..Len(configs)
      /\ refused \in BOOLEAN /\ exists \subseteq Lookup!Paths
  BY DEF LookupInv, LookupTypes
<1>2. ASSUME NEW p \in Lookup!Platforms PROVE lookup[p] \in E
  <2> DEFINE c == configs[1][p]
             d == configs[2][p]
  <2>1. lookup[p] = MergedEntry(p)
    BY DEF LookupInv, EntriesMerged
  <2>2. c \in E /\ d \in E /\ Lookup!Absent \in E
    BY EntriesOfConfigs DEF LookupInv
  <2>3. MergedEntry(p) \in {Lookup!Absent, c, d, Lookup!Update(c, d)}
    BY DEF MergedEntry
  <2> HIDE DEF c, d
  <2>4. Lookup!UpdateGroups(c.groups, d.groups) \in Lookup!Groups
    BY <2>2, UpdateMerges DEF Merges
  <2>5. Lookup!Update(c, d) \in E
    BY <2>2, <2>4 DEF Lookup!Update
  <2> HIDE DEF E
  <2>6. QED
    BY <2>1, <2>2, <2>3, <2>5
<1>3. \A x \in DOMAIN configs : configs[x] \in [Lookup!Platforms -> Lookup!Options]
  BY <1>1
<1>4. QED
  BY <1>1, <1>2, <1>3 DEF Lookup!TypeOK, LookupAnswers

-----------------------------------------------------------------------------
(* The caches of two hosts *)

\* The token on the device is the last one given out, and a session has its own.
TokensAreOwn ==
  /\ token = tokens /\ saved.token <= tokens /\ changed <= tokens
  /\ \A h \in Host : session[h] <= tokens
  /\ \A g, h \in Host : session[g] = session[h] /\ session[g] # 0 => g = h

\* A host without a session remembers nothing.
NothingOutside ==
  \A h \in Host : session[h] = 0 => path[h] = Unknown /\ apk[h] = Unknown /\ sums[h] = Unknown /\ value[h] = Unknown

CacheInv == Cache!TypeOK /\ TokensAreOwn /\ NothingOutside /\ Cache!LastSessionIsRight

\* What one host remembers is so.
HostIsRight(h) ==
  /\ Cache!Right(path[h], apk[h], sums[h])
  /\ value[h] # Unknown /\ "prop" \notin torn => value[h] = prop

-----------------------------------------------------------------------------
(* The frame of the steps *)

OthersRemember(h) ==
  \A g \in Host \ {h} : path'[g] = path[g] /\ apk'[g] = apk[g] /\ sums'[g] = sums[g] /\ value'[g] = value[g]

\* h looks at the device and remembers more or less of it.
LEMMA ReadKeepsRight ==
  ASSUME CacheInv, NEW h \in Host, session[h] # 0, UNCHANGED <<Cache!device, Cache!tokenVars, saved, Cache!history>>, OthersRemember(h),
         HostIsRight(h) => HostIsRight(h)'
  PROVE  TokensAreOwn' /\ NothingOutside' /\ Cache!LastSessionIsRight'
<1>1. TokensAreOwn' /\ NothingOutside'
  BY DEF CacheInv, TokensAreOwn, NothingOutside, OthersRemember, Cache!tokenVars, Cache!history
<1>2. ASSUME ~unguarded', NEW g \in Host, session[g] # 0, changed <= session[g]
      PROVE  HostIsRight(g)'
  <2>1. HostIsRight(g)
    BY <1>2 DEF CacheInv, Cache!LastSessionIsRight, HostIsRight, Cache!history
  <2>2. CASE g = h
    BY <2>1, <2>2
  <2>3. CASE g # h
    BY <2>1, <2>3 DEF OthersRemember, HostIsRight, Cache!Right, Cache!device, Cache!history
  <2>4. QED
    BY <2>2, <2>3
<1>3. ASSUME ~unguarded', saved.token # 0, changed <= saved.token
      PROVE  Cache!Right(saved.path, saved.apk, saved.sums)'
  BY <1>3 DEF CacheInv, Cache!LastSessionIsRight, Cache!Right, Cache!device, Cache!history
<1>4. Cache!LastSessionIsRight'
  BY <1>2, <1>3 DEF Cache!LastSessionIsRight, HostIsRight, Cache!tokenVars, Cache!history
<1>5. QED
  BY <1>1, <1>4

\* h changes the device in its turn: then neither another host nor the saved cache has the token that is on the device.
LEMMA ChangeKeepsRight ==
  ASSUME CacheInv, NEW h \in Host, session[h] # 0, UNCHANGED <<Cache!tokenVars, saved>>, OthersRemember(h),
         Cache!Changes(h) \/ UNCHANGED <<Cache!device, Cache!history>>,
         ~unguarded /\ HostIsRight(h) => HostIsRight(h)'
  PROVE  TokensAreOwn' /\ NothingOutside' /\ Cache!LastSessionIsRight'
<1>1. TokensAreOwn' /\ NothingOutside'
  <2>1. changed' \in {token, changed}
    BY DEF Cache!Changes, Cache!history
  <2>2. QED
    BY <2>1 DEF CacheInv, TokensAreOwn, NothingOutside, OthersRemember, Cache!tokenVars, Cache!TypeOK
<1>2. CASE unguarded'
  BY <1>1, <1>2 DEF Cache!LastSessionIsRight
<1>3. CASE ~unguarded' /\ Cache!Changes(h)
  <2>1. ~unguarded /\ session[h] = token /\ session[h] # saved.token /\ changed' = token
    BY <1>3 DEF Cache!Changes
  <2>2. HostIsRight(h)'
    BY <2>1 DEF CacheInv, Cache!LastSessionIsRight, HostIsRight, TokensAreOwn
  <2>3. (\A g \in Host : token <= session[g] => g = h) /\ ~(token <= saved.token)
    BY <2>1 DEF CacheInv, TokensAreOwn, Cache!TypeOK, Cache!Data
  <2>4. QED
    BY <1>1, <2>1, <2>2, <2>3 DEF Cache!LastSessionIsRight, HostIsRight, Cache!tokenVars
<1>4. CASE UNCHANGED <<Cache!device, Cache!history>>
  <2>1. CASE unguarded
    BY <1>1, <1>4, <2>1 DEF Cache!LastSessionIsRight, Cache!history
  <2>2. CASE ~unguarded
    BY <1>4, <2>2, ReadKeepsRight DEF Cache!history
  <2>3. QED
    BY <2>1, <2>2
<1>5. QED
  BY <1>2, <1>3, <1>4

-----------------------------------------------------------------------------
(* Sessions *)

\* A new token is larger than all others: what it makes right is what its own session remembers.
LEMMA NewTokenIsOwn ==
  ASSUME Cache!DeviceCacheAssumption, CacheInv, NEW h \in Host, Cache!NewToken(h)
  PROVE  /\ token' # 0 /\ \A g \in Host : session[g] # token'
         /\ token' = tokens' /\ tokens' = tokens + 1 /\ tokens' \in 0..MaxTokens
BY DEF Cache!DeviceCacheAssumption, CacheInv, Cache!TypeOK, Cache!Data, TokensAreOwn, Cache!NewToken

\* A session's first use of the cache gets a new token.
LEMMA EnsureStep ==
  ASSUME Cache!DeviceCacheAssumption, CacheInv, NEW h \in Host, Cache!EnsureCacheInitialized(h)
  PROVE  CacheInv'
<1> USE DEF Cache!DeviceCacheAssumption
<1>1. /\ Cache!NewToken(h) /\ UNCHANGED <<Cache!device, path, verify, apk, sums, saved, Cache!history>> /\ session[h] = 0
      /\ \/ session' = [session EXCEPT ![h] = tokens + 1] /\ value' = [value EXCEPT ![h] = prop]
         \/ UNCHANGED <<session, value>>
  BY DEF Cache!EnsureCacheInitialized, Cache!NewToken
<1>2. Cache!TypeOK'
  BY <1>1, NewTokenIsOwn DEF CacheInv, Cache!TypeOK, Cache!device, Cache!history
<1>3. TokensAreOwn' /\ NothingOutside'
  BY <1>1, NewTokenIsOwn DEF CacheInv, Cache!TypeOK, Cache!Data, TokensAreOwn, NothingOutside, Cache!history
<1>4. ASSUME ~unguarded', NEW g \in Host, session'[g] # 0, changed' <= session'[g] PROVE HostIsRight(g)'
  <2>1. CASE session'[g] # session[g]
    <3>1. g = h /\ path'[h] = Unknown /\ apk'[h] = Unknown /\ sums'[h] = Unknown /\ value'[h] = prop'
      BY <1>1, <2>1 DEF CacheInv, Cache!TypeOK, NothingOutside, Cache!device
    <3>2. QED
      BY <3>1 DEF HostIsRight, Cache!Right
  <2>2. CASE session'[g] = session[g]
    <3>1. HostIsRight(g) /\ value'[g] = value[g]
      BY <1>1, <1>4, <2>2 DEF CacheInv, Cache!TypeOK, Cache!LastSessionIsRight, HostIsRight, Cache!history
    <3>2. QED
      BY <1>1, <3>1 DEF HostIsRight, Cache!Right, Cache!device, Cache!history
  <2>3. QED
    BY <2>1, <2>2
<1>5. Cache!LastSessionIsRight'
  <2>1. ASSUME ~unguarded', saved.token # 0, changed' <= saved.token PROVE Cache!Right(saved.path, saved.apk, saved.sums)'
    BY <1>1, <2>1 DEF CacheInv, Cache!LastSessionIsRight, Cache!Right, Cache!device, Cache!history
  <2>2. QED
    BY <1>1, <1>4, <2>1 DEF Cache!LastSessionIsRight, HostIsRight
<1>6. QED
  BY <1>2, <1>3, <1>5 DEF CacheInv

\* A cache that is loaded was saved by the session before, and not changed since.
LEMMA LoadStep ==
  ASSUME Cache!DeviceCacheAssumption, CacheInv, NEW h \in Host, Cache!LoadCacheData(h)
  PROVE  CacheInv'
<1> USE DEF Cache!DeviceCacheAssumption
<1>1. /\ saved.token # 0 /\ session[h] = saved.token + 1 /\ UNCHANGED <<Cache!device, Cache!tokenVars, value, saved, changed, torn>>
      /\ unguarded' = (unguarded \/ changed >= session[h])
      /\ path' = [path EXCEPT ![h] = saved.path] /\ apk' = [apk EXCEPT ![h] = saved.apk]
      /\ verify' \subseteq verify \cup {h}
      /\ sums' = [sums EXCEPT ![h] = saved.sums]
  BY DEF Cache!LoadCacheData, Cache!TakesOver, Cache!Remember
<1>2. Cache!TypeOK'
  BY <1>1 DEF CacheInv, Cache!TypeOK, Cache!Data, Cache!device, Cache!tokenVars
<1>3. TokensAreOwn' /\ NothingOutside'
  <2>1. session[h] # 0
    BY <1>1 DEF CacheInv, Cache!TypeOK, Cache!Data
  <2>2. QED
    BY <1>1, <2>1 DEF CacheInv, Cache!TypeOK, Cache!Data, TokensAreOwn, NothingOutside, Cache!tokenVars
<1>4. ASSUME ~unguarded' PROVE ~unguarded /\ changed <= saved.token /\ Cache!Right(saved.path, saved.apk, saved.sums)
  <2>1. ~unguarded /\ ~(changed >= saved.token + 1)
    BY <1>1, <1>4
  <2>2. changed \in Nat /\ saved.token \in Nat
    BY DEF CacheInv, Cache!TypeOK, Cache!Data
  <2>3. changed <= saved.token
    BY <2>1, <2>2
  <2>4. QED
    BY <1>1, <2>1, <2>3 DEF CacheInv, Cache!LastSessionIsRight
<1>5. ASSUME ~unguarded', NEW g \in Host, session[g] # 0, changed <= session[g] PROVE HostIsRight(g)'
  <2>1. HostIsRight(g)
    BY <1>4, <1>5 DEF CacheInv, Cache!LastSessionIsRight, HostIsRight
  <2>2. CASE g = h
    <3>1. path'[h] = saved.path /\ apk'[h] = saved.apk /\ sums'[h] = saved.sums /\ value'[h] = value[h]
      BY <1>1 DEF CacheInv, Cache!TypeOK
    <3>2. QED
      BY <1>1, <1>4, <1>5, <2>1, <2>2, <3>1 DEF HostIsRight, Cache!Right, Cache!device
  <2>3. CASE g # h
    <3>1. path'[g] = path[g] /\ apk'[g] = apk[g] /\ sums'[g] = sums[g] /\ value'[g] = value[g]
      BY <1>1, <2>3 DEF CacheInv, Cache!TypeOK
    <3>2. QED
      BY <1>1, <2>1, <3>1 DEF HostIsRight, Cache!Right, Cache!device
  <2>4. QED
    BY <2>2, <2>3
<1>7. Cache!LastSessionIsRight'
  <2>1. ASSUME ~unguarded' PROVE Cache!Right(saved.path, saved.apk, saved.sums)'
    BY <1>1, <1>4, <2>1 DEF Cache!Right, Cache!device
  <2>2. QED
    BY <1>1, <1>5, <2>1 DEF Cache!LastSessionIsRight, HostIsRight, Cache!tokenVars
<1>8. QED
  BY <1>2, <1>3, <1>7 DEF CacheInv

\* A dump saves what is known with its token.
LEMMA DumpStep ==
  ASSUME CacheInv, NEW h \in Host, Cache!DumpCacheData(h)
  PROVE  CacheInv'
<1>1. /\ saved' = [token |-> session[h], path |-> path[h], apk |-> apk[h], sums |-> sums[h]]
      /\ UNCHANGED <<Cache!device, Cache!tokenVars, Cache!caches, Cache!history>>
  BY DEF Cache!DumpCacheData
<1>2. Cache!TypeOK'
  BY <1>1 DEF CacheInv, Cache!TypeOK, Cache!Data, Cache!device, Cache!tokenVars, Cache!caches, Cache!history
<1>3. TokensAreOwn' /\ NothingOutside'
  BY <1>1 DEF CacheInv, TokensAreOwn, NothingOutside, Cache!tokenVars, Cache!caches, Cache!history
<1>4. Cache!LastSessionIsRight'
  BY <1>1 DEF CacheInv, Cache!LastSessionIsRight, Cache!Right, Cache!device, Cache!tokenVars, Cache!caches, Cache!history
<1>5. QED
  BY <1>2, <1>3, <1>4 DEF CacheInv

\* Clearing forgets, which is never wrong.
LEMMA ClearStep ==
  ASSUME Cache!DeviceCacheAssumption, CacheInv, NEW h \in Host, Cache!ClearCache(h)
  PROVE  CacheInv'
<1> USE DEF Cache!DeviceCacheAssumption
<1>1. /\ session' = [session EXCEPT ![h] = 0] /\ UNCHANGED <<Cache!device, token, tokens, saved, Cache!history>>
      /\ path' = [path EXCEPT ![h] = Unknown] /\ apk' = [apk EXCEPT ![h] = Unknown] /\ verify' = verify \ {h}
      /\ sums' = [sums EXCEPT ![h] = Unknown] /\ value' = [value EXCEPT ![h] = Unknown]
  BY DEF Cache!ClearCache, Cache!Remember
<1>2. Cache!TypeOK'
  BY <1>1 DEF CacheInv, Cache!TypeOK, Cache!device, Cache!history
<1>3. TokensAreOwn' /\ NothingOutside'
  BY <1>1 DEF CacheInv, Cache!TypeOK, TokensAreOwn, NothingOutside, Cache!history
<1>4. ASSUME ~unguarded', NEW g \in Host, session'[g] # 0, changed' <= session'[g] PROVE HostIsRight(g)'
  <2>1. g # h
    BY <1>1, <1>4 DEF CacheInv, Cache!TypeOK
  <2>2. HostIsRight(g)
    BY <1>1, <1>4, <2>1 DEF CacheInv, Cache!TypeOK, Cache!LastSessionIsRight, HostIsRight, Cache!history
  <2>3. QED
    BY <1>1, <2>1, <2>2 DEF CacheInv, Cache!TypeOK, HostIsRight, Cache!Right, Cache!device, Cache!history
<1>5. Cache!LastSessionIsRight'
  BY <1>1, <1>4 DEF CacheInv, Cache!LastSessionIsRight, HostIsRight, Cache!Right, Cache!device, Cache!history
<1>6. QED
  BY <1>2, <1>3, <1>5 DEF CacheInv

-----------------------------------------------------------------------------
(* Applications *)

\* A look at the device is remembered as it is.
LEMMA ReadPathStep ==
  ASSUME Cache!DeviceCacheAssumption, CacheInv, NEW h \in Host, Cache!GetApplicationPaths(h) \/ Cache!ComputeDeviceChecksumsForApks(h)
  PROVE  CacheInv'
<1> USE DEF Cache!DeviceCacheAssumption
<1>1. session[h] # 0
  BY DEF CacheInv, Cache!TypeOK, NothingOutside, Cache!GetApplicationPaths, Cache!ComputeDeviceChecksumsForApks
<1>2. /\ UNCHANGED <<Cache!device, Cache!tokenVars, sums, value, saved, Cache!history>> /\ verify' \subseteq verify
      /\ \/ path' = [path EXCEPT ![h] = (app # Cache!None)] /\ apk' = apk
         \/ app = Cache!None /\ path' = [path EXCEPT ![h] = FALSE] /\ apk' = [apk EXCEPT ![h] = Unknown]
         \/ path' = path /\ apk' = apk
         \/ path' = path /\ apk' = [apk EXCEPT ![h] = app]
  BY DEF Cache!GetApplicationPaths, Cache!ComputeDeviceChecksumsForApks, Cache!Remember
<1>3. Cache!TypeOK'
  BY <1>2 DEF CacheInv, Cache!TypeOK, Cache!device, Cache!tokenVars, Cache!history
<1>4. OthersRemember(h)
  BY <1>2 DEF CacheInv, Cache!TypeOK, OthersRemember
<1>5. ASSUME HostIsRight(h) PROVE HostIsRight(h)'
  BY <1>2, <1>5 DEF CacheInv, Cache!TypeOK, HostIsRight, Cache!Right, Cache!device, Cache!history
<1>6. QED
  BY <1>1, <1>2, <1>3, <1>4, <1>5, ReadKeepsRight DEF CacheInv

\* Whatever an install or uninstall leaves behind, the cache names it or nothing.
LEMMA InstallStep ==
  ASSUME Cache!DeviceCacheAssumption, CacheInv, NEW h \in Host, NEW v \in Cache!Installed,
         \/ v \in Version /\ (Cache!InstallChanged(h, v) \/ Cache!InstallUnchecked(h, v))
         \/ v = Cache!None /\ Cache!Uninstall(h)
  PROVE  CacheInv'
<1> USE DEF Cache!DeviceCacheAssumption
<1>1. session[h] # 0
  BY DEF CacheInv, NothingOutside, Cache!InstallChanged, Cache!InstallUnchecked, Cache!Uninstall
<1>2. /\ Cache!Changes(h) /\ UNCHANGED <<use, files, prop, Cache!tokenVars, sums, value, saved, torn>> /\ verify' = verify
      /\ app' \in {app, Cache!None, v}
      /\ \/ path' = [path EXCEPT ![h] = Unknown] /\ apk' = [apk EXCEPT ![h] = v] /\ app' = v
         \/ path' = [path EXCEPT ![h] = FALSE] /\ apk' = [apk EXCEPT ![h] = Cache!None] /\ app' = Cache!None
         \/ path' = [path EXCEPT ![h] = Unknown] /\ apk' = [apk EXCEPT ![h] = Unknown]
  BY DEF Cache!InstallChanged, Cache!InstallUnchecked, Cache!Uninstall, Cache!HalfInstalled, Cache!Remember
<1>3. Cache!TypeOK'
  <2>1. app' \in Cache!Installed /\ unguarded' \in BOOLEAN /\ changed' \in 0..MaxTokens
    BY <1>2 DEF CacheInv, Cache!TypeOK, Cache!Installed, Cache!Changes
  <2>2. path' \in [Host -> {Unknown} \cup BOOLEAN]
    BY <1>2 DEF CacheInv, Cache!TypeOK
  <2>3. apk' \in [Host -> {Unknown} \cup Cache!Installed]
    BY <1>2 DEF CacheInv, Cache!TypeOK, Cache!Installed
  <2>4. UNCHANGED <<use, files, prop, token, session, tokens, verify, sums, value, saved, torn>>
    BY <1>2 DEF Cache!tokenVars
  <2>5. QED
    BY <2>1, <2>2, <2>3, <2>4 DEF CacheInv, Cache!TypeOK, Cache!Data
<1>4. OthersRemember(h)
  BY <1>2 DEF CacheInv, Cache!TypeOK, OthersRemember
<1>5. ASSUME HostIsRight(h) PROVE HostIsRight(h)'
  BY <1>2, <1>5 DEF CacheInv, Cache!TypeOK, HostIsRight, Cache!Right
<1>6. QED
  BY <1>1, <1>2, <1>3, <1>4, <1>5, ChangeKeepsRight DEF CacheInv

-----------------------------------------------------------------------------
(* Files *)

\* The contents of what was pushed are those of the host's files.
LEMMA PushedIsContents ==
  ASSUME CacheInv, NEW fs, NEW v \in Version
  PROVE  Cache!Pushed(fs, v) \in Cache!Contents
BY DEF CacheInv, Cache!TypeOK, Cache!Contents, Cache!Pushed

\* Checksums that were calculated are those of the device's files.
LEMMA CalculateStep ==
  ASSUME CacheInv, NEW h \in Host, Cache!CalculateDeviceMd5Sums(h)
  PROVE  CacheInv'
<1>1. /\ session[h] # 0 /\ UNCHANGED <<Cache!device, Cache!tokenVars, path, verify, apk, value, saved, Cache!history>>
      /\ sums' = [sums EXCEPT ![h] = files]
  BY DEF Cache!CalculateDeviceMd5Sums
<1>2. Cache!TypeOK'
  BY <1>1 DEF CacheInv, Cache!TypeOK, Cache!device, Cache!tokenVars, Cache!history
<1>3. OthersRemember(h)
  BY <1>1 DEF CacheInv, Cache!TypeOK, OthersRemember
<1>4. ASSUME HostIsRight(h) PROVE HostIsRight(h)'
  BY <1>1, <1>4 DEF CacheInv, Cache!TypeOK, HostIsRight, Cache!Right, Cache!device, Cache!history
<1>5. QED
  BY <1>1, <1>2, <1>3, <1>4, ReadKeepsRight DEF CacheInv

\* Pushing what differs from the checksums makes all files v, if the checksums were right.
LEMMA PushStep ==
  ASSUME CacheInv, NEW h \in Host, NEW v \in Version, Cache!PushChangedFiles(h, v)
  PROVE  CacheInv'
<1> DEFINE differing == {f \in File : sums[h][f] # v}
<1>1. session[h] # 0 /\ sums[h] \in Cache!Contents
  BY DEF CacheInv, Cache!TypeOK, NothingOutside, Cache!PushChangedFiles
<1>2. UNCHANGED <<use, app, prop, Cache!tokenVars, path, verify, apk, value, saved>>
  BY DEF Cache!PushChangedFiles
<1>3. Cache!Changes(h) \/ (differing = {} /\ UNCHANGED <<changed, unguarded>>)
  BY DEF Cache!PushChangedFiles
<1>4. \/ files' = Cache!Pushed(differing, v) /\ sums' = [sums EXCEPT ![h] = [f \in File |-> v]] /\ torn' = torn
      \/ (\E fs \in (SUBSET differing) \ {{}} : files' = Cache!Pushed(fs, v)) /\ torn' = torn \cup {"files"} /\ sums' = sums
  BY DEF Cache!PushChangedFiles
<1>5. Cache!TypeOK'
  <2>1. files' \in Cache!Contents
    BY <1>4, PushedIsContents
  <2>2. [f \in File |-> v] \in Cache!Contents
    BY DEF Cache!Contents
  <2>3. QED
    BY <1>2, <1>3, <1>4, <2>1, <2>2 DEF CacheInv, Cache!TypeOK, Cache!Changes, Cache!tokenVars
<1>6. OthersRemember(h)
  BY <1>2, <1>4 DEF CacheInv, Cache!TypeOK, OthersRemember
<1>7. Cache!Changes(h) \/ UNCHANGED <<Cache!device, Cache!history>>
  <2>1. ASSUME differing = {} PROVE files' = files /\ torn' = torn
    <3>1. Cache!Pushed(differing, v) = files
      BY <2>1 DEF CacheInv, Cache!TypeOK, Cache!Contents, Cache!Pushed
    <3>2. ~\E fs : fs \in (SUBSET differing) \ {{}}
      BY <2>1
    <3>3. QED
      BY <1>4, <2>1, <3>1, <3>2
  <2>2. QED
    BY <1>2, <1>3, <2>1 DEF Cache!device, Cache!history
<1>8. ASSUME HostIsRight(h) PROVE HostIsRight(h)'
  <2>1. CASE torn' = torn \cup {"files"}
    BY <1>2, <1>4, <1>8, <2>1 DEF CacheInv, Cache!TypeOK, HostIsRight, Cache!Right
  <2>2. CASE files' = Cache!Pushed(differing, v) /\ sums' = [sums EXCEPT ![h] = [f \in File |-> v]] /\ torn' = torn
    <3>1. ASSUME "files" \notin torn PROVE files' = sums'[h]
      <4>1. files = sums[h] \/ sums[h] = Unknown
        BY <1>8, <3>1 DEF HostIsRight, Cache!Right
      <4>2. files = sums[h]
        BY <4>1 DEF Cache!PushChangedFiles
      <4>3. Cache!Pushed(differing, v) = [f \in File |-> v]
        BY <4>2 DEF Cache!Pushed
      <4>4. QED
        BY <2>2, <4>3 DEF CacheInv, Cache!TypeOK
    <3>2. QED
      BY <1>2, <1>8, <2>2, <3>1 DEF HostIsRight, Cache!Right
  <2>3. QED
    BY <1>4, <2>1, <2>2
<1>9. QED
  BY <1>1, <1>2, <1>5, <1>6, <1>7, <1>8, ChangeKeepsRight DEF CacheInv

\* What is pushed or removed behind the checksums is no longer looked for in them.
LEMMA BehindStep ==
  ASSUME CacheInv, NEW h \in Host, (\E v \in Version : Cache!PushAllFiles(h, v)) \/ \E fs : Cache!RemovePath(h, fs)
  PROVE  CacheInv'
<1>1. /\ session[h] # 0 /\ Cache!Changes(h) /\ UNCHANGED <<use, app, prop, Cache!tokenVars, Cache!caches, saved>>
      /\ (\E v \in Version : files' = Cache!Pushed(File, v)) \/ \E fs : files' = Cache!Pushed(fs, Cache!None)
      /\ torn' = (IF sums[h] = Unknown THEN torn ELSE torn \cup {"files"})
  BY DEF Cache!PushAllFiles, Cache!RemovePath
<1>2. Cache!TypeOK'
  <2>1. files' \in Cache!Contents
    BY <1>1 DEF CacheInv, Cache!TypeOK, Cache!Contents, Cache!Pushed
  <2>2. QED
    BY <1>1, <2>1 DEF CacheInv, Cache!TypeOK, Cache!Changes, Cache!tokenVars, Cache!caches
<1>3. OthersRemember(h)
  BY <1>1 DEF OthersRemember, Cache!caches
<1>4. ASSUME HostIsRight(h) PROVE HostIsRight(h)'
  BY <1>1, <1>4 DEF HostIsRight, Cache!Right, Cache!caches
<1>5. QED
  BY <1>1, <1>2, <1>3, <1>4, ChangeKeepsRight DEF CacheInv

-----------------------------------------------------------------------------
(* A property *)

\* A property that was read is as on the device.
LEMMA GetPropStep ==
  ASSUME CacheInv, NEW h \in Host, Cache!GetProp(h)
  PROVE  CacheInv'
<1>1. /\ session[h] # 0 /\ UNCHANGED <<Cache!device, Cache!tokenVars, path, verify, apk, sums, saved, Cache!history>>
      /\ value' = [value EXCEPT ![h] = prop]
  BY DEF Cache!GetProp
<1>2. Cache!TypeOK'
  BY <1>1 DEF CacheInv, Cache!TypeOK, Cache!device, Cache!tokenVars, Cache!history
<1>3. OthersRemember(h)
  BY <1>1 DEF CacheInv, Cache!TypeOK, OthersRemember
<1>4. ASSUME HostIsRight(h) PROVE HostIsRight(h)'
  BY <1>1, <1>4 DEF CacheInv, Cache!TypeOK, HostIsRight, Cache!Right, Cache!device, Cache!history
<1>5. QED
  BY <1>1, <1>2, <1>3, <1>4, ReadKeepsRight DEF CacheInv

\* A property that was set is known as on the device, or forgotten.
LEMMA SetPropStep ==
  ASSUME CacheInv, NEW h \in Host, NEW v \in Version, Cache!SetProp(h, v)
  PROVE  CacheInv'
<1>1. /\ session[h] # 0 /\ Cache!Changes(h) /\ UNCHANGED <<use, app, files, Cache!tokenVars, path, verify, apk, sums, saved>> /\ prop' = v
      /\ \/ value' = [value EXCEPT ![h] = Unknown] /\ torn' = torn
         \/ value' = value /\ torn' = torn \cup {"prop"}
  BY DEF Cache!SetProp
<1>2. Cache!TypeOK'
  BY <1>1 DEF CacheInv, Cache!TypeOK, Cache!Changes, Cache!tokenVars
<1>3. OthersRemember(h)
  BY <1>1 DEF CacheInv, Cache!TypeOK, OthersRemember
<1>4. ASSUME HostIsRight(h) PROVE HostIsRight(h)'
  BY <1>1, <1>4 DEF CacheInv, Cache!TypeOK, HostIsRight, Cache!Right
<1>5. QED
  BY <1>1, <1>2, <1>3, <1>4, ChangeKeepsRight DEF CacheInv

-----------------------------------------------------------------------------
(* Every behaviour *)

\* The invariant holds at first: nothing is remembered.
LEMMA CacheInit ==
  ASSUME Cache!DeviceCacheAssumption, Cache!Init
  PROVE  CacheInv
<1>1. Cache!TypeOK
  <2>1. saved \in Cache!Data
    BY DEF Cache!DeviceCacheAssumption, Cache!Init, Cache!Data, Cache!Empty
  <2>2. app \in Cache!Installed /\ files \in Cache!Contents
    BY DEF Cache!Init, Cache!Installed, Cache!Contents
  <2>3. /\ path \in [Host -> {Unknown} \cup BOOLEAN] /\ apk \in [Host -> {Unknown} \cup Cache!Installed]
        /\ sums \in [Host -> {Unknown} \cup Cache!Contents] /\ value \in [Host -> {Unknown} \cup Version]
    BY DEF Cache!Init
  <2>4. session \in [Host -> 0..MaxTokens] /\ token \in 0..MaxTokens /\ tokens \in 0..MaxTokens
    BY DEF Cache!DeviceCacheAssumption, Cache!Init
  <2>5. QED
    BY <2>1, <2>2, <2>3, <2>4 DEF Cache!Init, Cache!TypeOK
<1>2. TokensAreOwn /\ NothingOutside
  BY DEF Cache!DeviceCacheAssumption, Cache!Init, TokensAreOwn, NothingOutside, Cache!Empty
<1>3. Cache!LastSessionIsRight
  BY DEF Cache!Init, Cache!LastSessionIsRight, Cache!Empty
<1>4. QED
  BY <1>1, <1>2, <1>3 DEF CacheInv

\* Every step of a session keeps the invariant.
LEMMA CacheStep ==
  ASSUME Cache!DeviceCacheAssumption, CacheInv, [Cache!Next]_cacheVars
  PROVE  CacheInv'
<1>1. ASSUME NEW h \in Host,
             \/ Cache!EnsureCacheInitialized(h) \/ Cache!LoadCacheData(h) \/ Cache!DumpCacheData(h) \/ Cache!ClearCache(h)
             \/ Cache!GetApplicationPaths(h) \/ Cache!ComputeDeviceChecksumsForApks(h)
             \/ Cache!CalculateDeviceMd5Sums(h) \/ Cache!GetProp(h)
      PROVE  CacheInv'
  BY <1>1, EnsureStep, LoadStep, DumpStep, ClearStep, ReadPathStep, CalculateStep, GetPropStep
<1>2. ASSUME NEW h \in Host, Cache!Uninstall(h) PROVE CacheInv'
  BY <1>2, InstallStep DEF Cache!Installed
<1>3. ASSUME NEW h \in Host, NEW v \in Version,
             \/ Cache!InstallChanged(h, v) \/ Cache!InstallUnchecked(h, v)
             \/ Cache!PushChangedFiles(h, v) \/ Cache!PushAllFiles(h, v) \/ Cache!SetProp(h, v)
      PROVE  CacheInv'
  BY <1>3, InstallStep, PushStep, BehindStep, SetPropStep DEF Cache!Installed
<1>4. ASSUME NEW h \in Host, NEW fs, Cache!RemovePath(h, fs) PROVE CacheInv'
  BY <1>4, BehindStep
<1>5. CASE UNCHANGED cacheVars
  BY <1>5 DEF cacheVars, Cache!vars, CacheInv, Cache!TypeOK, TokensAreOwn, NothingOutside, Cache!LastSessionIsRight, Cache!Right
<1>6. QED
  BY <1>1, <1>2, <1>3, <1>4, <1>5 DEF Cache!Next

\* What the invariant says of the last session.
LEMMA CacheInvImplies == CacheInv => Cache!LastSessionIsRight
BY DEF CacheInv

-----------------------------------------------------------------------------
(* A trace with its agents *)

\* The elements of a list, those of its first steps, and the others.
Elems(list) == {list[q] : q \in DOMAIN list}
First(list, n) == {list[q] : q \in {j \in DOMAIN list : j < n}}
Rest(list, n) == {list[q] : q \in {j \in DOMAIN list : n <= j}}
Precedes(all, a, b) == \E j, q \in DOMAIN all : j < q /\ all[j] = a /\ all[q] = b
KeepsOrder(all, list) == \A j, q \in DOMAIN list : j < q => Precedes(all, list[j], list[q])
Out == {x[1] : x \in timedOut}
Of(list) == [q \in DOMAIN list |-> list[q].agent]
Alive == pc \notin {"died", "exited"}

\* Steps of an agent's calls: what is turned on is turned off again in a later call.
Words == Trace!Changes \union {"snapshot", "categories", "mark", "dump", "preprocess", "read", "clear", "wait", "pull", "launch", "none"}
Steps == [do : {"on", "off", "at"}, what : Words]
Undone(a, w) == \E p \in {"stopping", "thread", "getting"} : Trace!Off(w) \in Elems(Trace!Plan[a][p])
Fits(p, a, s) ==
  /\ s \in Steps
  /\ p = "starting" => s.do # "off" /\ (s.do = "on" => s.what \in Trace!Changes /\ Undone(a, s.what))
  /\ p = "syncing" => s.do = "at"
  /\ p \in {"stopping", "getting", "thread"} => s.do # "on"

\* What a phase has made of a list so far: the agents that it has called and that answered in time, in their order.
Handled(all, list, n, done, out) == KeepsOrder(all, done) /\ Elems(done) = First(list, n) \ out /\ Rest(list, n) \intersect out = {}
Everyone == Elems(scene.agents)
ListsFit ==
  /\ pc \in {"enable", "starting"} => succ = <<>> /\ results = <<>>
  /\ pc \in {"capturing", "syncing"} => succ = <<>> /\ results = <<>>
  /\ pc \in {"stopping", "disable"} => results = <<>>
  /\ KeepsOrder(scene.agents, child) /\ KeepsOrder(scene.agents, succ) /\ Elems(child) \subseteq Everyone
  /\ pc = "enable" => child = <<>> /\ timedOut = {}
  /\ pc = "starting" => Handled(scene.agents, scene.agents, i, child, Out)
  /\ pc \in {"capturing", "syncing"} => Elems(child) = Everyone \ Out
  /\ pc = "stopping" => Handled(scene.agents, child, i, succ, Out) /\ Everyone \ Out \subseteq Elems(child)
  /\ pc = "disable" => Elems(succ) = Everyone \ Out /\ Elems(succ) \subseteq Elems(child)
  /\ pc = "getting" => Handled(scene.agents, child, i, Of(results), Out) /\ Everyone \ Out \subseteq Elems(child)
  /\ pc \in {"output", "written"} => Trace!ResultsAreWhole /\ Everyone \ Out \subseteq Elems(child)

\* The calls that are still to come for an agent.
Current(a) == pc \in {"starting", "syncing", "stopping", "getting"} /\ i \in DOMAIN Trace!List(pc) /\ a = Trace!List(pc)[i]
ToStop(a) == pc \in {"enable", "starting", "capturing", "syncing"} \/ (pc = "stopping" /\ a \in Rest(child, i + 1))
ToCollect(a) == pc \in {"enable", "starting", "capturing", "syncing"} \/ (pc = "stopping" /\ a \in Rest(child, i))
ToGet(a) == pc \in {"enable", "starting", "capturing", "syncing", "stopping", "disable"} \/ (pc = "getting" /\ a \in Rest(child, i + 1))

\* A change is excused, or something that is still to come undoes it.
Excused(h) ==
  \/ h[1] \in Out \/ bg[h[1]] = "failed" \/ raised[1] = h[1] \/ raised[2] \in {"starting", "syncing", "stopping", "disable"}
  \/ raised[2] = "getting" /\ raised[1] # "controller" /\ Trace!Off(h[2]) \in Elems(Trace!Plan[h[1]]["getting"])
Due(h) ==
  \/ Current(h[1]) /\ Trace!Off(h[2]) \in Elems(todo)
  \/ ToStop(h[1]) /\ Trace!Off(h[2]) \in Elems(Trace!Plan[h[1]]["stopping"])
  \/ ToCollect(h[1]) /\ Trace!Off(h[2]) \in Elems(Trace!Plan[h[1]]["thread"])
  \/ bg[h[1]] = "thread" /\ Trace!Off(h[2]) \in Elems(work[h[1]])
  \/ ToGet(h[1]) /\ Trace!Off(h[2]) \in Elems(Trace!Plan[h[1]]["getting"])
HeldFit == \A h \in held : h[1] \in Everyone /\ (Excused(h) \/ Due(h))

\* What runs in the background is of an agent that timed out, or of one that collects in a thread and was stopped.
WorkFits ==
  \A a \in Trace!Agents :
    /\ work[a] # <<>> => a \in Everyone /\ bg[a] \in {"late", "thread"}
    /\ bg[a] = "late" => a \in Out
    /\ bg[a] \in {"thread", "failed", "done"} => ~ToCollect(a)
    /\ bg[a] = "thread" => \A q \in DOMAIN work[a] : work[a][q].do # "on"

MarkersFit ==
  /\ pc = "starting" => \A a \in {"atrace", "battor"} : Current(a) => Trace!On("record") \in Elems(todo) \/ <<a, "record">> \in held
  /\ pc \in {"starting", "capturing", "syncing"} => \A a \in {"atrace", "battor"} : a \in Elems(child) => <<a, "record">> \in held
  /\ pc = "syncing" => First(child, i) \intersect Trace!SyncAgents \subseteq synced
  /\ pc \in {"stopping", "disable", "getting", "output", "written"} => Elems(child) \intersect Trace!SyncAgents \subseteq synced

TodoFits == \A q \in DOMAIN todo : Trace!Running /\ Fits(pc, Trace!a0, todo[q])
DataFits == \A q \in DOMAIN results : results[q].data = "nothing" => results[q].agent \in Trace!Agents /\ bg[results[q].agent] = "failed"

Found == [agent : Trace!Agents \union {"controller"}, data : {"whole", "nothing"}]
TraceTypes ==
  /\ Trace!TypeOK
  /\ child \in Seq(Trace!Agents) /\ succ \in Seq(Trace!Agents) /\ results \in Seq(Found)
  /\ todo \in Seq(Steps) /\ work \in [Trace!Agents -> Seq(Steps)]
  /\ \A a \in Trace!Agents : \A q \in DOMAIN work[a] : work[a][q].do = "on" => work[a][q].what \in Trace!Changes

TraceInv ==
  /\ TraceTypes /\ ListsFit /\ HeldFit /\ WorkFits /\ MarkersFit /\ TodoFits /\ DataFits
  /\ Alive => i \in 1..Len(Trace!List(pc)) + 1 \/ pc = "enable"
  /\ Alive => raised = <<"none", "none">>
  /\ pc = "enable" \/ raised[2] = "enable" => held = {} /\ \A a \in Trace!Agents : work[a] = <<>>
  /\ pc = "exited" => \A a \in Trace!Agents : bg[a] # "thread"

\* The controller's own call was not given up before the output: what it gives up earlier ends the run.
NotGiven == pc \in {"output", "written", "died", "exited"} \/ "controller" \notin Out

\* A row of an agent's calls.
RowFits(p, a, row) == row \in Seq(Steps) /\ \A q \in DOMAIN row : Fits(p, a, row[q])
PlanFits(a) == \A p \in {"starting", "syncing", "stopping", "thread", "getting"} : RowFits(p, a, Trace!Plan[a][p])

-----------------------------------------------------------------------------
(* Lists *)

\* The next element of a list leaves the others for the first.
LEMMA ListStep ==
  ASSUME NEW T, NEW s \in Seq(T), NEW n \in DOMAIN s
  PROVE  /\ First(s, n + 1) = First(s, n) \union {s[n]} /\ Rest(s, n) = Rest(s, n + 1) \union {s[n]}
         /\ s[n] \in Elems(s) /\ s[n] \in T /\ n + 1 \in 1..Len(s) + 1
<1>1. DOMAIN s = 1..Len(s) /\ Len(s) \in Nat
  OBVIOUS
<1>2. {j \in DOMAIN s : j < n + 1} = {j \in DOMAIN s : j < n} \union {n} /\ {j \in DOMAIN s : n <= j} = {j \in DOMAIN s : n + 1 <= j} \union {n}
  BY <1>1
<1>3. First(s, n + 1) = First(s, n) \union {s[n]}
  BY <1>2 DEF First
<1>4. Rest(s, n) = Rest(s, n + 1) \union {s[n]}
  BY <1>2 DEF Rest
<1>5. s[n] \in Elems(s) /\ s[n] \in T
  BY <1>1 DEF Elems
<1>6. QED
  BY <1>1, <1>3, <1>4, <1>5

\* At first all elements of a list are to come, at last none.
LEMMA ListEnds ==
  ASSUME NEW T, NEW s \in Seq(T)
  PROVE  /\ First(s, 1) = {} /\ Rest(s, 1) = Elems(s)
         /\ \A n \in 1..Len(s) + 1 : n \notin DOMAIN s => First(s, n) = Elems(s) /\ Rest(s, n) = {}
         /\ \A n : First(s, n) \subseteq Elems(s) /\ Rest(s, n) \subseteq Elems(s)
         /\ Elems(s) \subseteq T /\ 1 \in 1..Len(s) + 1
<1>1. DOMAIN s = 1..Len(s) /\ Len(s) \in Nat
  OBVIOUS
<1>2. {j \in DOMAIN s : j < 1} = {} /\ {j \in DOMAIN s : 1 <= j} = DOMAIN s
  BY <1>1
<1>3. First(s, 1) = {} /\ Rest(s, 1) = Elems(s)
  BY <1>2 DEF First, Rest, Elems
<1>4. ASSUME NEW n \in 1..Len(s) + 1, n \notin DOMAIN s PROVE First(s, n) = Elems(s) /\ Rest(s, n) = {}
  <2>1. {j \in DOMAIN s : j < n} = DOMAIN s /\ {j \in DOMAIN s : n <= j} = {}
    BY <1>1, <1>4
  <2>2. QED
    BY <2>1 DEF First, Rest, Elems
<1>5. ASSUME NEW n PROVE First(s, n) \subseteq Elems(s) /\ Rest(s, n) \subseteq Elems(s)
  BY DEF First, Rest, Elems
<1>6. Elems(s) \subseteq T
  BY <1>1 DEF Elems
<1>7. QED
  BY <1>1, <1>3, <1>4, <1>5, <1>6

\* An element more at the end, one less at the beginning, and none.
LEMMA ListGrows ==
  ASSUME NEW T, NEW s \in Seq(T), NEW x \in T
  PROVE  Append(s, x) \in Seq(T) /\ Elems(Append(s, x)) = Elems(s) \union {x}
<1>1. Append(s, x) \in Seq(T) /\ DOMAIN Append(s, x) = DOMAIN s \union {Len(s) + 1} /\ Append(s, x)[Len(s) + 1] = x
  OBVIOUS
<1>2. \A q \in DOMAIN s : Append(s, x)[q] = s[q]
  OBVIOUS
<1>3. QED
  BY <1>1, <1>2 DEF Elems
LEMMA ListShrinks ==
  ASSUME NEW T, NEW s \in Seq(T), s # <<>>
  PROVE  /\ Tail(s) \in Seq(T) /\ Head(s) \in T /\ Elems(s) = Elems(Tail(s)) \union {Head(s)}
         /\ \A q \in DOMAIN Tail(s) : q + 1 \in DOMAIN s /\ Tail(s)[q] = s[q + 1]
         /\ 1 \in DOMAIN s /\ Head(s) = s[1]
<1>1. /\ Tail(s) \in Seq(T) /\ Head(s) \in T /\ DOMAIN s = 1..Len(s) /\ DOMAIN Tail(s) = 1..(Len(s) - 1) /\ Len(s) \in Nat \ {0}
      /\ Head(s) = s[1]
  OBVIOUS
<1>2. \A q \in 1..(Len(s) - 1) : Tail(s)[q] = s[q + 1]
  OBVIOUS
<1>3. \A q \in DOMAIN s : q = 1 \/ (q - 1 \in DOMAIN Tail(s) /\ Tail(s)[q - 1] = s[q])
  BY <1>1, <1>2
<1>4. Elems(s) = Elems(Tail(s)) \union {Head(s)}
  <2>1. Elems(s) \subseteq Elems(Tail(s)) \union {Head(s)}
    BY <1>1, <1>3 DEF Elems
  <2>2. ASSUME NEW q \in DOMAIN Tail(s) PROVE q + 1 \in DOMAIN s /\ Tail(s)[q] = s[q + 1]
    BY <1>1, <1>2
  <2>3. Elems(Tail(s)) \union {Head(s)} \subseteq Elems(s)
    BY <1>1, <2>2 DEF Elems
  <2>4. QED
    BY <2>1, <2>3
<1>5. QED
  BY <1>1, <1>2, <1>4
LEMMA NoElems == Elems(<<>>) = {} /\ \A all : KeepsOrder(all, <<>>)
BY DEF Elems, KeepsOrder

\* In a list of distinct elements none precedes itself, and the list is in its own order.
LEMMA OwnOrder ==
  ASSUME NEW T, NEW all \in Seq(T), \A j, q \in DOMAIN all : all[j] = all[q] => j = q
  PROVE  KeepsOrder(all, all) /\ \A x : ~Precedes(all, x, x)
<1>1. DOMAIN all \subseteq Nat
  OBVIOUS
<1>2. QED
  BY <1>1 DEF KeepsOrder, Precedes

\* In a list that keeps an order, what comes first precedes the next one, and is not among the rest.
LEMMA OrderOfNext ==
  ASSUME NEW T, NEW s \in Seq(T), NEW all, KeepsOrder(all, s), \A x : ~Precedes(all, x, x), NEW n \in DOMAIN s
  PROVE  /\ \A b \in First(s, n) : Precedes(all, b, s[n])
         /\ s[n] \notin First(s, n) /\ s[n] \notin Rest(s, n + 1)
         /\ \A b \in First(s, n) : b \notin Rest(s, n)
<1>1. DOMAIN s = 1..Len(s) /\ Len(s) \in Nat
  OBVIOUS
<1>2. \A b \in First(s, n) : Precedes(all, b, s[n])
  BY DEF First, KeepsOrder
<1>3. s[n] \notin First(s, n)
  BY <1>2
<1>4. s[n] \notin Rest(s, n + 1)
  BY <1>1 DEF Rest, KeepsOrder
<1>5. ASSUME NEW b \in First(s, n), b \in Rest(s, n) PROVE FALSE
  <2>1. PICK j \in DOMAIN s : j < n /\ b = s[j]
    BY <1>5 DEF First
  <2>2. PICK q \in DOMAIN s : n <= q /\ b = s[q]
    BY <1>5 DEF Rest
  <2>3. j < q
    BY <1>1, <2>1, <2>2
  <2>4. QED
    BY <2>1, <2>2, <2>3 DEF KeepsOrder
<1>6. QED
  BY <1>2, <1>3, <1>4, <1>5

\* A list that keeps an order still does so with an element at its end that all others precede.
LEMMA OrderGrows ==
  ASSUME NEW T, NEW s \in Seq(T), NEW all, KeepsOrder(all, s), NEW x \in T, \A b \in Elems(s) : Precedes(all, b, x)
  PROVE  KeepsOrder(all, Append(s, x))
<1>1. SUFFICES ASSUME NEW j \in DOMAIN Append(s, x), NEW q \in DOMAIN Append(s, x), j < q PROVE Precedes(all, Append(s, x)[j], Append(s, x)[q])
  BY DEF KeepsOrder
<1>2. DOMAIN s = 1..Len(s) /\ DOMAIN Append(s, x) = 1..Len(s) + 1 /\ Len(s) \in Nat /\ Append(s, x)[Len(s) + 1] = x
  OBVIOUS
<1>3. j \in DOMAIN s /\ Append(s, x)[j] = s[j]
  BY <1>1, <1>2
<1>4. CASE q \in DOMAIN s
  <2>1. Append(s, x)[q] = s[q]
    BY <1>4
  <2>2. QED
    BY <1>1, <1>3, <1>4, <2>1 DEF KeepsOrder
<1>5. CASE q = Len(s) + 1
  BY <1>2, <1>3, <1>5 DEF Elems
<1>6. QED
  BY <1>1, <1>2, <1>4, <1>5

-----------------------------------------------------------------------------
(* The calls of the agents *)

\* Rows of up to three steps.
LEMMA ShortRows ==
  ASSUME NEW p, NEW a
  PROVE  /\ RowFits(p, a, <<>>)
         /\ \A x : Fits(p, a, x) => RowFits(p, a, <<x>>)
         /\ \A x, y : Fits(p, a, x) /\ Fits(p, a, y) => RowFits(p, a, <<x, y>>)
         /\ \A x, y, z : Fits(p, a, x) /\ Fits(p, a, y) /\ Fits(p, a, z) => RowFits(p, a, <<x, y, z>>)
<1>1. RowFits(p, a, <<>>)
  BY DEF RowFits
<1>2. ASSUME NEW x, Fits(p, a, x) PROVE RowFits(p, a, <<x>>)
  <2>1. x \in Steps
    BY <1>2 DEF Fits
  <2>2. <<x>> \in Seq(Steps) /\ \A q \in DOMAIN <<x>> : <<x>>[q] = x
    BY <2>1
  <2>3. QED
    BY <1>2, <2>2 DEF RowFits
<1>3. ASSUME NEW x, NEW y, Fits(p, a, x), Fits(p, a, y) PROVE RowFits(p, a, <<x, y>>)
  <2>1. x \in Steps /\ y \in Steps
    BY <1>3 DEF Fits
  <2>2. <<x, y>> \in Seq(Steps) /\ \A q \in DOMAIN <<x, y>> : <<x, y>>[q] \in {x, y}
    BY <2>1
  <2>3. QED
    BY <1>3, <2>2 DEF RowFits
<1>4. ASSUME NEW x, NEW y, NEW z, Fits(p, a, x), Fits(p, a, y), Fits(p, a, z) PROVE RowFits(p, a, <<x, y, z>>)
  <2>1. x \in Steps /\ y \in Steps /\ z \in Steps
    BY <1>4 DEF Fits
  <2>2. <<x, y, z>> \in Seq(Steps) /\ \A q \in DOMAIN <<x, y, z>> : <<x, y, z>>[q] \in {x, y, z}
    BY <2>1
  <2>3. QED
    BY <1>4, <2>2 DEF RowFits
<1>5. QED
  BY <1>1, <1>2, <1>3, <1>4

\* Steps without an effect fit everywhere, what turns off in the later calls, and what turns on in the first if it is undone.
LEMMA StepsFit ==
  ASSUME NEW a, NEW w \in Words
  PROVE  /\ \A p : Fits(p, a, Trace!At(w))
         /\ \A p \in {"stopping", "thread", "getting"} : Fits(p, a, Trace!Off(w))
         /\ w \in Trace!Changes /\ Undone(a, w) => Fits("starting", a, Trace!On(w))
<1>1. Trace!At(w) \in Steps /\ Trace!Off(w) \in Steps /\ Trace!On(w) \in Steps
  BY DEF Trace!At, Trace!Off, Trace!On, Steps
<1>2. Trace!At(w).do = "at" /\ Trace!Off(w).do = "off" /\ Trace!On(w).do = "on" /\ Trace!On(w).what = w
  BY DEF Trace!At, Trace!Off, Trace!On
<1>3. QED
  BY <1>1, <1>2 DEF Fits

LEMMA ProcessAgentFits == PlanFits("process")
<1>1. Trace!Plan["process"] = Trace!ProcessAgent
  BY DEF Trace!Plan
<1>2. /\ Trace!Plan["process"]["starting"] = <<Trace!At("snapshot")>>
      /\ Trace!Plan["process"]["syncing"] = <<>>
      /\ Trace!Plan["process"]["stopping"] = <<Trace!At("snapshot")>>
      /\ Trace!Plan["process"]["thread"] = <<>>
      /\ Trace!Plan["process"]["getting"] = <<>>
  BY <1>1 DEF Trace!ProcessAgent, Trace!Calls
<1>3. RowFits("starting", "process", <<Trace!At("snapshot")>>)
  <2>1. Fits("starting", "process", Trace!At("snapshot"))
    BY StepsFit DEF Words, Trace!Changes
  <2>2. QED
    BY <2>1, ShortRows
<1>4. RowFits("stopping", "process", <<Trace!At("snapshot")>>)
  <2>1. Fits("stopping", "process", Trace!At("snapshot"))
    BY StepsFit DEF Words, Trace!Changes
  <2>2. QED
    BY <2>1, ShortRows
<1>5. QED
  BY <1>2, <1>3, <1>4, ShortRows DEF PlanFits

LEMMA AtraceAgentFits == PlanFits("atrace")
<1>1. Trace!Plan["atrace"] = Trace!AtraceAgent
  BY DEF Trace!Plan
<1>2. /\ Trace!Plan["atrace"]["starting"] = <<Trace!At("categories"), Trace!On("record")>>
      /\ Trace!Plan["atrace"]["syncing"] = <<Trace!At("mark")>>
      /\ Trace!Plan["atrace"]["stopping"] = <<>>
      /\ Trace!Plan["atrace"]["thread"] = <<Trace!At("dump"), Trace!Off("record"), Trace!At("preprocess")>>
      /\ Trace!Plan["atrace"]["getting"] = <<>>
  BY <1>1 DEF Trace!AtraceAgent, Trace!Calls, Trace!AtraceThread
<1>3. Undone("atrace", "record")
  <2>1. Trace!Plan["atrace"]["thread"][2] = Trace!Off("record") /\ 2 \in DOMAIN Trace!Plan["atrace"]["thread"]
    BY <1>2
  <2>2. QED
    BY <2>1 DEF Undone, Elems
<1>4. RowFits("starting", "atrace", <<Trace!At("categories"), Trace!On("record")>>)
  <2>1. Fits("starting", "atrace", Trace!At("categories")) /\ Fits("starting", "atrace", Trace!On("record"))
    BY StepsFit, <1>3 DEF Words, Trace!Changes
  <2>2. QED
    BY <2>1, ShortRows
<1>5. RowFits("syncing", "atrace", <<Trace!At("mark")>>)
  <2>1. Fits("syncing", "atrace", Trace!At("mark"))
    BY StepsFit DEF Words, Trace!Changes
  <2>2. QED
    BY <2>1, ShortRows
<1>6. RowFits("thread", "atrace", <<Trace!At("dump"), Trace!Off("record"), Trace!At("preprocess")>>)
  <2>1. Fits("thread", "atrace", Trace!At("dump")) /\ Fits("thread", "atrace", Trace!Off("record")) /\ Fits("thread", "atrace", Trace!At("preprocess"))
    BY StepsFit DEF Words, Trace!Changes
  <2>2. QED
    BY <2>1, ShortRows
<1>7. QED
  BY <1>2, <1>4, <1>5, <1>6, ShortRows DEF PlanFits

LEMMA AtraceFileAgentFits == PlanFits("file")
<1>1. Trace!Plan["file"] = Trace!AtraceFileAgent
  BY DEF Trace!Plan
<1>2. /\ Trace!Plan["file"]["starting"] = <<>>
      /\ Trace!Plan["file"]["syncing"] = <<>>
      /\ Trace!Plan["file"]["stopping"] = <<Trace!At("read")>>
      /\ Trace!Plan["file"]["thread"] = <<>>
      /\ Trace!Plan["file"]["getting"] = <<>>
  BY <1>1 DEF Trace!AtraceFileAgent, Trace!Calls
<1>3. RowFits("stopping", "file", <<Trace!At("read")>>)
  <2>1. Fits("stopping", "file", Trace!At("read"))
    BY StepsFit DEF Words, Trace!Changes
  <2>2. QED
    BY <2>1, ShortRows
<1>4. QED
  BY <1>2, <1>3, ShortRows DEF PlanFits

LEMMA BattOrAgentFits == PlanFits("battor")
<1>1. Trace!Plan["battor"] = Trace!BattOrAgent
  BY DEF Trace!Plan
<1>2. /\ Trace!Plan["battor"]["starting"] = <<Trace!On("discharge"), Trace!On("shell"), Trace!On("record")>>
      /\ Trace!Plan["battor"]["syncing"] = <<Trace!At("mark")>>
      /\ Trace!Plan["battor"]["stopping"] = <<Trace!Off("record"), Trace!Off("discharge")>>
      /\ Trace!Plan["battor"]["thread"] = <<>>
      /\ Trace!Plan["battor"]["getting"] = <<Trace!Off("shell")>>
  BY <1>1 DEF Trace!BattOrAgent, Trace!Calls
<1>3. Undone("battor", "discharge")
  <2>1. Trace!Plan["battor"]["stopping"][2] = Trace!Off("discharge") /\ 2 \in DOMAIN Trace!Plan["battor"]["stopping"]
    BY <1>2
  <2>2. QED
    BY <2>1 DEF Undone, Elems
<1>4. Undone("battor", "shell")
  <2>1. Trace!Plan["battor"]["getting"][1] = Trace!Off("shell") /\ 1 \in DOMAIN Trace!Plan["battor"]["getting"]
    BY <1>2
  <2>2. QED
    BY <2>1 DEF Undone, Elems
<1>5. Undone("battor", "record")
  <2>1. Trace!Plan["battor"]["stopping"][1] = Trace!Off("record") /\ 1 \in DOMAIN Trace!Plan["battor"]["stopping"]
    BY <1>2
  <2>2. QED
    BY <2>1 DEF Undone, Elems
<1>6. RowFits("starting", "battor", <<Trace!On("discharge"), Trace!On("shell"), Trace!On("record")>>)
  <2>1. Fits("starting", "battor", Trace!On("discharge")) /\ Fits("starting", "battor", Trace!On("shell")) /\ Fits("starting", "battor", Trace!On("record"))
    BY StepsFit, <1>3, <1>4, <1>5 DEF Words, Trace!Changes
  <2>2. QED
    BY <2>1, ShortRows
<1>7. RowFits("syncing", "battor", <<Trace!At("mark")>>)
  <2>1. Fits("syncing", "battor", Trace!At("mark"))
    BY StepsFit DEF Words, Trace!Changes
  <2>2. QED
    BY <2>1, ShortRows
<1>8. RowFits("stopping", "battor", <<Trace!Off("record"), Trace!Off("discharge")>>)
  <2>1. Fits("stopping", "battor", Trace!Off("record")) /\ Fits("stopping", "battor", Trace!Off("discharge"))
    BY StepsFit DEF Words, Trace!Changes
  <2>2. QED
    BY <2>1, ShortRows
<1>9. RowFits("getting", "battor", <<Trace!Off("shell")>>)
  <2>1. Fits("getting", "battor", Trace!Off("shell"))
    BY StepsFit DEF Words, Trace!Changes
  <2>2. QED
    BY <2>1, ShortRows
<1>10. QED
  BY <1>2, <1>6, <1>7, <1>8, <1>9, ShortRows DEF PlanFits

LEMMA FtraceAgentFits == PlanFits("ftrace")
<1>1. Trace!Plan["ftrace"] = Trace!FtraceAgent
  BY DEF Trace!Plan
<1>2. /\ Trace!Plan["ftrace"]["starting"] = <<Trace!On("buffer"), Trace!On("events"), Trace!On("record")>>
      /\ Trace!Plan["ftrace"]["syncing"] = <<>>
      /\ Trace!Plan["ftrace"]["stopping"] = <<Trace!Off("record"), Trace!Off("events")>>
      /\ Trace!Plan["ftrace"]["thread"] = <<>>
      /\ Trace!Plan["ftrace"]["getting"] = <<Trace!At("read"), Trace!Off("buffer")>>
  BY <1>1 DEF Trace!FtraceAgent, Trace!Calls
<1>3. Undone("ftrace", "buffer")
  <2>1. Trace!Plan["ftrace"]["getting"][2] = Trace!Off("buffer") /\ 2 \in DOMAIN Trace!Plan["ftrace"]["getting"]
    BY <1>2
  <2>2. QED
    BY <2>1 DEF Undone, Elems
<1>4. Undone("ftrace", "events")
  <2>1. Trace!Plan["ftrace"]["stopping"][2] = Trace!Off("events") /\ 2 \in DOMAIN Trace!Plan["ftrace"]["stopping"]
    BY <1>2
  <2>2. QED
    BY <2>1 DEF Undone, Elems
<1>5. Undone("ftrace", "record")
  <2>1. Trace!Plan["ftrace"]["stopping"][1] = Trace!Off("record") /\ 1 \in DOMAIN Trace!Plan["ftrace"]["stopping"]
    BY <1>2
  <2>2. QED
    BY <2>1 DEF Undone, Elems
<1>6. RowFits("starting", "ftrace", <<Trace!On("buffer"), Trace!On("events"), Trace!On("record")>>)
  <2>1. Fits("starting", "ftrace", Trace!On("buffer")) /\ Fits("starting", "ftrace", Trace!On("events")) /\ Fits("starting", "ftrace", Trace!On("record"))
    BY StepsFit, <1>3, <1>4, <1>5 DEF Words, Trace!Changes
  <2>2. QED
    BY <2>1, ShortRows
<1>7. RowFits("stopping", "ftrace", <<Trace!Off("record"), Trace!Off("events")>>)
  <2>1. Fits("stopping", "ftrace", Trace!Off("record")) /\ Fits("stopping", "ftrace", Trace!Off("events"))
    BY StepsFit DEF Words, Trace!Changes
  <2>2. QED
    BY <2>1, ShortRows
<1>8. RowFits("getting", "ftrace", <<Trace!At("read"), Trace!Off("buffer")>>)
  <2>1. Fits("getting", "ftrace", Trace!At("read")) /\ Fits("getting", "ftrace", Trace!Off("buffer"))
    BY StepsFit DEF Words, Trace!Changes
  <2>2. QED
    BY <2>1, ShortRows
<1>9. QED
  BY <1>2, <1>6, <1>7, <1>8, ShortRows DEF PlanFits

LEMMA WaltAgentFits == PlanFits("walt")
<1>1. Trace!Plan["walt"] = Trace!WaltAgent
  BY DEF Trace!Plan
<1>2. /\ Trace!Plan["walt"]["starting"] = <<Trace!At("clear")>>
      /\ Trace!Plan["walt"]["syncing"] = <<Trace!At("mark")>>
      /\ Trace!Plan["walt"]["stopping"] = <<>>
      /\ Trace!Plan["walt"]["thread"] = <<Trace!At("read")>>
      /\ Trace!Plan["walt"]["getting"] = <<>>
  BY <1>1 DEF Trace!WaltAgent, Trace!Calls
<1>3. RowFits("starting", "walt", <<Trace!At("clear")>>)
  <2>1. Fits("starting", "walt", Trace!At("clear"))
    BY StepsFit DEF Words, Trace!Changes
  <2>2. QED
    BY <2>1, ShortRows
<1>4. RowFits("syncing", "walt", <<Trace!At("mark")>>)
  <2>1. Fits("syncing", "walt", Trace!At("mark"))
    BY StepsFit DEF Words, Trace!Changes
  <2>2. QED
    BY <2>1, ShortRows
<1>5. RowFits("thread", "walt", <<Trace!At("read")>>)
  <2>1. Fits("thread", "walt", Trace!At("read"))
    BY StepsFit DEF Words, Trace!Changes
  <2>2. QED
    BY <2>1, ShortRows
<1>6. QED
  BY <1>2, <1>3, <1>4, <1>5, ShortRows DEF PlanFits

LEMMA ChromeAgentFits == PlanFits("chrome")
<1>1. Trace!Plan["chrome"] = Trace!ChromeAgent
  BY DEF Trace!Plan
<1>2. /\ Trace!Plan["chrome"]["starting"] = <<Trace!On("record"), Trace!At("wait")>>
      /\ Trace!Plan["chrome"]["syncing"] = <<>>
      /\ Trace!Plan["chrome"]["stopping"] = <<Trace!Off("record"), Trace!At("wait")>>
      /\ Trace!Plan["chrome"]["thread"] = <<>>
      /\ Trace!Plan["chrome"]["getting"] = <<Trace!At("pull")>>
  BY <1>1 DEF Trace!ChromeAgent, Trace!Calls
<1>3. Undone("chrome", "record")
  <2>1. Trace!Plan["chrome"]["stopping"][1] = Trace!Off("record") /\ 1 \in DOMAIN Trace!Plan["chrome"]["stopping"]
    BY <1>2
  <2>2. QED
    BY <2>1 DEF Undone, Elems
<1>4. RowFits("starting", "chrome", <<Trace!On("record"), Trace!At("wait")>>)
  <2>1. Fits("starting", "chrome", Trace!On("record")) /\ Fits("starting", "chrome", Trace!At("wait"))
    BY StepsFit, <1>3 DEF Words, Trace!Changes
  <2>2. QED
    BY <2>1, ShortRows
<1>5. RowFits("stopping", "chrome", <<Trace!Off("record"), Trace!At("wait")>>)
  <2>1. Fits("stopping", "chrome", Trace!Off("record")) /\ Fits("stopping", "chrome", Trace!At("wait"))
    BY StepsFit DEF Words, Trace!Changes
  <2>2. QED
    BY <2>1, ShortRows
<1>6. RowFits("getting", "chrome", <<Trace!At("pull")>>)
  <2>1. Fits("getting", "chrome", Trace!At("pull"))
    BY StepsFit DEF Words, Trace!Changes
  <2>2. QED
    BY <2>1, ShortRows
<1>7. QED
  BY <1>2, <1>4, <1>5, <1>6, ShortRows DEF PlanFits

LEMMA MemoryAgentFits == PlanFits("memory")
<1>1. Trace!Plan["memory"] = Trace!MemoryAgent
  BY DEF Trace!Plan
<1>2. /\ Trace!Plan["memory"]["starting"] = <<Trace!On("record"), Trace!On("mmap"), Trace!At("wait")>>
      /\ Trace!Plan["memory"]["syncing"] = <<>>
      /\ Trace!Plan["memory"]["stopping"] = <<Trace!Off("record"), Trace!At("wait"), Trace!Off("mmap")>>
      /\ Trace!Plan["memory"]["thread"] = <<>>
      /\ Trace!Plan["memory"]["getting"] = <<Trace!At("pull")>>
  BY <1>1 DEF Trace!MemoryAgent, Trace!Calls
<1>3. Undone("memory", "record")
  <2>1. Trace!Plan["memory"]["stopping"][1] = Trace!Off("record") /\ 1 \in DOMAIN Trace!Plan["memory"]["stopping"]
    BY <1>2
  <2>2. QED
    BY <2>1 DEF Undone, Elems
<1>4. Undone("memory", "mmap")
  <2>1. Trace!Plan["memory"]["stopping"][3] = Trace!Off("mmap") /\ 3 \in DOMAIN Trace!Plan["memory"]["stopping"]
    BY <1>2
  <2>2. QED
    BY <2>1 DEF Undone, Elems
<1>5. RowFits("starting", "memory", <<Trace!On("record"), Trace!On("mmap"), Trace!At("wait")>>)
  <2>1. Fits("starting", "memory", Trace!On("record")) /\ Fits("starting", "memory", Trace!On("mmap")) /\ Fits("starting", "memory", Trace!At("wait"))
    BY StepsFit, <1>3, <1>4 DEF Words, Trace!Changes
  <2>2. QED
    BY <2>1, ShortRows
<1>6. RowFits("stopping", "memory", <<Trace!Off("record"), Trace!At("wait"), Trace!Off("mmap")>>)
  <2>1. Fits("stopping", "memory", Trace!Off("record")) /\ Fits("stopping", "memory", Trace!At("wait")) /\ Fits("stopping", "memory", Trace!Off("mmap"))
    BY StepsFit DEF Words, Trace!Changes
  <2>2. QED
    BY <2>1, ShortRows
<1>7. RowFits("getting", "memory", <<Trace!At("pull")>>)
  <2>1. Fits("getting", "memory", Trace!At("pull"))
    BY StepsFit DEF Words, Trace!Changes
  <2>2. QED
    BY <2>1, ShortRows
<1>8. QED
  BY <1>2, <1>5, <1>6, <1>7, ShortRows DEF PlanFits

LEMMA DdmsAgentFits == PlanFits("ddms")
<1>1. Trace!Plan["ddms"] = Trace!DdmsAgent
  BY DEF Trace!Plan
<1>2. /\ Trace!Plan["ddms"]["starting"] = <<Trace!On("record")>>
      /\ Trace!Plan["ddms"]["syncing"] = <<>>
      /\ Trace!Plan["ddms"]["stopping"] = <<Trace!Off("record")>>
      /\ Trace!Plan["ddms"]["thread"] = <<>>
      /\ Trace!Plan["ddms"]["getting"] = <<Trace!At("pull")>>
  BY <1>1 DEF Trace!DdmsAgent, Trace!Calls
<1>3. Undone("ddms", "record")
  <2>1. Trace!Plan["ddms"]["stopping"][1] = Trace!Off("record") /\ 1 \in DOMAIN Trace!Plan["ddms"]["stopping"]
    BY <1>2
  <2>2. QED
    BY <2>1 DEF Undone, Elems
<1>4. RowFits("starting", "ddms", <<Trace!On("record")>>)
  <2>1. Fits("starting", "ddms", Trace!On("record"))
    BY StepsFit, <1>3 DEF Words, Trace!Changes
  <2>2. QED
    BY <2>1, ShortRows
<1>5. RowFits("stopping", "ddms", <<Trace!Off("record")>>)
  <2>1. Fits("stopping", "ddms", Trace!Off("record"))
    BY StepsFit DEF Words, Trace!Changes
  <2>2. QED
    BY <2>1, ShortRows
<1>6. RowFits("getting", "ddms", <<Trace!At("pull")>>)
  <2>1. Fits("getting", "ddms", Trace!At("pull"))
    BY StepsFit DEF Words, Trace!Changes
  <2>2. QED
    BY <2>1, ShortRows
<1>7. QED
  BY <1>2, <1>4, <1>5, <1>6, ShortRows DEF PlanFits

LEMMA PerfAgentFits == PlanFits("perf")
<1>1. Trace!Plan["perf"] = Trace!PerfAgent
  BY DEF Trace!Plan
<1>2. /\ Trace!Plan["perf"]["starting"] = <<Trace!On("clocks"), Trace!On("record")>>
      /\ Trace!Plan["perf"]["syncing"] = <<>>
      /\ Trace!Plan["perf"]["stopping"] = <<Trace!Off("record"), Trace!Off("clocks")>>
      /\ Trace!Plan["perf"]["thread"] = <<>>
      /\ Trace!Plan["perf"]["getting"] = <<Trace!At("pull")>>
  BY <1>1 DEF Trace!PerfAgent, Trace!Calls
<1>3. Undone("perf", "clocks")
  <2>1. Trace!Plan["perf"]["stopping"][2] = Trace!Off("clocks") /\ 2 \in DOMAIN Trace!Plan["perf"]["stopping"]
    BY <1>2
  <2>2. QED
    BY <2>1 DEF Undone, Elems
<1>4. Undone("perf", "record")
  <2>1. Trace!Plan["perf"]["stopping"][1] = Trace!Off("record") /\ 1 \in DOMAIN Trace!Plan["perf"]["stopping"]
    BY <1>2
  <2>2. QED
    BY <2>1 DEF Undone, Elems
<1>5. RowFits("starting", "perf", <<Trace!On("clocks"), Trace!On("record")>>)
  <2>1. Fits("starting", "perf", Trace!On("clocks")) /\ Fits("starting", "perf", Trace!On("record"))
    BY StepsFit, <1>3, <1>4 DEF Words, Trace!Changes
  <2>2. QED
    BY <2>1, ShortRows
<1>6. RowFits("stopping", "perf", <<Trace!Off("record"), Trace!Off("clocks")>>)
  <2>1. Fits("stopping", "perf", Trace!Off("record")) /\ Fits("stopping", "perf", Trace!Off("clocks"))
    BY StepsFit DEF Words, Trace!Changes
  <2>2. QED
    BY <2>1, ShortRows
<1>7. RowFits("getting", "perf", <<Trace!At("pull")>>)
  <2>1. Fits("getting", "perf", Trace!At("pull"))
    BY StepsFit DEF Words, Trace!Changes
  <2>2. QED
    BY <2>1, ShortRows
<1>8. QED
  BY <1>2, <1>5, <1>6, <1>7, ShortRows DEF PlanFits

LEMMA StartupAgentFits == PlanFits("startup")
<1>1. Trace!Plan["startup"] = Trace!StartupAgent
  BY DEF Trace!Plan
<1>2. /\ Trace!Plan["startup"]["starting"] = <<Trace!On("flag"), Trace!At("launch")>>
      /\ Trace!Plan["startup"]["syncing"] = <<>>
      /\ Trace!Plan["startup"]["stopping"] = <<Trace!At("wait"), Trace!Off("flag")>>
      /\ Trace!Plan["startup"]["thread"] = <<>>
      /\ Trace!Plan["startup"]["getting"] = <<Trace!At("pull")>>
  BY <1>1 DEF Trace!StartupAgent, Trace!Calls
<1>3. Undone("startup", "flag")
  <2>1. Trace!Plan["startup"]["stopping"][2] = Trace!Off("flag") /\ 2 \in DOMAIN Trace!Plan["startup"]["stopping"]
    BY <1>2
  <2>2. QED
    BY <2>1 DEF Undone, Elems
<1>4. RowFits("starting", "startup", <<Trace!On("flag"), Trace!At("launch")>>)
  <2>1. Fits("starting", "startup", Trace!On("flag")) /\ Fits("starting", "startup", Trace!At("launch"))
    BY StepsFit, <1>3 DEF Words, Trace!Changes
  <2>2. QED
    BY <2>1, ShortRows
<1>5. RowFits("stopping", "startup", <<Trace!At("wait"), Trace!Off("flag")>>)
  <2>1. Fits("stopping", "startup", Trace!At("wait")) /\ Fits("stopping", "startup", Trace!Off("flag"))
    BY StepsFit DEF Words, Trace!Changes
  <2>2. QED
    BY <2>1, ShortRows
<1>6. RowFits("getting", "startup", <<Trace!At("pull")>>)
  <2>1. Fits("getting", "startup", Trace!At("pull"))
    BY StepsFit DEF Words, Trace!Changes
  <2>2. QED
    BY <2>1, ShortRows
<1>7. QED
  BY <1>2, <1>4, <1>5, <1>6, ShortRows DEF PlanFits

\* Every agent's calls fit.
LEMMA EveryPlanFits ==
  ASSUME NEW a \in Trace!Agents
  PROVE  PlanFits(a)
BY ProcessAgentFits, AtraceAgentFits, AtraceFileAgentFits, BattOrAgentFits, FtraceAgentFits, WaltAgentFits, ChromeAgentFits, MemoryAgentFits, DdmsAgentFits, PerfAgentFits, StartupAgentFits DEF Trace!Agents
\* What the plan says of the agents' calls.
LEMMA PlanIs ==
  ASSUME NEW a \in Trace!Agents, NEW p \in {"starting", "syncing", "stopping", "thread", "getting"}
  PROVE  Trace!Plan[a][p] \in Seq(Steps) /\ \A q \in DOMAIN Trace!Plan[a][p] : Fits(p, a, Trace!Plan[a][p][q])
BY EveryPlanFits DEF PlanFits, RowFits
LEMMA Records == \A a \in {"atrace", "battor"} : Trace!On("record") \in Elems(Trace!Plan[a]["starting"])
<1>1. Trace!Plan["atrace"] = Trace!AtraceAgent /\ Trace!Plan["battor"] = Trace!BattOrAgent
  BY DEF Trace!Plan
<1>2. Trace!Plan["atrace"]["starting"] = <<Trace!At("categories"), Trace!On("record")>>
  BY <1>1 DEF Trace!AtraceAgent, Trace!Calls
<1>3. Trace!Plan["battor"]["starting"] = <<Trace!On("discharge"), Trace!On("shell"), Trace!On("record")>>
  BY <1>1 DEF Trace!BattOrAgent, Trace!Calls
<1>4. Trace!On("record") \in Elems(Trace!Plan["atrace"]["starting"])
  <2>1. 2 \in DOMAIN Trace!Plan["atrace"]["starting"] /\ Trace!Plan["atrace"]["starting"][2] = Trace!On("record")
    BY <1>2
  <2>2. QED
    BY <2>1 DEF Elems
<1>5. Trace!On("record") \in Elems(Trace!Plan["battor"]["starting"])
  <2>1. 3 \in DOMAIN Trace!Plan["battor"]["starting"] /\ Trace!Plan["battor"]["starting"][3] = Trace!On("record")
    BY <1>3
  <2>2. QED
    BY <2>1 DEF Elems
<1>6. QED
  BY <1>4, <1>5
LEMMA NoThread == \A a \in Trace!Agents : a \in Trace!ThreadAgents \/ Elems(Trace!Plan[a]["thread"]) = {}
BY NoElems DEF Trace!ThreadAgents

\* The agents of a scene are distinct, and those of each front end are known.
LEMMA SceneIs ==
  ASSUME Trace!TypeOK
  PROVE  /\ scene.agents \in Seq(Trace!Agents) /\ Everyone = Elems(scene.agents) /\ Everyone \subseteq Trace!Agents
         /\ KeepsOrder(scene.agents, scene.agents) /\ \A x : ~Precedes(scene.agents, x, x)
<1>1. scene \in Scenes
  BY DEF Trace!TypeOK
<1>2. scene.agents \in Seq(Trace!Agents) /\ \A j, q \in DOMAIN scene.agents : scene.agents[j] = scene.agents[q] => j = q
  BY <1>1, ToolsAssumption DEF Trace!TracingAssumption
<1>3. QED
  BY <1>2, ListEnds, OwnOrder DEF Everyone

\* While an agent is called it has not timed out yet, and it is neither among those called before nor among those that follow.
Listed(l) ==
  /\ l \in Seq(Trace!Agents) /\ i \in DOMAIN l /\ Trace!a0 = l[i] /\ Trace!a0 \in Trace!Agents /\ Trace!a0 \in Everyone /\ Trace!a0 \notin Out
  /\ First(l, i + 1) = First(l, i) \union {Trace!a0} /\ Rest(l, i) = Rest(l, i + 1) \union {Trace!a0}
  /\ Trace!a0 \notin First(l, i) /\ Trace!a0 \notin Rest(l, i + 1) /\ i + 1 \in 1..Len(l) + 1 /\ Trace!a0 \in Elems(l)
  /\ \A b \in First(l, i) : Precedes(scene.agents, b, Trace!a0)
LEMMA CallFacts ==
  ASSUME TraceInv, Trace!Running
  PROVE  /\ Listed(Trace!List(pc)) /\ pc \in {"starting", "syncing", "stopping", "getting"}
         /\ Alive /\ raised = <<"none", "none">> /\ \A a : Current(a) <=> a = Trace!a0
         /\ pc = "starting" => Trace!List(pc) = scene.agents
         /\ pc # "starting" => Trace!List(pc) = child
<1> DEFINE l == Trace!List(pc)
<1>1. pc \in {"starting", "syncing", "stopping", "getting"} /\ i \in DOMAIN l /\ Trace!a0 = l[i]
  BY DEF Trace!Running, Trace!a0
<1>2. (pc = "starting" => l = scene.agents) /\ (pc # "starting" => l = child)
  BY DEF Trace!List
<1>3. /\ scene.agents \in Seq(Trace!Agents) /\ Everyone = Elems(scene.agents) /\ child \in Seq(Trace!Agents)
      /\ KeepsOrder(scene.agents, scene.agents) /\ KeepsOrder(scene.agents, child) /\ Elems(child) \subseteq Everyone
      /\ \A x : ~Precedes(scene.agents, x, x)
  BY SceneIs DEF TraceInv, TraceTypes, ListsFit
<1>4. l \in Seq(Trace!Agents) /\ KeepsOrder(scene.agents, l) /\ Elems(l) \subseteq Everyone
  BY <1>2, <1>3
<1>5. pc = "syncing" => Elems(l) \intersect Out = {}
  BY <1>2 DEF TraceInv, ListsFit
<1>6. pc # "syncing" => Rest(l, i) \intersect Out = {}
  BY <1>1, <1>2 DEF TraceInv, ListsFit, Handled
<1> HIDE DEF l
<1>7. /\ First(l, i + 1) = First(l, i) \union {l[i]} /\ Rest(l, i) = Rest(l, i + 1) \union {l[i]}
      /\ l[i] \in Elems(l) /\ l[i] \in Trace!Agents /\ i + 1 \in 1..Len(l) + 1
  BY <1>1, <1>4, ListStep
<1>8. /\ \A b \in First(l, i) : Precedes(scene.agents, b, l[i])
      /\ l[i] \notin First(l, i) /\ l[i] \notin Rest(l, i + 1)
  BY <1>1, <1>3, <1>4, OrderOfNext
<1>9. Trace!a0 \notin Out
  BY <1>1, <1>5, <1>6, <1>7
<1>10. Listed(l)
  BY <1>1, <1>4, <1>7, <1>8, <1>9 DEF Listed
<1>11. Alive /\ raised = <<"none", "none">>
  BY <1>1 DEF TraceInv, Alive
<1>12. \A a : Current(a) <=> a = Trace!a0
  BY <1>1 DEF Current, l
<1>13. QED
  BY <1>1, <1>2, <1>10, <1>11, <1>12 DEF l

\* A phase that begins with an agent, or goes on to it: the agents to come are to come after it, or are called now.
LEMMA EnterFacts ==
  ASSUME Trace!TypeOK, NEW p \in {"starting", "syncing", "stopping", "getting"}, NEW l \in Seq(Trace!Agents), NEW n \in 1..Len(l) + 1, Trace!Enter(p, l, n),
         Trace!List(p)' = l
  PROVE  /\ TodoFits' /\ todo' \in Seq(Steps) /\ pc' = p /\ i' = n
         /\ \A b \in Rest(l, n) : b \in Rest(l, n + 1) \/ (Current(b)' /\ todo' = Trace!Plan[b][p])
         /\ \A b : Current(b)' => b \in Rest(l, n) /\ todo' = Trace!Plan[b][p]
<1>1. pc' = p /\ i' = n /\ todo' = IF n \in DOMAIN l THEN Trace!Plan[l[n]][p] ELSE <<>>
  BY DEF Trace!Enter, Trace!StepsOf
<1>2. <<>> \in Seq(Steps) /\ DOMAIN <<>> = {}
  OBVIOUS
<1>3. \A b : Current(b)' <=> n \in DOMAIN l /\ b = l[n]
  BY <1>1 DEF Current
<1>4. CASE n \in DOMAIN l
  <2>1. l[n] \in Trace!Agents /\ Rest(l, n) = Rest(l, n + 1) \union {l[n]}
    BY <1>4, ListStep
  <2>2. todo' = Trace!Plan[l[n]][p] /\ todo' \in Seq(Steps) /\ \A q \in DOMAIN todo' : Fits(p, l[n], todo'[q])
    BY <1>1, <1>4, <2>1, PlanIs
  <2>3. Trace!Running' /\ Trace!a0' = l[n]
    BY <1>1, <1>4 DEF Trace!Running, Trace!a0
  <2>4. TodoFits'
    BY <1>1, <2>2, <2>3 DEF TodoFits
  <2>5. QED
    BY <1>1, <1>3, <1>4, <2>1, <2>2, <2>4
<1>5. CASE n \notin DOMAIN l
  <2>1. todo' = <<>> /\ Rest(l, n) = {}
    BY <1>1, <1>5, ListEnds
  <2>2. TodoFits'
    BY <1>2, <2>1 DEF TodoFits
  <2>3. QED
    BY <1>1, <1>2, <1>3, <1>5, <2>1, <2>2
<1>6. QED
  BY <1>4, <1>5

\* What excuses a change goes on to excuse it.
LEMMA ExcusedKept ==
  ASSUME TraceInv, NEW h \in held, Excused(h), timedOut \subseteq timedOut', bg[h[1]] = "failed" => bg'[h[1]] = "failed",
         raised' = raised \/ raised = <<"none", "none">>
  PROVE  Excused(h)'
<1>1. h[1] \in Trace!Agents
  BY DEF TraceInv, TraceTypes, Trace!TypeOK
<1>2. Out \subseteq Out'
  BY DEF Out
<1>3. raised = <<"none", "none">> => raised[1] # h[1] /\ raised[2] = "none"
  BY <1>1 DEF Trace!Agents
<1>4. QED
  BY <1>2, <1>3 DEF Excused

\* What an effect changes is of its agent: a change more, or one less.
LEMMA EffectIs ==
  ASSUME NEW a, NEW s, NEW h
  PROVE  /\ \A x \in Trace!Effect(a, s, h) : x \in h \/ (s.do = "on" /\ x = <<a, s.what>>)
         /\ \A x \in h : x \in Trace!Effect(a, s, h) \/ (s.do = "off" /\ x = <<a, s.what>>)
         /\ s.do = "on" => <<a, s.what>> \in Trace!Effect(a, s, h)
         /\ s.do = "off" => <<a, s.what>> \notin Trace!Effect(a, s, h)
BY DEF Trace!Effect
LEMMA OnAndOff ==
  ASSUME NEW w
  PROVE  Trace!On(w).do = "on" /\ Trace!On(w).what = w /\ Trace!Off(w).do = "off" /\ Trace!Off(w).what = w
BY DEF Trace!On, Trace!Off

\* A change that an effect adds is of the known ones, and so is its agent.
LEMMA EffectTypes ==
  ASSUME Trace!TypeOK, NEW a \in Trace!Agents, NEW s, s.do = "on" => s.what \in Trace!Changes
  PROVE  Trace!Effect(a, s, held) \subseteq Trace!Agents \X Trace!Changes
<1>1. held \subseteq Trace!Agents \X Trace!Changes
  BY DEF Trace!TypeOK
<1>2. \A x \in Trace!Effect(a, s, held) : x \in held \/ (s.do = "on" /\ x = <<a, s.what>>)
  BY EffectIs
<1>3. s.do = "on" => <<a, s.what>> \in Trace!Agents \X Trace!Changes
  OBVIOUS
<1>4. QED
  BY <1>1, <1>2, <1>3

\* A step of a call, which undoes a change, or makes one that a later call undoes.
LEMMA StepKeeps == TraceInv /\ Trace!Step => TraceInv'
<1> SUFFICES ASSUME TraceInv, Trace!Step PROVE TraceInv'
  OBVIOUS
<1> DEFINE s == Head(todo)
<1>1. /\ Trace!Running /\ todo # <<>> /\ todo' = Tail(todo) /\ held' = Trace!Effect(Trace!a0, s, held) /\ atexit' = (atexit \/ s = Trace!On("discharge"))
      /\ UNCHANGED <<scene, pc, i, work, bg, child, succ, synced, results, timedOut, raised>>
  BY DEF Trace!Step
<1>2. TraceTypes /\ ListsFit /\ HeldFit /\ WorkFits /\ MarkersFit /\ TodoFits /\ DataFits /\ Trace!TypeOK
  BY DEF TraceInv, TraceTypes
<1>3. Listed(Trace!List(pc)) /\ pc \in {"starting", "syncing", "stopping", "getting"} /\ \A a : Current(a) <=> a = Trace!a0
  BY <1>1, CallFacts
<1>4. todo \in Seq(Steps)
  BY <1>2 DEF TraceTypes
<1>5. /\ Tail(todo) \in Seq(Steps) /\ s \in Steps /\ Elems(todo) = Elems(todo') \union {s}
      /\ \A q \in DOMAIN todo' : q + 1 \in DOMAIN todo /\ todo'[q] = todo[q + 1]
      /\ 1 \in DOMAIN todo /\ s = todo[1]
  BY <1>1, <1>4, ListShrinks
<1>6. Fits(pc, Trace!a0, s) /\ \A q \in DOMAIN todo' : Fits(pc, Trace!a0, todo'[q])
  BY <1>2, <1>5 DEF TodoFits
<1>7. Trace!a0 \in Trace!Agents /\ Trace!a0 \in Everyone
  BY <1>3 DEF Listed
<1>8. /\ \A x \in held' : x \in held \/ (s.do = "on" /\ x = <<Trace!a0, s.what>>)
      /\ \A x \in held : x \in held' \/ (s.do = "off" /\ x = <<Trace!a0, s.what>>)
      /\ s.do = "on" => <<Trace!a0, s.what>> \in held'
      /\ s.do = "off" => <<Trace!a0, s.what>> \notin held'
  BY <1>1, EffectIs
<1>9. /\ s.do = "on" => pc = "starting" /\ s.what \in Trace!Changes /\ Undone(Trace!a0, s.what)
      /\ s.do = "off" => pc \in {"stopping", "getting"}
  BY <1>3, <1>6 DEF Fits
<1> HIDE DEF s
<1>10. Trace!TypeOK'
  <2>1. held' \subseteq Trace!Agents \X Trace!Changes
    BY <1>1, <1>2, <1>7, <1>9, EffectTypes
  <2>2. atexit' \in BOOLEAN
    BY <1>1
  <2>3. QED
    BY <1>1, <1>2, <2>1, <2>2 DEF Trace!TypeOK
<1>11. TraceTypes'
  BY <1>1, <1>2, <1>5, <1>10 DEF TraceTypes
<1>12. ListsFit' /\ WorkFits' /\ DataFits' /\ Everyone' = Everyone
  <2>1. Everyone' = Everyone /\ Out' = Out /\ (Trace!ResultsAreWhole' <=> Trace!ResultsAreWhole)
    BY <1>1 DEF Everyone, Out, Trace!ResultsAreWhole, Trace!Before
  <2>2. ListsFit'
    BY <1>1, <1>2, <2>1 DEF ListsFit
  <2>3. WorkFits'
    BY <1>1, <1>2, <2>1 DEF WorkFits, ToCollect
  <2>4. DataFits'
    BY <1>1, <1>2 DEF DataFits
  <2>5. QED
    BY <2>1, <2>2, <2>3, <2>4
<1>13. TodoFits'
  BY <1>1, <1>6 DEF TodoFits, Trace!Running, Trace!a0, Trace!List
<1>14. /\ \A h : Excused(h)' <=> Excused(h)
       /\ \A a : (Current(a)' <=> Current(a)) /\ (ToStop(a)' <=> ToStop(a)) /\ (ToCollect(a)' <=> ToCollect(a)) /\ (ToGet(a)' <=> ToGet(a))
  BY <1>1 DEF Excused, Out, Current, ToStop, ToCollect, ToGet, Trace!List
<1>15. HeldFit'
  <2>1. SUFFICES ASSUME NEW h \in held' PROVE h[1] \in Everyone /\ (Excused(h)' \/ Due(h)')
    BY <1>12 DEF HeldFit
  <2>2. CASE s.do = "on" /\ h = <<Trace!a0, s.what>>
    <3>1. h[1] = Trace!a0 /\ h[2] = s.what
      BY <2>2
    <3>2. pc = "starting" /\ Undone(h[1], h[2])
      BY <1>9, <2>2, <3>1
    <3>3. ToStop(h[1])' /\ ToCollect(h[1])' /\ ToGet(h[1])'
      BY <1>14, <3>2 DEF ToStop, ToCollect, ToGet
    <3>4. Due(h)'
      BY <3>2, <3>3 DEF Undone, Due
    <3>5. QED
      BY <1>7, <3>1, <3>4
  <2>3. CASE h \in held
    <3>1. h[1] \in Everyone /\ (Excused(h) \/ Due(h))
      BY <1>2, <2>3 DEF HeldFit
    <3>2. ASSUME Current(h[1]), Trace!Off(h[2]) \in Elems(todo) PROVE Trace!Off(h[2]) \in Elems(todo')
      <4>1. h \in Trace!Agents \X Trace!Changes
        BY <1>2, <2>3 DEF Trace!TypeOK
      <4>2. h[1] = Trace!a0 /\ h = <<h[1], h[2]>>
        BY <1>3, <3>2, <4>1
      <4>3. Trace!Off(h[2]) # s
        BY <1>8, <2>1, <4>2, OnAndOff
      <4>4. QED
        BY <1>5, <3>2, <4>3
    <3>3. Due(h) => Due(h)'
      BY <1>1, <1>14, <3>2 DEF Due
    <3>4. QED
      BY <1>14, <3>1, <3>3
  <2>4. QED
    BY <1>8, <2>1, <2>2, <2>3
<1>16. MarkersFit'
  <2>1. Out' = Out /\ synced' = synced /\ pc' = pc /\ i' = i /\ child' = child
    BY <1>1 DEF Out
  <2>2. ASSUME NEW a \in {"atrace", "battor"}, pc = "starting", Current(a) PROVE Trace!On("record") \in Elems(todo') \/ <<a, "record">> \in held'
    <3>1. a = Trace!a0 /\ (Trace!On("record") \in Elems(todo) \/ <<a, "record">> \in held)
      BY <1>2, <1>3, <2>2 DEF MarkersFit
    <3>2. CASE Trace!On("record") = s
      BY <1>8, <3>1, <3>2, OnAndOff
    <3>3. CASE <<a, "record">> \in held
      BY <1>8, <1>9, <2>2, <3>3
    <3>4. QED
      BY <1>5, <3>1, <3>2, <3>3
  <2>3. ASSUME pc \in {"starting", "capturing", "syncing"} PROVE held \subseteq held'
    BY <1>8, <1>9, <2>3
  <2>4. QED
    BY <1>2, <1>14, <2>1, <2>2, <2>3 DEF MarkersFit
<1>17. QED
  BY <1>1, <1>2, <1>3, <1>11, <1>12, <1>13, <1>15, <1>16 DEF TraceInv, Alive, Trace!List

\* An exception ends the run: it excuses what is due, but for changes that a thread is about to undo.
LEMMA DiesKeeps ==
  ASSUME TraceInv, NEW who, Trace!Dies(who), pc \in {"enable", "starting", "syncing", "stopping", "disable", "getting", "output"},
         pc = "getting" => (\A a : Current(a) => a = who) /\ (who = "controller" => \A a : ~ToGet(a)),
         UNCHANGED <<scene, work, bg, child, succ, synced, results, atexit>>,
         timedOut \subseteq timedOut', \A x \in timedOut' : x \in timedOut \/ x[1] \in Trace!Agents \union {"controller"},
         \A h \in held' : h \in held \/ (pc # "enable" /\ h[1] = who /\ who \in Everyone /\ h \in Trace!Agents \X Trace!Changes)
  PROVE  TraceInv'
<1>1. pc' = "died" /\ raised' = <<who, pc>> /\ i' = 0 /\ todo' = <<>>
  BY DEF Trace!Dies
<1>2. TraceTypes /\ ListsFit /\ HeldFit /\ WorkFits /\ DataFits /\ Trace!TypeOK /\ Out \subseteq Out' /\ Everyone' = Everyone
  BY DEF TraceInv, TraceTypes, Out, Everyone
<1>3. raised = <<"none", "none">>
  BY DEF TraceInv, Alive
<1>4. Trace!TypeOK'
  <2>1. held' \subseteq Trace!Agents \X Trace!Changes
    BY <1>2 DEF Trace!TypeOK
  <2>2. \A x \in timedOut' : x[1] \in Trace!Agents \union {"controller"}
    BY <1>2 DEF Trace!TypeOK
  <2>3. QED
    BY <1>1, <1>2, <2>1, <2>2 DEF Trace!TypeOK
<1>5. TraceTypes'
  <2>1. <<>> \in Seq(Steps)
    OBVIOUS
  <2>2. QED
    BY <1>1, <1>2, <1>4, <2>1 DEF TraceTypes
<1>6. ListsFit'
  BY <1>1, <1>2 DEF ListsFit
<1>7. WorkFits' /\ MarkersFit' /\ DataFits' /\ TodoFits'
  <2>1. WorkFits'
    BY <1>1, <1>2 DEF WorkFits, ToCollect
  <2>2. MarkersFit' /\ DataFits'
    BY <1>1, <1>2 DEF MarkersFit, DataFits
  <2>3. DOMAIN <<>> = {}
    OBVIOUS
  <2>4. TodoFits'
    BY <1>1, <2>3 DEF TodoFits
  <2>5. QED
    BY <2>1, <2>2, <2>4
<1>8. pc = "enable" => held = {} /\ \A a \in Trace!Agents : work[a] = <<>>
  BY DEF TraceInv
<1>9. HeldFit'
  <2>1. SUFFICES ASSUME NEW h \in held' PROVE h[1] \in Everyone /\ (Excused(h)' \/ Due(h)')
    BY <1>2 DEF HeldFit
  <2>2. raised'[1] = who /\ raised'[2] = pc
    BY <1>1
  <2>3. CASE h[1] = who /\ who \in Everyone
    BY <2>2, <2>3 DEF Excused
  <2>4. CASE h \in held
    <3>1. h[1] \in Everyone /\ (Excused(h) \/ Due(h)) /\ pc # "enable"
      BY <1>2, <1>8, <2>4 DEF HeldFit
    <3>2. Excused(h) => Excused(h)'
      BY <1>3, <2>4, ExcusedKept
    <3>3. CASE pc \in {"starting", "syncing", "stopping", "disable"}
      BY <2>2, <3>1, <3>3 DEF Excused
    <3>4. CASE pc = "getting" /\ Due(h)
      <4>1. \A a : Current(a) => a = who
        BY <3>4
      <4>2. ~ToStop(h[1]) /\ ~ToCollect(h[1])
        BY <3>4 DEF ToStop, ToCollect
      <4>3. CASE Current(h[1])
        BY <2>2, <3>1, <4>1, <4>3 DEF Excused
      <4>4. CASE bg[h[1]] = "thread" /\ Trace!Off(h[2]) \in Elems(work[h[1]])
        <5>1. Due(h)'
          BY <4>4 DEF Due
        <5>2. QED
          BY <3>1, <5>1
      <4>5. CASE ToGet(h[1]) /\ Trace!Off(h[2]) \in Elems(Trace!Plan[h[1]]["getting"])
        BY <2>2, <3>1, <3>4, <4>5 DEF Excused
      <4>6. QED
        BY <3>4, <4>2, <4>3, <4>4, <4>5 DEF Due
    <3>5. CASE pc = "output" /\ Due(h)
      <4>1. bg[h[1]] = "thread" /\ Trace!Off(h[2]) \in Elems(work[h[1]])
        BY <3>5 DEF Due, Current, ToStop, ToCollect, ToGet
      <4>2. Due(h)'
        BY <4>1 DEF Due
      <4>3. QED
        BY <3>1, <4>2
    <3>6. QED
      BY <3>1, <3>2, <3>3, <3>4, <3>5
  <2>5. QED
    BY <2>1, <2>3, <2>4
<1>10. raised'[2] = "enable" => held' = {} /\ \A a \in Trace!Agents : work'[a] = <<>>
  BY <1>1, <1>8
<1>11. QED
  BY <1>1, <1>5, <1>6, <1>7, <1>9, <1>10 DEF TraceInv, Alive

\* An agent's call raises.
LEMMA RaisesKeeps == TraceInv /\ Trace!Raises => TraceInv'
<1> SUFFICES ASSUME TraceInv, Trace!Raises PROVE TraceInv'
  OBVIOUS
<1>1. /\ Trace!Running /\ (todo # <<>> \/ Trace!NoContents) /\ Trace!Dies(Trace!a0)
      /\ UNCHANGED <<scene, work, bg, child, succ, synced, results, timedOut, atexit>>
  BY DEF Trace!Raises
<1>2. pc \in {"starting", "syncing", "stopping", "getting"} /\ Trace!a0 \in Trace!Agents /\ Trace!a0 \in Everyone /\ Trace!TypeOK /\ todo \in Seq(Steps) /\ TodoFits
  BY <1>1, CallFacts DEF Listed, TraceInv, TraceTypes
<1>3. \A s : s \in (IF todo = <<>> THEN {} ELSE {Head(todo)}) => (s.do = "on" => s.what \in Trace!Changes)
  <2>1. SUFFICES ASSUME todo # <<>> PROVE Head(todo).do = "on" => Head(todo).what \in Trace!Changes
    OBVIOUS
  <2>2. 1 \in DOMAIN todo /\ Head(todo) = todo[1]
    BY <1>2, <2>1, ListShrinks
  <2>3. Fits(pc, Trace!a0, Head(todo))
    BY <1>2, <2>2 DEF TodoFits
  <2>4. QED
    BY <1>2, <2>3 DEF Fits
<1>4. PICK steps, tidy, h0 :
        /\ steps = (IF todo = <<>> THEN {} ELSE {Head(todo)}) /\ tidy.do # "on"
        /\ h0 \in {held} \union {Trace!Effect(Trace!a0, s, held) : s \in steps} /\ held' = Trace!Effect(Trace!a0, tidy, h0)
  <2>1. Trace!Off("flag").do # "on" /\ Trace!At("none").do # "on"
    BY DEF Trace!Off, Trace!At
  <2>2. QED
    BY <2>1 DEF Trace!Raises
<1>5. \A x \in h0 : x \in held \/ (x[1] = Trace!a0 /\ x \in Trace!Agents \X Trace!Changes)
  <2>1. CASE h0 = held
    BY <2>1
  <2>2. ASSUME NEW s \in steps, h0 = Trace!Effect(Trace!a0, s, held) PROVE \A x \in h0 : x \in held \/ (x[1] = Trace!a0 /\ x \in Trace!Agents \X Trace!Changes)
    <3>1. s.do = "on" => s.what \in Trace!Changes
      BY <1>3, <1>4, <2>2
    <3>2. \A x \in h0 : x \in held \/ (s.do = "on" /\ x = <<Trace!a0, s.what>>)
      BY <2>2, EffectIs
    <3>3. QED
      BY <1>2, <3>1, <3>2
  <2>3. QED
    BY <1>4, <2>1, <2>2
<1>6. \A x \in held' : x \in h0
  BY <1>4, EffectIs
<1>7. (\A a : Current(a) => a = Trace!a0) /\ Trace!a0 # "controller"
  BY <1>1, <1>2, CallFacts DEF Trace!Agents
<1>8. QED
  BY <1>1, <1>2, <1>5, <1>6, <1>7, DiesKeeps

\* The phase goes on to its next agent: what is to come for the others is still to come, or begins.
LEMMA NextAgentFacts ==
  ASSUME TraceInv, Trace!Running, Trace!NextAgent, scene' = scene, pc = "starting" \/ child' = child
  PROVE  /\ TodoFits' /\ todo' \in Seq(Steps) /\ pc' = pc /\ i' = i + 1
         /\ \A a : ToStop(a) => ToStop(a)' \/ (Current(a)' /\ todo' = Trace!Plan[a]["stopping"])
         /\ \A a : a # Trace!a0 \/ pc # "stopping" => (ToCollect(a) => ToCollect(a)')
         /\ \A a : ToCollect(a)' => ToCollect(a)
         /\ \A a : a = Trace!a0 => ~ToCollect(a)' \/ pc \in {"starting", "syncing"}
         /\ \A a : ToGet(a) => ToGet(a)' \/ (Current(a)' /\ todo' = Trace!Plan[a]["getting"])
         /\ \A a : Current(a)' => a # Trace!a0 /\ a \in Rest(Trace!List(pc), i + 1) /\ todo' = Trace!Plan[a][pc]
<1>1. /\ Listed(Trace!List(pc)) /\ pc \in {"starting", "syncing", "stopping", "getting"}
      /\ pc = "starting" => Trace!List(pc) = scene.agents
      /\ pc # "starting" => Trace!List(pc) = child
  BY CallFacts
<1>2. PICK p, l, n : /\ p \in {"starting", "syncing", "stopping", "getting"} /\ l \in Seq(Trace!Agents) /\ n \in 1..Len(l) + 1
                     /\ p = pc /\ l = Trace!List(pc) /\ n = i + 1
  BY <1>1 DEF Listed
<1>3. Trace!List(p)' = l
  BY <1>1, <1>2 DEF Trace!List
<1>4. Trace!TypeOK /\ Trace!Enter(p, l, n)
  BY <1>2 DEF Trace!NextAgent, TraceInv, TraceTypes
<1>5. /\ TodoFits' /\ todo' \in Seq(Steps) /\ pc' = p /\ i' = n
      /\ \A b \in Rest(l, n) : b \in Rest(l, n + 1) \/ (Current(b)' /\ todo' = Trace!Plan[b][p])
      /\ \A b : Current(b)' => b \in Rest(l, n) /\ todo' = Trace!Plan[b][p]
  BY <1>2, <1>3, <1>4, EnterFacts
<1>6. Rest(l, i) = Rest(l, n) \union {Trace!a0} /\ Trace!a0 \notin Rest(l, n)
  BY <1>1, <1>2 DEF Listed
<1>7. \A a : ToStop(a) => ToStop(a)' \/ (Current(a)' /\ todo' = Trace!Plan[a]["stopping"])
  BY <1>1, <1>2, <1>5 DEF ToStop
<1>8. \A a : ToGet(a) => ToGet(a)' \/ (Current(a)' /\ todo' = Trace!Plan[a]["getting"])
  BY <1>1, <1>2, <1>5 DEF ToGet
<1>9. /\ \A a : a # Trace!a0 \/ pc # "stopping" => (ToCollect(a) => ToCollect(a)')
      /\ \A a : ToCollect(a)' => ToCollect(a)
      /\ \A a : a = Trace!a0 => ~ToCollect(a)' \/ pc \in {"starting", "syncing"}
  <2>1. CASE pc \in {"starting", "syncing"}
    BY <1>2, <1>5, <2>1 DEF ToCollect
  <2>2. CASE pc = "stopping"
    <3>1. l = child /\ child' = child /\ pc' = "stopping"
      BY <1>1, <1>2, <1>5, <2>2
    <3>2. \A a : (ToCollect(a) <=> a \in Rest(l, i)) /\ (ToCollect(a)' <=> a \in Rest(l, n))
      BY <1>5, <2>2, <3>1 DEF ToCollect
    <3>3. QED
      BY <1>6, <2>2, <3>2
  <2>3. CASE pc = "getting"
    BY <1>2, <1>5, <2>3 DEF ToCollect
  <2>4. QED
    BY <1>1, <2>1, <2>2, <2>3
<1>10. \A a : Current(a)' => a # Trace!a0 /\ a \in Rest(Trace!List(pc), i + 1) /\ todo' = Trace!Plan[a][pc]
  BY <1>2, <1>5, <1>6
<1>11. QED
  BY <1>2, <1>5, <1>7, <1>8, <1>9, <1>10

\* What is due of the other agents, or of all if the call had nothing left to do, is still due.
LEMMA DueKept ==
  ASSUME TraceInv, Trace!Running, Trace!NextAgent, scene' = scene, pc = "starting" \/ child' = child, NEW h, Due(h),
         h[1] # Trace!a0 \/ (todo = <<>> /\ (pc = "stopping" => Trace!Off(h[2]) \notin Elems(Trace!Plan[Trace!a0]["thread"]))),
         bg[h[1]] = "thread" => bg'[h[1]] = "thread" /\ work'[h[1]] = work[h[1]]
  PROVE  Due(h)'
<1>1. \A a : Current(a) <=> a = Trace!a0
  BY CallFacts
<1>2. ~(Current(h[1]) /\ Trace!Off(h[2]) \in Elems(todo))
  BY <1>1, NoElems
<1>3. CASE ToStop(h[1]) /\ Trace!Off(h[2]) \in Elems(Trace!Plan[h[1]]["stopping"])
  BY <1>3, NextAgentFacts DEF Due
<1>4. CASE ToCollect(h[1]) /\ Trace!Off(h[2]) \in Elems(Trace!Plan[h[1]]["thread"])
  <2>1. h[1] # Trace!a0 \/ pc # "stopping"
    BY <1>4
  <2>2. ToCollect(h[1])'
    BY <1>4, <2>1, NextAgentFacts
  <2>3. QED
    BY <1>4, <2>2 DEF Due
<1>5. CASE bg[h[1]] = "thread" /\ Trace!Off(h[2]) \in Elems(work[h[1]])
  BY <1>5 DEF Due
<1>6. CASE ToGet(h[1]) /\ Trace!Off(h[2]) \in Elems(Trace!Plan[h[1]]["getting"])
  BY <1>6, NextAgentFacts DEF Due
<1>7. QED
  BY <1>2, <1>3, <1>4, <1>5, <1>6 DEF Due

\* The agents of the results, with a result more.
LEMMA OfGrows ==
  ASSUME NEW s \in Seq(Found), NEW r \in Found
  PROVE  /\ Of(s) \in Seq(Trace!Agents \union {"controller"}) /\ Append(s, r) \in Seq(Found) /\ Of(Append(s, r)) = Append(Of(s), r.agent)
         /\ Len(Of(s)) = Len(s) /\ Len(Append(s, r)) = Len(s) + 1 /\ Len(s) \in Nat
         /\ Append(s, r)[Len(s) + 1] = r /\ \A q \in DOMAIN s : Append(s, r)[q] = s[q]
         /\ DOMAIN s = 1..Len(s) /\ DOMAIN Append(s, r) = 1..Len(s) + 1
<1>1. DOMAIN s = 1..Len(s) /\ Len(s) \in Nat /\ \A q \in 1..Len(s) : s[q] \in Found
  OBVIOUS
<1>2. r.agent \in Trace!Agents \union {"controller"} /\ \A q \in 1..Len(s) : s[q].agent \in Trace!Agents \union {"controller"}
  BY <1>1 DEF Found
<1>3. Of(s) = [q \in 1..Len(s) |-> s[q].agent]
  BY <1>1 DEF Of
<1>4. Of(s) \in Seq(Trace!Agents \union {"controller"}) /\ Len(Of(s)) = Len(s)
  BY <1>1, <1>2, <1>3
<1>5. /\ Append(s, r) \in Seq(Found) /\ Len(Append(s, r)) = Len(s) + 1 /\ Append(s, r)[Len(s) + 1] = r
      /\ DOMAIN Append(s, r) = 1..Len(s) + 1 /\ \A q \in DOMAIN s : Append(s, r)[q] = s[q]
  OBVIOUS
<1>6. Of(Append(s, r)) = [q \in 1..Len(s) + 1 |-> Append(s, r)[q].agent]
  BY <1>5 DEF Of
<1>7. Append(Of(s), r.agent) = [q \in 1..Len(s) + 1 |-> IF q <= Len(s) THEN Of(s)[q] ELSE r.agent]
  BY <1>1, <1>2, <1>4
<1>8. \A q \in 1..Len(s) + 1 : Append(s, r)[q].agent = IF q <= Len(s) THEN Of(s)[q] ELSE r.agent
  <2>1. \A q \in 1..Len(s) : Append(s, r)[q] = s[q] /\ Of(s)[q] = s[q].agent
    BY <1>1, <1>3, <1>5
  <2>2. \A q \in 1..Len(s) + 1 : q \in 1..Len(s) \/ (q = Len(s) + 1 /\ ~(q <= Len(s)))
    BY <1>1
  <2>3. QED
    BY <1>5, <2>1, <2>2
<1>9. Of(Append(s, r)) = Append(Of(s), r.agent)
  BY <1>6, <1>7, <1>8
<1>10. QED
  BY <1>1, <1>4, <1>5, <1>9

\* The agent that was called is the last of those handled; one that timed out is not among them.
LEMMA HandledGrows ==
  ASSUME NEW l, Listed(l), NEW done, NEW T, done \in Seq(T), Trace!a0 \in T, Handled(scene.agents, l, i, done, Out)
  PROVE  /\ Handled(scene.agents, l, i + 1, Append(done, Trace!a0), Out)
         /\ Handled(scene.agents, l, i + 1, done, Out \union {Trace!a0})
<1>1. /\ First(l, i + 1) = First(l, i) \union {Trace!a0} /\ Rest(l, i) = Rest(l, i + 1) \union {Trace!a0} /\ Trace!a0 \notin Out
      /\ Trace!a0 \notin First(l, i) /\ Trace!a0 \notin Rest(l, i + 1) /\ \A b \in First(l, i) : Precedes(scene.agents, b, Trace!a0)
  BY DEF Listed
<1>2. KeepsOrder(scene.agents, done) /\ Elems(done) = First(l, i) \ Out /\ Rest(l, i) \intersect Out = {}
  BY DEF Handled
<1>3. Elems(Append(done, Trace!a0)) = Elems(done) \union {Trace!a0}
  BY ListGrows
<1>4. KeepsOrder(scene.agents, Append(done, Trace!a0))
  <2>1. \A b \in Elems(done) : Precedes(scene.agents, b, Trace!a0)
    BY <1>1, <1>2
  <2>2. QED
    BY <1>2, <2>1, OrderGrows
<1>5. QED
  BY <1>1, <1>2, <1>3, <1>4 DEF Handled

\* A call that returns: the lists.
LEMMA ReturnsLists == TraceInv /\ Trace!Returns => ListsFit' /\ Everyone' = Everyone /\ Out' = Out
<1> SUFFICES ASSUME TraceInv, Trace!Returns PROVE ListsFit' /\ Everyone' = Everyone /\ Out' = Out
  OBVIOUS
<1>1. /\ Trace!Running /\ Trace!NextAgent /\ scene' = scene /\ timedOut' = timedOut
      /\ child' = (IF pc = "starting" THEN Append(child, Trace!a0) ELSE child)
      /\ succ' = (IF pc = "stopping" THEN Append(succ, Trace!a0) ELSE succ)
      /\ results' = (IF pc = "getting" THEN Append(results, [agent |-> Trace!a0, data |-> Trace!Data(Trace!a0)]) ELSE results)
  BY DEF Trace!Returns
<1>2. /\ Listed(Trace!List(pc)) /\ pc \in {"starting", "syncing", "stopping", "getting"}
      /\ pc = "starting" => Trace!List(pc) = scene.agents
      /\ pc # "starting" => Trace!List(pc) = child
  BY <1>1, CallFacts
<1>3. pc' = pc /\ i' = i + 1
  BY DEF Trace!NextAgent, Trace!Enter, Trace!Returns
<1>4. Everyone' = Everyone /\ Out' = Out
  BY <1>1 DEF Everyone, Out
<1>5. ListsFit /\ child \in Seq(Trace!Agents) /\ succ \in Seq(Trace!Agents) /\ results \in Seq(Found) /\ Trace!a0 \in Trace!Agents /\ Trace!a0 \in Everyone
  BY <1>2 DEF TraceInv, TraceTypes, Listed
<1>6. CASE pc = "starting"
  <2>1. Handled(scene.agents, scene.agents, i + 1, Append(child, Trace!a0), Out)
    BY <1>2, <1>5, <1>6, HandledGrows DEF ListsFit
  <2>2. Elems(Append(child, Trace!a0)) = Elems(child) \union {Trace!a0}
    BY <1>5, ListGrows
  <2>3. KeepsOrder(scene.agents, Append(child, Trace!a0))
    BY <2>1 DEF Handled
  <2>4. QED
    BY <1>1, <1>3, <1>4, <1>5, <1>6, <2>1, <2>2, <2>3 DEF ListsFit
<1>7. CASE pc = "syncing"
  BY <1>1, <1>3, <1>4, <1>5, <1>7 DEF ListsFit
<1>8. CASE pc = "stopping"
  <2>1. Handled(scene.agents, child, i + 1, Append(succ, Trace!a0), Out)
    BY <1>2, <1>5, <1>8, HandledGrows DEF ListsFit
  <2>2. KeepsOrder(scene.agents, Append(succ, Trace!a0))
    BY <2>1 DEF Handled
  <2>3. QED
    BY <1>1, <1>3, <1>4, <1>5, <1>8, <2>1, <2>2 DEF ListsFit
<1>9. CASE pc = "getting"
  <2>1. Trace!Data(Trace!a0) \in {"nothing", "whole"}
    BY DEF Trace!Data
  <2>2. PICK r : r = [agent |-> Trace!a0, data |-> Trace!Data(Trace!a0)]
    OBVIOUS
  <2>3. r \in Found /\ r.agent = Trace!a0
    BY <1>5, <2>1, <2>2 DEF Found
  <2>4. Of(results) \in Seq(Trace!Agents \union {"controller"}) /\ Of(results') = Append(Of(results), Trace!a0)
    BY <1>1, <1>5, <1>9, <2>2, <2>3, OfGrows
  <2>5. Handled(scene.agents, child, i, Of(results), Out) /\ Trace!List(pc) = child
    BY <1>2, <1>5, <1>9 DEF ListsFit
  <2>6. Handled(scene.agents, child, i + 1, Append(Of(results), Trace!a0), Out)
    BY <1>2, <1>5, <2>4, <2>5, HandledGrows
  <2>7. QED
    BY <1>1, <1>3, <1>4, <1>5, <1>9, <2>4, <2>6 DEF ListsFit
<1>10. QED
  BY <1>2, <1>4, <1>6, <1>7, <1>8, <1>9

\* The call of an agent returns, and its successor is called; after its stop a thread collects.
LEMMA ReturnsKeeps == TraceInv /\ Trace!Returns => TraceInv'
<1> SUFFICES ASSUME TraceInv, Trace!Returns PROVE TraceInv'
  OBVIOUS
<1>1. /\ Trace!Running /\ todo = <<>> /\ (pc = "getting" => bg[Trace!a0] # "thread") /\ Trace!NextAgent
      /\ child' = (IF pc = "starting" THEN Append(child, Trace!a0) ELSE child)
      /\ succ' = (IF pc = "stopping" THEN Append(succ, Trace!a0) ELSE succ)
      /\ synced' = (IF pc = "syncing" /\ Trace!a0 \in Trace!SyncAgents THEN synced \union {Trace!a0} ELSE synced)
      /\ results' = (IF pc = "getting" THEN Append(results, [agent |-> Trace!a0, data |-> Trace!Data(Trace!a0)]) ELSE results)
      /\ UNCHANGED <<scene, held, timedOut, raised, atexit>>
  BY DEF Trace!Returns, Trace!MayReturn
<1>2. /\ pc = "stopping" /\ Trace!a0 \in Trace!ThreadAgents => work' = [work EXCEPT ![Trace!a0] = Trace!Plan[Trace!a0]["thread"]] /\ bg' = [bg EXCEPT ![Trace!a0] = "thread"]
      /\ ~(pc = "stopping" /\ Trace!a0 \in Trace!ThreadAgents) => work' = work /\ bg' = bg
  BY DEF Trace!Returns
<1>3. /\ Listed(Trace!List(pc)) /\ pc \in {"starting", "syncing", "stopping", "getting"} /\ raised = <<"none", "none">>
      /\ pc = "starting" => Trace!List(pc) = scene.agents
      /\ pc # "starting" => Trace!List(pc) = child
  BY <1>1, CallFacts
<1>4. TraceTypes /\ Trace!TypeOK /\ ListsFit /\ HeldFit /\ WorkFits /\ MarkersFit /\ DataFits
  BY DEF TraceInv, TraceTypes
<1>5. /\ TodoFits' /\ todo' \in Seq(Steps) /\ pc' = pc /\ i' = i + 1
      /\ \A a : ToCollect(a)' => ToCollect(a)
      /\ \A a : a = Trace!a0 => ~ToCollect(a)' \/ pc \in {"starting", "syncing"}
      /\ \A a : Current(a)' => a # Trace!a0 /\ a \in Rest(Trace!List(pc), i + 1) /\ todo' = Trace!Plan[a][pc]
  BY <1>1, NextAgentFacts
<1>6. ListsFit' /\ Everyone' = Everyone /\ Out' = Out
  BY ReturnsLists
<1>7. Trace!a0 \in Trace!Agents /\ Trace!a0 \in Everyone /\ Trace!a0 \notin Out /\ i + 1 \in 1..Len(Trace!List(pc)) + 1
  BY <1>3 DEF Listed
<1>8. Trace!Plan[Trace!a0]["thread"] \in Seq(Steps) /\ \A q \in DOMAIN Trace!Plan[Trace!a0]["thread"] : Trace!Plan[Trace!a0]["thread"][q].do # "on"
  BY <1>7, PlanIs DEF Fits
<1>9. pc = "stopping" => bg[Trace!a0] \notin {"thread", "failed", "done"}
  <2>1. pc = "stopping" => ToCollect(Trace!a0)
    BY <1>3 DEF Listed, ToCollect
  <2>2. QED
    BY <1>4, <1>7, <2>1 DEF WorkFits
<1>10. /\ work \in [Trace!Agents -> Seq(Steps)] /\ bg \in [Trace!Agents -> {"none", "late", "thread", "failed", "done"}]
       /\ \A a \in Trace!Agents : a # Trace!a0 => work'[a] = work[a] /\ bg'[a] = bg[a]
       /\ ~(pc = "stopping" /\ Trace!a0 \in Trace!ThreadAgents) => work' = work /\ bg' = bg
       /\ \A a : a = Trace!a0 /\ pc = "stopping" /\ Trace!a0 \in Trace!ThreadAgents => work'[a] = Trace!Plan[Trace!a0]["thread"] /\ bg'[a] = "thread"
       /\ work' \in [Trace!Agents -> Seq(Steps)] /\ bg' \in [Trace!Agents -> {"none", "late", "thread", "failed", "done"}]
  <2>1. work \in [Trace!Agents -> Seq(Steps)] /\ bg \in [Trace!Agents -> {"none", "late", "thread", "failed", "done"}]
    BY <1>4 DEF TraceTypes, Trace!TypeOK
  <2>2. CASE pc = "stopping" /\ Trace!a0 \in Trace!ThreadAgents
    BY <1>2, <1>7, <1>8, <2>1, <2>2
  <2>3. CASE ~(pc = "stopping" /\ Trace!a0 \in Trace!ThreadAgents)
    BY <1>2, <2>1, <2>3
  <2>4. QED
    BY <2>2, <2>3
<1>11. child' \in Seq(Trace!Agents) /\ succ' \in Seq(Trace!Agents) /\ synced' \subseteq Trace!SyncAgents
  <2>1. child \in Seq(Trace!Agents) /\ succ \in Seq(Trace!Agents) /\ synced \subseteq Trace!SyncAgents
    BY <1>4 DEF TraceTypes, Trace!TypeOK
  <2>2. QED
    BY <1>1, <1>7, <2>1, ListGrows
<1>12. /\ results' \in Seq(Found)
       /\ \A q \in DOMAIN results' : \/ q \in DOMAIN results /\ results'[q] = results[q]
                                     \/ pc = "getting" /\ results'[q] = [agent |-> Trace!a0, data |-> Trace!Data(Trace!a0)]
  <2>1. results \in Seq(Found)
    BY <1>4 DEF TraceTypes
  <2>2. CASE pc = "getting"
    <3>1. Trace!Data(Trace!a0) \in {"nothing", "whole"}
      BY DEF Trace!Data
    <3>2. PICK r : r = [agent |-> Trace!a0, data |-> Trace!Data(Trace!a0)]
      OBVIOUS
    <3>3. r \in Found
      BY <1>7, <3>1, <3>2 DEF Found
    <3>4. results' = Append(results, r)
      BY <1>1, <2>2, <3>2
    <3>5. /\ results' \in Seq(Found) /\ Len(results) \in Nat /\ results'[Len(results) + 1] = r
          /\ \A q \in DOMAIN results : results'[q] = results[q]
          /\ DOMAIN results = 1..Len(results) /\ DOMAIN results' = 1..Len(results) + 1
      BY <2>1, <3>3, <3>4, OfGrows
    <3>6. \A q \in DOMAIN results' : q \in DOMAIN results \/ q = Len(results) + 1
      BY <3>5
    <3>7. QED
      BY <2>2, <3>2, <3>5, <3>6
  <2>3. CASE pc # "getting"
    BY <1>1, <2>1, <2>3
  <2>4. QED
    BY <2>2, <2>3
<1>13. TraceTypes'
  <2>1. \A q \in DOMAIN results' : results'[q].agent \in Trace!Agents \union {"controller"}
    BY <1>4, <1>7, <1>12 DEF Trace!TypeOK
  <2>2. Trace!TypeOK'
    BY <1>1, <1>3, <1>4, <1>5, <1>7, <1>10, <1>11, <2>1 DEF Trace!TypeOK
  <2>3. ASSUME NEW a \in Trace!Agents, NEW q \in DOMAIN work'[a], work'[a][q].do = "on" PROVE work'[a][q].what \in Trace!Changes
    <3>1. work'[a] = work[a]
      BY <1>8, <1>10, <2>3
    <3>2. QED
      BY <1>4, <2>3, <3>1 DEF TraceTypes
  <2>4. QED
    BY <1>5, <1>10, <1>11, <1>12, <2>2, <2>3 DEF TraceTypes
<1>14. HeldFit'
  <2>1. SUFFICES ASSUME NEW h \in held PROVE h[1] \in Everyone /\ (Excused(h)' \/ Due(h)')
    BY <1>1, <1>6 DEF HeldFit
  <2>2. h[1] \in Everyone /\ h[1] \in Trace!Agents /\ (Excused(h) \/ Due(h))
    BY <1>4 DEF HeldFit, Trace!TypeOK
  <2>3. Excused(h) => Excused(h)'
    <3>1. bg[h[1]] = "failed" => bg'[h[1]] = "failed"
      BY <1>9, <1>10, <2>2
    <3>2. QED
      BY <1>1, <3>1, ExcusedKept
  <2>4. ASSUME Due(h) PROVE Due(h)'
    <3>1. bg[h[1]] = "thread" => bg'[h[1]] = "thread" /\ work'[h[1]] = work[h[1]]
      BY <1>9, <1>10, <2>2
    <3>2. CASE h[1] = Trace!a0 /\ pc = "stopping" /\ Trace!Off(h[2]) \in Elems(Trace!Plan[Trace!a0]["thread"])
      <4>1. Trace!a0 \in Trace!ThreadAgents
        BY <1>7, <3>2, NoThread
      <4>2. bg'[h[1]] = "thread" /\ work'[h[1]] = Trace!Plan[Trace!a0]["thread"]
        BY <1>10, <3>2, <4>1
      <4>3. QED
        BY <3>2, <4>2 DEF Due
    <3>3. CASE ~(h[1] = Trace!a0 /\ pc = "stopping" /\ Trace!Off(h[2]) \in Elems(Trace!Plan[Trace!a0]["thread"]))
      BY <1>1, <2>4, <3>1, <3>3, DueKept
    <3>4. QED
      BY <3>2, <3>3
  <2>5. QED
    BY <2>2, <2>3, <2>4
<1>15. WorkFits'
  <2>1. SUFFICES ASSUME NEW a \in Trace!Agents
                 PROVE  /\ work'[a] # <<>> => a \in Everyone /\ bg'[a] \in {"late", "thread"}
                        /\ bg'[a] = "late" => a \in Out
                        /\ bg'[a] \in {"thread", "failed", "done"} => ~ToCollect(a)'
                        /\ bg'[a] = "thread" => \A q \in DOMAIN work'[a] : work'[a][q].do # "on"
    BY <1>6 DEF WorkFits
  <2>2. CASE a = Trace!a0 /\ pc = "stopping" /\ Trace!a0 \in Trace!ThreadAgents
    BY <1>5, <1>7, <1>8, <1>10, <2>2
  <2>3. CASE ~(a = Trace!a0 /\ pc = "stopping" /\ Trace!a0 \in Trace!ThreadAgents)
    <3>1. work'[a] = work[a] /\ bg'[a] = bg[a]
      BY <1>10, <2>3
    <3>2. QED
      BY <1>4, <1>5, <3>1 DEF WorkFits
  <2>4. QED
    BY <2>2, <2>3
<1>16. MarkersFit'
  <2>1. ASSUME NEW a \in {"atrace", "battor"}, pc = "starting", Current(a)' PROVE Trace!On("record") \in Elems(todo')
    BY <1>5, <2>1, Records
  <2>2. ASSUME NEW a \in {"atrace", "battor"}, pc \in {"starting", "capturing", "syncing"}, a \in Elems(child') PROVE <<a, "record">> \in held
    <3>1. CASE a \in Elems(child)
      BY <1>4, <2>2, <3>1 DEF MarkersFit
    <3>2. CASE a \notin Elems(child)
      <4>1. pc = "starting" /\ child \in Seq(Trace!Agents) /\ child' = Append(child, Trace!a0)
        BY <1>1, <1>4, <2>2, <3>2 DEF TraceTypes
      <4>2. a = Trace!a0
        BY <1>7, <2>2, <3>2, <4>1, ListGrows
      <4>3. Current(a)
        BY <1>1, <4>2, CallFacts
      <4>4. QED
        BY <1>1, <1>4, <4>1, <4>3, NoElems DEF MarkersFit
    <3>3. QED
      BY <3>1, <3>2
  <2>3. ASSUME pc = "syncing" PROVE First(child, i + 1) \intersect Trace!SyncAgents \subseteq synced'
    <3>1. First(child, i + 1) = First(child, i) \union {Trace!a0}
      BY <1>3, <2>3 DEF Listed
    <3>2. First(child, i) \intersect Trace!SyncAgents \subseteq synced
      BY <1>4, <2>3 DEF MarkersFit
    <3>3. QED
      BY <1>1, <2>3, <3>1, <3>2
  <2>4. ASSUME pc \in {"stopping", "getting"} PROVE Elems(child) \intersect Trace!SyncAgents \subseteq synced' /\ child' = child
    BY <1>1, <1>4, <2>4 DEF MarkersFit
  <2>5. pc = "syncing" => child' = child
    BY <1>1
  <2>6. QED
    BY <1>1, <1>3, <1>5, <2>1, <2>2, <2>3, <2>4, <2>5 DEF MarkersFit
<1>17. DataFits'
  <2>1. SUFFICES ASSUME NEW q \in DOMAIN results', results'[q].data = "nothing" PROVE results'[q].agent \in Trace!Agents /\ bg'[results'[q].agent] = "failed"
    BY DEF DataFits
  <2>2. CASE pc = "getting"
    <3>1. bg' = bg
      BY <1>10, <2>2
    <3>2. CASE results'[q] = [agent |-> Trace!a0, data |-> Trace!Data(Trace!a0)]
      BY <1>1, <1>7, <2>1, <2>2, <3>1, <3>2 DEF Trace!Data
    <3>3. CASE q \in DOMAIN results /\ results'[q] = results[q]
      BY <1>4, <2>1, <3>1, <3>3 DEF DataFits
    <3>4. QED
      BY <1>12, <3>2, <3>3
  <2>3. CASE pc # "getting"
    <3>1. results = <<>> /\ results' = <<>>
      BY <1>1, <1>3, <1>4, <2>3 DEF ListsFit
    <3>2. QED
      BY <2>1, <3>1
  <2>4. QED
    BY <2>2, <2>3
<1>18. QED
  <2>1. i' \in 1..Len(Trace!List(pc)') + 1
    <3>1. CASE pc = "starting"
      BY <1>1, <1>3, <1>5, <1>7, <3>1 DEF Trace!List
    <3>2. CASE pc # "starting"
      BY <1>1, <1>3, <1>5, <1>7, <3>2 DEF Trace!List
    <3>3. QED
      BY <3>1, <3>2
  <2>2. QED
    BY <1>1, <1>3, <1>5, <1>6, <1>13, <1>14, <1>15, <1>16, <1>17, <2>1 DEF TraceInv, Alive

\* What an agent that was given up leaves behind are the first of its steps.
LEMMA LateIs ==
  ASSUME NEW a, todo \in Seq(Steps)
  PROVE  /\ Trace!Late(a) \in Seq(Steps) /\ \A q \in DOMAIN Trace!Late(a) : q \in DOMAIN todo /\ Trace!Late(a)[q] = todo[q]
<1> DEFINE S == {q \in 0..Len(todo) : q = Len(todo) \/ ~Trace!OnHost(a, todo[q + 1])}
           P(q) == (\A j \in 1..q : Trace!OnHost(a, todo[j])) /\ (q = Len(todo) \/ ~Trace!OnHost(a, todo[q + 1]))
<1>1. Len(todo) \in Nat /\ DOMAIN todo = 1..Len(todo)
  OBVIOUS
<1>2. S \subseteq Nat /\ Len(todo) \in S
  BY <1>1
<1>3. \A q : q \in S <=> q \in 0..Len(todo) /\ (q = Len(todo) \/ ~Trace!OnHost(a, todo[q + 1]))
  OBVIOUS
<1> HIDE DEF S
<1>4. PICK n \in S : \A m \in S : n <= m
  BY <1>2, LeastOf
<1>5. n \in 0..Len(todo) /\ P(n)
  <2>1. n \in 0..Len(todo) /\ (n = Len(todo) \/ ~Trace!OnHost(a, todo[n + 1]))
    BY <1>3, <1>4
  <2>2. ASSUME NEW j \in 1..n PROVE Trace!OnHost(a, todo[j])
    <3>1. j - 1 \in 0..Len(todo) /\ j - 1 # Len(todo) /\ j - 1 + 1 = j /\ ~(n <= j - 1)
      <4>1. ASSUME NEW m \in Nat, NEW q \in 0..m, NEW x \in 1..q PROVE x - 1 \in 0..m /\ x - 1 # m /\ x - 1 + 1 = x /\ ~(q <= x - 1)
        OBVIOUS
      <4>2. QED
        BY <1>1, <2>1, <4>1
    <3>2. j - 1 \notin S
      BY <1>4, <3>1
    <3>3. QED
      BY <1>3, <3>1, <3>2
  <2>3. QED
    BY <2>1, <2>2
<1>6. PICK c : c = CHOOSE q \in 0..Len(todo) : P(q)
  OBVIOUS
<1>7. c \in 0..Len(todo)
  BY <1>5, <1>6
<1>8. Trace!Late(a) = SubSeq(todo, 1, c)
  BY <1>6 DEF Trace!Late
<1>9. /\ SubSeq(todo, 1, c) \in Seq(Steps) /\ Len(SubSeq(todo, 1, c)) = c
      /\ \A q \in 1..c : SubSeq(todo, 1, c)[q] = todo[q]
  <2>1. SubSeq(todo, 1, c) = [q \in 1..c |-> todo[q]]
    BY <1>1, <1>7
  <2>2. \A q \in 1..c : todo[q] \in Steps
    BY <1>1, <1>7
  <2>3. QED
    BY <1>7, <2>1, <2>2
<1>10. DOMAIN SubSeq(todo, 1, c) = 1..c
  BY <1>7, <1>9
<1>11. QED
  BY <1>1, <1>7, <1>8, <1>9, <1>10

\* What a step of the call may have changed before the call was given up.
LEMMA TimesOutHolds ==
  ASSUME TraceInv, Trace!TimesOut
  PROVE  /\ \A x \in held' : x \in held \/ (x[1] = Trace!a0 /\ x \in Trace!Agents \X Trace!Changes)
         /\ pc = "starting" => held \subseteq held'
<1>1. /\ Trace!Running
      /\ held' \in {held} \union {Trace!Effect(Trace!a0, s, held) : s \in IF todo = <<>> THEN {} ELSE {Head(todo)}}
  BY DEF Trace!TimesOut
<1>2. pc \in {"starting", "syncing", "stopping", "getting"} /\ Trace!a0 \in Trace!Agents /\ todo \in Seq(Steps) /\ TodoFits
  BY <1>1, CallFacts DEF Listed, TraceInv, TraceTypes
<1>3. CASE held' = held
  BY <1>3
<1>4. CASE todo # <<>> /\ held' = Trace!Effect(Trace!a0, Head(todo), held)
  <2>1. 1 \in DOMAIN todo /\ Head(todo) = todo[1]
    BY <1>2, <1>4, ListShrinks
  <2>2. Fits(pc, Trace!a0, Head(todo))
    BY <1>2, <2>1 DEF TodoFits
  <2>3. PICK s : s = Head(todo)
    OBVIOUS
  <2>4. (s.do = "on" => s.what \in Trace!Changes) /\ (pc = "starting" => s.do # "off")
    BY <1>2, <2>2, <2>3 DEF Fits
  <2>5. /\ \A x \in held' : x \in held \/ (s.do = "on" /\ x = <<Trace!a0, s.what>>)
        /\ \A x \in held : x \in held' \/ (s.do = "off" /\ x = <<Trace!a0, s.what>>)
    BY <1>4, <2>3, EffectIs
  <2>6. QED
    BY <1>2, <2>4, <2>5
<1>5. QED
  BY <1>1, <1>3, <1>4

\* A call that is given up: its agent is not among those handled.
LEMMA TimesOutLists == TraceInv /\ Trace!TimesOut => ListsFit' /\ Everyone' = Everyone /\ Out' = Out \union {Trace!a0}
<1> SUFFICES ASSUME TraceInv, Trace!TimesOut PROVE ListsFit' /\ Everyone' = Everyone /\ Out' = Out \union {Trace!a0}
  OBVIOUS
<1>1. /\ Trace!Running /\ Trace!NextAgent /\ pc # "syncing" /\ UNCHANGED <<scene, child, succ, results>>
      /\ timedOut' = timedOut \union {<<Trace!a0, pc>>}
  BY DEF Trace!TimesOut, Trace!Gives
<1>2. /\ Listed(Trace!List(pc)) /\ pc \in {"starting", "stopping", "getting"}
      /\ pc = "starting" => Trace!List(pc) = scene.agents
      /\ pc # "starting" => Trace!List(pc) = child
  BY <1>1, CallFacts
<1>3. pc' = pc /\ i' = i + 1
  BY <1>1 DEF Trace!NextAgent, Trace!Enter
<1>4. Everyone' = Everyone /\ Out' = Out \union {Trace!a0}
  <2>1. Everyone' = Everyone
    BY <1>1 DEF Everyone
  <2>2. PICK x : x = <<Trace!a0, pc>>
    OBVIOUS
  <2>3. timedOut' = timedOut \union {x} /\ x[1] = Trace!a0
    BY <1>1, <2>2
  <2>4. Out' = Out \union {Trace!a0}
    BY <2>3 DEF Out
  <2>5. QED
    BY <2>1, <2>4
<1>5. ListsFit /\ child \in Seq(Trace!Agents) /\ succ \in Seq(Trace!Agents) /\ results \in Seq(Found) /\ Trace!a0 \in Trace!Agents
  BY <1>2 DEF TraceInv, TraceTypes, Listed
<1>6. CASE pc = "starting"
  <2>1. Handled(scene.agents, scene.agents, i + 1, child, Out \union {Trace!a0})
    BY <1>2, <1>5, <1>6, HandledGrows DEF ListsFit
  <2>2. QED
    BY <1>1, <1>3, <1>4, <1>5, <1>6, <2>1 DEF ListsFit
<1>7. CASE pc = "stopping"
  <2>1. Handled(scene.agents, child, i + 1, succ, Out \union {Trace!a0})
    BY <1>2, <1>5, <1>7, HandledGrows DEF ListsFit
  <2>2. QED
    BY <1>1, <1>3, <1>4, <1>5, <1>7, <2>1 DEF ListsFit
<1>8. CASE pc = "getting"
  <2>1. \A q \in DOMAIN results : results[q].agent \in Trace!Agents \union {"controller"}
    BY DEF TraceInv, TraceTypes, Trace!TypeOK
  <2>2. DOMAIN results = 1..Len(results) /\ Len(results) \in Nat
    BY <1>5
  <2>3. Of(results) \in Seq(Trace!Agents \union {"controller"})
    BY <2>1, <2>2 DEF Of
  <2>4. Handled(scene.agents, child, i, Of(results), Out) /\ Listed(child)
    BY <1>2, <1>5, <1>8 DEF ListsFit
  <2>5. Handled(scene.agents, child, i + 1, Of(results), Out \union {Trace!a0})
    BY <1>5, <2>3, <2>4, HandledGrows
  <2>6. Of(results)' = Of(results)
    BY <1>1 DEF Of
  <2>7. QED
    BY <1>1, <1>3, <1>4, <1>5, <1>8, <2>5, <2>6 DEF ListsFit
<1>9. QED
  BY <1>2, <1>6, <1>7, <1>8

\* A call is given up, and what remains of it goes on in the background.
LEMMA TimesOutKeeps == TraceInv /\ Trace!TimesOut => TraceInv'
<1> SUFFICES ASSUME TraceInv, Trace!TimesOut PROVE TraceInv'
  OBVIOUS
<1>1. /\ Trace!Running /\ Trace!NextAgent /\ pc # "syncing" /\ UNCHANGED <<scene, child, succ, synced, results, raised, atexit>>
      /\ timedOut' = timedOut \union {<<Trace!a0, pc>>}
      /\ bg[Trace!a0] = "thread" => UNCHANGED <<work, bg>>
      /\ bg[Trace!a0] # "thread" => work' = [work EXCEPT ![Trace!a0] = Trace!Late(Trace!a0)] /\ bg' = [bg EXCEPT ![Trace!a0] = "late"]
  BY DEF Trace!TimesOut, Trace!Gives
<1>2. /\ Listed(Trace!List(pc)) /\ pc \in {"starting", "stopping", "getting"} /\ raised = <<"none", "none">>
      /\ pc = "starting" => Trace!List(pc) = scene.agents
      /\ pc # "starting" => Trace!List(pc) = child
  BY <1>1, CallFacts
<1>3. TraceTypes /\ Trace!TypeOK /\ ListsFit /\ HeldFit /\ WorkFits /\ MarkersFit /\ DataFits /\ TodoFits
  BY DEF TraceInv, TraceTypes
<1>4. /\ TodoFits' /\ todo' \in Seq(Steps) /\ pc' = pc /\ i' = i + 1
      /\ \A a : ToCollect(a)' => ToCollect(a)
      /\ \A a : Current(a)' => a # Trace!a0 /\ a \in Rest(Trace!List(pc), i + 1) /\ todo' = Trace!Plan[a][pc]
  BY <1>1, NextAgentFacts
<1>5. ListsFit' /\ Everyone' = Everyone /\ Out' = Out \union {Trace!a0}
  BY TimesOutLists
<1>6. Trace!a0 \in Trace!Agents /\ Trace!a0 \in Everyone /\ Trace!a0 \notin Out /\ i + 1 \in 1..Len(Trace!List(pc)) + 1
  BY <1>2 DEF Listed
<1>7. /\ \A x \in held' : x \in held \/ (x[1] = Trace!a0 /\ x \in Trace!Agents \X Trace!Changes)
      /\ pc = "starting" => held \subseteq held'
  BY TimesOutHolds
<1>8. Trace!Late(Trace!a0) \in Seq(Steps) /\ \A q \in DOMAIN Trace!Late(Trace!a0) : Trace!Late(Trace!a0)[q].do = "on" => Trace!Late(Trace!a0)[q].what \in Trace!Changes
  <2>1. todo \in Seq(Steps)
    BY <1>3 DEF TraceTypes
  <2>2. Trace!Late(Trace!a0) \in Seq(Steps) /\ \A q \in DOMAIN Trace!Late(Trace!a0) : q \in DOMAIN todo /\ Trace!Late(Trace!a0)[q] = todo[q]
    BY <2>1, LateIs
  <2>3. \A q \in DOMAIN todo : todo[q].do = "on" => todo[q].what \in Trace!Changes
    BY <1>2, <1>3 DEF TodoFits, Fits
  <2>4. QED
    BY <2>2, <2>3
<1>9. /\ \A a \in Trace!Agents : a # Trace!a0 => work'[a] = work[a] /\ bg'[a] = bg[a]
      /\ \A a : a = Trace!a0 => \/ bg[a] = "thread" /\ bg'[a] = "thread" /\ work'[a] = work[a]
                                \/ bg'[a] = "late" /\ work'[a] = Trace!Late(Trace!a0)
      /\ work' \in [Trace!Agents -> Seq(Steps)] /\ bg' \in [Trace!Agents -> {"none", "late", "thread", "failed", "done"}]
  <2>1. work \in [Trace!Agents -> Seq(Steps)] /\ bg \in [Trace!Agents -> {"none", "late", "thread", "failed", "done"}]
    BY <1>3 DEF TraceTypes, Trace!TypeOK
  <2>2. CASE bg[Trace!a0] = "thread"
    BY <1>1, <2>1, <2>2
  <2>3. CASE bg[Trace!a0] # "thread"
    BY <1>1, <1>6, <1>8, <2>1, <2>3
  <2>4. QED
    BY <2>2, <2>3
<1>10. TraceTypes'
  <2>1. held' \subseteq Trace!Agents \X Trace!Changes
    BY <1>3, <1>7 DEF Trace!TypeOK
  <2>2. \A x \in timedOut' : x[1] \in Trace!Agents \union {"controller"}
    BY <1>1, <1>3, <1>6 DEF Trace!TypeOK
  <2>3. i' \in Nat /\ atexit' \in BOOLEAN
    BY <1>1, <1>3, <1>4 DEF Trace!TypeOK
  <2>4. Trace!TypeOK'
    BY <1>1, <1>2, <1>3, <1>4, <1>9, <2>1, <2>2, <2>3 DEF Trace!TypeOK
  <2>5. ASSUME NEW a \in Trace!Agents, NEW q \in DOMAIN work'[a], work'[a][q].do = "on" PROVE work'[a][q].what \in Trace!Changes
    <3>1. CASE work'[a] = work[a]
      BY <1>3, <2>5, <3>1 DEF TraceTypes
    <3>2. CASE work'[a] = Trace!Late(Trace!a0)
      BY <1>8, <2>5, <3>2
    <3>3. QED
      BY <1>9, <3>1, <3>2
  <2>6. QED
    BY <1>1, <1>3, <1>4, <1>9, <2>4, <2>5 DEF TraceTypes
<1>11. HeldFit'
  <2>1. SUFFICES ASSUME NEW h \in held' PROVE h[1] \in Everyone /\ (Excused(h)' \/ Due(h)')
    BY <1>5 DEF HeldFit
  <2>2. CASE h[1] = Trace!a0
    BY <1>5, <1>6, <2>2 DEF Excused
  <2>3. CASE h \in held /\ h[1] # Trace!a0
    <3>1. h[1] \in Everyone /\ h[1] \in Trace!Agents /\ (Excused(h) \/ Due(h))
      BY <1>3, <2>3 DEF HeldFit, Trace!TypeOK
    <3>2. work'[h[1]] = work[h[1]] /\ bg'[h[1]] = bg[h[1]]
      BY <1>9, <2>3, <3>1
    <3>3. Excused(h) => Excused(h)'
      BY <1>1, <2>3, <3>2, ExcusedKept
    <3>4. Due(h) => Due(h)'
      BY <1>1, <2>3, <3>2, DueKept
    <3>5. QED
      BY <3>1, <3>3, <3>4
  <2>4. QED
    BY <1>7, <2>1, <2>2, <2>3
<1>12. WorkFits'
  <2>1. SUFFICES ASSUME NEW a \in Trace!Agents
                 PROVE  /\ work'[a] # <<>> => a \in Everyone /\ bg'[a] \in {"late", "thread"}
                        /\ bg'[a] = "late" => a \in Out'
                        /\ bg'[a] \in {"thread", "failed", "done"} => ~ToCollect(a)'
                        /\ bg'[a] = "thread" => \A q \in DOMAIN work'[a] : work'[a][q].do # "on"
    BY <1>5 DEF WorkFits
  <2>2. CASE bg'[a] = "late" /\ a = Trace!a0
    BY <1>5, <1>6, <2>2
  <2>3. CASE work'[a] = work[a] /\ bg'[a] = bg[a]
    BY <1>3, <1>4, <1>5, <2>3 DEF WorkFits
  <2>4. QED
    BY <1>9, <2>2, <2>3
<1>13. MarkersFit'
  <2>1. ASSUME NEW a \in {"atrace", "battor"}, pc = "starting", Current(a)' PROVE Trace!On("record") \in Elems(todo')
    BY <1>4, <2>1, Records
  <2>2. ASSUME NEW a \in {"atrace", "battor"}, pc = "starting", a \in Elems(child) PROVE <<a, "record">> \in held'
    BY <1>3, <1>7, <2>2 DEF MarkersFit
  <2>3. ASSUME pc \in {"stopping", "getting"} PROVE Elems(child) \intersect Trace!SyncAgents \subseteq synced
    BY <1>3, <2>3 DEF MarkersFit
  <2>4. QED
    BY <1>1, <1>2, <1>4, <2>1, <2>2, <2>3 DEF MarkersFit
<1>14. DataFits'
  <2>1. SUFFICES ASSUME NEW q \in DOMAIN results, results[q].data = "nothing" PROVE results[q].agent \in Trace!Agents /\ bg'[results[q].agent] = "failed"
    BY <1>1 DEF DataFits
  <2>2. pc = "getting" /\ results \in Seq(Found)
    <3>1. DOMAIN <<>> = {}
      OBVIOUS
    <3>2. QED
      BY <1>2, <1>3, <2>1, <3>1 DEF ListsFit, TraceTypes
  <2>3. bg[results[q].agent] = "failed"
    BY <1>3, <2>1 DEF DataFits
  <2>4. Of(results)[q] = results[q].agent /\ q \in DOMAIN Of(results)
    BY <2>1 DEF Of
  <2>5. results[q].agent \in First(child, i)
    BY <1>3, <2>2, <2>4 DEF ListsFit, Handled, Elems
  <2>6. results[q].agent # Trace!a0 /\ results[q].agent \in Elems(child)
    BY <1>2, <2>2, <2>5 DEF Listed, First, Elems
  <2>7. results[q].agent \in Trace!Agents
    <3>1. child \in Seq(Trace!Agents)
      BY <1>3 DEF TraceTypes
    <3>2. QED
      BY <2>6, <3>1, ListEnds
  <2>8. QED
    BY <1>9, <2>3, <2>6, <2>7
<1>15. i' \in 1..Len(Trace!List(pc)') + 1
  <2>1. Trace!List(pc)' = Trace!List(pc)
    BY <1>1, <1>4 DEF Trace!List
  <2>2. QED
    BY <1>4, <1>6, <2>1
<1>16. QED
  BY <1>1, <1>2, <1>4, <1>10, <1>11, <1>12, <1>13, <1>14, <1>5, <1>15 DEF TraceInv, Alive

\* When the last agent was called, what is to come of the list is empty.
LEMMA LastWasCalled ==
  ASSUME TraceInv, pc \in {"syncing", "stopping", "getting"}, i \notin DOMAIN child
  PROVE  First(child, i) = Elems(child) /\ Rest(child, i) = {} /\ Rest(child, i + 1) = {} /\ \A a : ~Current(a)
<1>1. child \in Seq(Trace!Agents) /\ i \in 1..Len(child) + 1
  BY DEF TraceInv, TraceTypes, Alive, Trace!List
<1>2. First(child, i) = Elems(child) /\ Rest(child, i) = {}
  BY <1>1, ListEnds
<1>3. \A j \in DOMAIN child : i + 1 <= j => i <= j
  BY <1>1
<1>4. Rest(child, i + 1) \subseteq Rest(child, i)
  BY <1>3 DEF Rest
<1>5. QED
  BY <1>2, <1>4 DEF Current, Trace!List

LEMMA PhaseFacts ==
  ASSUME TraceInv, Trace!NextPhase
  PROVE  /\ pc \in {"starting", "capturing", "syncing", "stopping"} /\ i' = 1 /\ raised = <<"none", "none">>
         /\ UNCHANGED <<scene, held, work, bg, child, succ, synced, results, timedOut, raised, atexit>>
         /\ pc = "starting" => pc' = "capturing" /\ First(scene.agents, i) = Everyone /\ Rest(scene.agents, i) = {}
         /\ pc = "capturing" => pc' = "syncing"
         /\ pc = "syncing" => pc' = "stopping" /\ First(child, i) = Elems(child)
         /\ pc = "stopping" => pc' = "disable" /\ First(child, i) = Elems(child) /\ Rest(child, i) = {} /\ Rest(child, i + 1) = {}
         /\ pc' \in {"capturing", "disable"} => todo' = <<>>
         /\ pc' \in {"syncing", "stopping"} => Trace!Enter(pc', child, 1)
         /\ \A a : ~Current(a)
<1>1. /\ pc \in {"starting", "capturing", "syncing", "stopping"} /\ (pc = "capturing" \/ i \notin DOMAIN Trace!List(pc))
      /\ Trace!Enter(Trace!After[pc], IF Trace!After[pc] \in {"syncing", "stopping"} THEN Trace!List(Trace!After[pc]) ELSE <<>>, 1)
      /\ UNCHANGED <<scene, held, work, bg, child, succ, synced, results, timedOut, raised, atexit>>
  BY DEF Trace!NextPhase
<1>2. /\ pc = "starting" => Trace!After[pc] = "capturing"
      /\ pc = "capturing" => Trace!After[pc] = "syncing"
      /\ pc = "syncing" => Trace!After[pc] = "stopping"
      /\ pc = "stopping" => Trace!After[pc] = "disable"
  BY DEF Trace!After
<1>3. pc' = Trace!After[pc] /\ i' = 1
  BY <1>1 DEF Trace!Enter
<1>4. raised = <<"none", "none">> /\ i \in 1..Len(Trace!List(pc)) + 1
  BY <1>1 DEF TraceInv, Alive
<1>5. scene.agents \in Seq(Trace!Agents) /\ Everyone = Elems(scene.agents)
  BY SceneIs DEF TraceInv, TraceTypes
<1>6. pc = "starting" => First(scene.agents, i) = Everyone /\ Rest(scene.agents, i) = {}
  <2>1. pc = "starting" => i \notin DOMAIN scene.agents /\ i \in 1..Len(scene.agents) + 1
    BY <1>1, <1>4 DEF Trace!List
  <2>2. QED
    BY <1>5, <2>1, ListEnds
<1>7. pc \in {"syncing", "stopping"} => First(child, i) = Elems(child) /\ Rest(child, i) = {} /\ Rest(child, i + 1) = {}
  BY <1>1, LastWasCalled DEF Trace!List
<1>8. pc' \in {"capturing", "disable"} => todo' = <<>>
  <2>1. DOMAIN <<>> = {}
    OBVIOUS
  <2>2. QED
    BY <1>1, <1>3, <2>1 DEF Trace!Enter
<1>9. pc' \in {"syncing", "stopping"} => Trace!Enter(pc', child, 1)
  BY <1>1, <1>3 DEF Trace!List
<1>10. \A a : ~Current(a)
  BY <1>1 DEF Current
<1>11. QED
  BY <1>1, <1>2, <1>3, <1>4, <1>6, <1>7, <1>8, <1>9, <1>10

\* The next phase: the lists.
LEMMA NextPhaseLists == TraceInv /\ Trace!NextPhase => ListsFit' /\ Everyone' = Everyone /\ Out' = Out
<1> SUFFICES ASSUME TraceInv, Trace!NextPhase PROVE ListsFit' /\ Everyone' = Everyone /\ Out' = Out
  OBVIOUS
<1>1. /\ pc \in {"starting", "capturing", "syncing", "stopping"} /\ i' = 1
      /\ UNCHANGED <<scene, child, succ, results, timedOut>>
      /\ pc = "starting" => pc' = "capturing" /\ First(scene.agents, i) = Everyone
      /\ pc = "capturing" => pc' = "syncing"
      /\ pc = "syncing" => pc' = "stopping"
      /\ pc = "stopping" => pc' = "disable" /\ First(child, i) = Elems(child)
  BY PhaseFacts
<1>2. results' = results
  BY <1>1
<1>3. Everyone' = Everyone /\ Out' = Out
  BY <1>1 DEF Everyone, Out
<1>4. ListsFit /\ child \in Seq(Trace!Agents) /\ succ \in Seq(Trace!Agents)
  BY DEF TraceInv, TraceTypes
<1>5. CASE pc = "starting"
  <2>1. Elems(child) = Everyone \ Out
    BY <1>1, <1>4, <1>5 DEF ListsFit, Handled
  <2>2. QED
    BY <1>1, <1>2, <1>3, <1>4, <1>5, <2>1 DEF ListsFit
<1>6. CASE pc = "capturing"
  BY <1>1, <1>2, <1>3, <1>4, <1>6 DEF ListsFit
<1>7. CASE pc = "syncing"
  <2>1. Elems(child) = Everyone \ Out /\ succ = <<>> /\ results = <<>>
    BY <1>4, <1>7 DEF ListsFit
  <2>2. First(child, 1) = {} /\ Rest(child, 1) = Elems(child)
    BY <1>4, ListEnds
  <2>3. Handled(scene.agents, child, 1, succ, Out)
    BY <2>1, <2>2, NoElems DEF Handled
  <2>4. QED
    BY <1>1, <1>2, <1>3, <1>4, <1>7, <2>1, <2>3 DEF ListsFit
<1>8. CASE pc = "stopping"
  <2>1. Elems(succ) = Elems(child) \ Out /\ Everyone \ Out \subseteq Elems(child) /\ Elems(child) \subseteq Everyone
    BY <1>1, <1>4, <1>8 DEF ListsFit, Handled
  <2>2. QED
    BY <1>1, <1>2, <1>3, <1>4, <1>8, <2>1 DEF ListsFit
<1>9. QED
  BY <1>1, <1>5, <1>6, <1>7, <1>8

\* The next phase: what is due of a change that is not excused is still due.
LEMMA PhaseDue ==
  ASSUME TraceInv, Trace!NextPhase, NEW h \in held, Due(h), h[1] \in Everyone, h[1] \notin Out
  PROVE  Due(h)'
<1>1. /\ pc \in {"starting", "capturing", "syncing", "stopping"} /\ i' = 1
      /\ UNCHANGED <<scene, work, bg, child>> /\ \A a : ~Current(a)
      /\ pc = "starting" => pc' = "capturing"
      /\ pc = "capturing" => pc' = "syncing"
      /\ pc = "syncing" => pc' = "stopping"
      /\ pc = "stopping" => pc' = "disable" /\ Rest(child, i) = {} /\ Rest(child, i + 1) = {}
      /\ pc' \in {"syncing", "stopping"} => Trace!Enter(pc', child, 1)
  BY PhaseFacts
<1>2. CASE pc \in {"starting", "capturing"}
  <2>1. ToStop(h[1])' /\ ToCollect(h[1])' /\ ToGet(h[1])'
    BY <1>1, <1>2 DEF ToStop, ToCollect, ToGet
  <2>2. QED
    BY <1>1, <2>1 DEF Due
<1>3. CASE pc = "syncing"
  <2>1. h[1] \in Elems(child) /\ child \in Seq(Trace!Agents) /\ Trace!TypeOK
    BY <1>3 DEF TraceInv, TraceTypes, ListsFit
  <2>2. h[1] \in Rest(child, 1) /\ 1 \in 1..Len(child) + 1
    BY <2>1, ListEnds
  <2>3. Trace!Enter("stopping", child, 1) /\ Trace!List("stopping")' = child
    BY <1>1, <1>3 DEF Trace!List
  <2>4. h[1] \in Rest(child, 2) \/ (Current(h[1])' /\ todo' = Trace!Plan[h[1]]["stopping"])
    BY <2>1, <2>2, <2>3, EnterFacts
  <2>5. ToStop(h[1])' \/ (Current(h[1])' /\ todo' = Trace!Plan[h[1]]["stopping"])
    BY <1>1, <1>3, <2>4 DEF ToStop
  <2>6. ToCollect(h[1])' /\ ToGet(h[1])'
    BY <1>1, <1>3, <2>2 DEF ToCollect, ToGet
  <2>7. QED
    BY <1>1, <2>5, <2>6 DEF Due
<1>4. CASE pc = "stopping"
  <2>1. ToGet(h[1])' /\ ~ToStop(h[1]) /\ ~ToCollect(h[1])
    BY <1>1, <1>4 DEF ToStop, ToCollect, ToGet
  <2>2. QED
    BY <1>1, <2>1 DEF Due
<1>5. QED
  BY <1>1, <1>2, <1>3, <1>4

\* The next phase begins when all agents were called.
LEMMA NextPhaseKeeps == TraceInv /\ Trace!NextPhase => TraceInv'
<1> SUFFICES ASSUME TraceInv, Trace!NextPhase PROVE TraceInv'
  OBVIOUS
<1>1. /\ pc \in {"starting", "capturing", "syncing", "stopping"} /\ i' = 1 /\ raised = <<"none", "none">>
      /\ UNCHANGED <<scene, held, work, bg, child, succ, synced, results, timedOut, raised, atexit>>
      /\ pc = "starting" => pc' = "capturing"
      /\ pc = "capturing" => pc' = "syncing"
      /\ pc = "syncing" => pc' = "stopping" /\ First(child, i) = Elems(child)
      /\ pc = "stopping" => pc' = "disable"
      /\ pc' \in {"capturing", "disable"} => todo' = <<>>
      /\ pc' \in {"syncing", "stopping"} => Trace!Enter(pc', child, 1)
  BY PhaseFacts
<1>2. TraceTypes /\ Trace!TypeOK /\ HeldFit /\ WorkFits /\ MarkersFit /\ DataFits /\ child \in Seq(Trace!Agents)
  BY DEF TraceInv, TraceTypes
<1>3. ListsFit' /\ Everyone' = Everyone /\ Out' = Out
  BY NextPhaseLists
<1>4. results' \in Seq(Found) /\ DataFits' /\ \A q \in DOMAIN results' : results'[q].agent \in Trace!Agents \union {"controller"}
  BY <1>1, <1>2 DEF TraceTypes, Trace!TypeOK, DataFits
<1>5. TodoFits' /\ todo' \in Seq(Steps)
  <2>1. CASE pc' \in {"capturing", "disable"}
    <3>1. todo' = <<>> /\ <<>> \in Seq(Steps) /\ DOMAIN <<>> = {}
      BY <1>1, <2>1
    <3>2. QED
      BY <3>1 DEF TodoFits
  <2>2. CASE pc' \in {"syncing", "stopping"}
    <3>1. PICK p : p = pc' /\ p \in {"syncing", "stopping"}
      BY <2>2
    <3>2. Trace!Enter(p, child, 1) /\ Trace!List(p)' = child /\ 1 \in 1..Len(child) + 1
      BY <1>1, <1>2, <3>1, ListEnds DEF Trace!List
    <3>3. QED
      BY <1>2, <3>1, <3>2, EnterFacts
  <2>3. QED
    BY <1>1, <2>1, <2>2
<1>6. TraceTypes'
  <2>1. Trace!TypeOK'
    BY <1>1, <1>2, <1>4 DEF Trace!TypeOK
  <2>2. QED
    BY <1>1, <1>2, <1>4, <1>5, <2>1 DEF TraceTypes
<1>7. HeldFit'
  <2>1. SUFFICES ASSUME NEW h \in held PROVE h[1] \in Everyone /\ (Excused(h)' \/ Due(h)')
    BY <1>1, <1>3 DEF HeldFit
  <2>2. h[1] \in Everyone /\ (Excused(h) \/ Due(h))
    BY <1>2 DEF HeldFit
  <2>3. Excused(h) => Excused(h)'
    BY <1>1, ExcusedKept
  <2>4. CASE h[1] \in Out
    BY <1>3, <2>2, <2>4 DEF Excused
  <2>5. CASE h[1] \notin Out
    BY <2>2, <2>3, <2>5, PhaseDue
  <2>6. QED
    BY <2>4, <2>5
<1>8. WorkFits'
  <2>1. \A a : ToCollect(a)' => ToCollect(a)
    BY <1>1 DEF ToCollect
  <2>2. QED
    BY <1>1, <1>2, <1>3, <2>1 DEF WorkFits
<1>9. MarkersFit'
  <2>1. pc' = "syncing" => First(child, 1) \intersect Trace!SyncAgents \subseteq synced
    BY <1>2, ListEnds
  <2>2. pc' = "stopping" => Elems(child) \intersect Trace!SyncAgents \subseteq synced
    BY <1>1, <1>2 DEF MarkersFit
  <2>3. pc' \in {"capturing", "syncing"} => \A a \in {"atrace", "battor"} : a \in Elems(child) => <<a, "record">> \in held
    BY <1>1, <1>2 DEF MarkersFit
  <2>4. pc' = "disable" => Elems(child) \intersect Trace!SyncAgents \subseteq synced
    BY <1>1, <1>2 DEF MarkersFit
  <2>5. QED
    BY <1>1, <2>1, <2>2, <2>3, <2>4 DEF MarkersFit
<1>10. i' \in 1..Len(Trace!List(pc)') + 1
  <2>1. Trace!List(pc)' = child
    BY <1>1 DEF Trace!List
  <2>2. QED
    BY <1>1, <1>2, <2>1, ListEnds
<1>11. QED
  BY <1>1, <1>3, <1>4, <1>5, <1>6, <1>7, <1>8, <1>9, <1>10 DEF TraceInv, Alive

\* When the results are there, with the controller's own as the last or without it, they are whole.
LEMMA ResultsBecomeWhole ==
  ASSUME TraceInv, NotGiven, pc = "getting", i \notin DOMAIN child, UNCHANGED <<scene, bg>>, NEW r \in Found, r.agent = "controller", r.data = "whole",
         \/ results' = Append(results, r) /\ timedOut' = timedOut
         \/ results' = results /\ Out' = Out \union {"controller"}
  PROVE  Trace!ResultsAreWhole' /\ results' \in Seq(Found) /\ DataFits' /\ \A q \in DOMAIN results' : results'[q].agent \in Trace!Agents \union {"controller"}
<1>1. First(child, i) = Elems(child)
  BY LastWasCalled
<1>2. results \in Seq(Found) /\ ListsFit /\ DataFits /\ Trace!TypeOK /\ "controller" \notin Trace!Agents
  BY DEF TraceInv, TraceTypes, Trace!Agents
<1>3. /\ KeepsOrder(scene.agents, Of(results)) /\ Elems(Of(results)) = Elems(child) \ Out /\ Everyone \ Out \subseteq Elems(child)
      /\ Elems(child) \subseteq Everyone
  BY <1>1, <1>2 DEF ListsFit, Handled
<1>4. DOMAIN Of(results) = DOMAIN results /\ \A q \in DOMAIN results : Of(results)[q] = results[q].agent
  BY DEF Of
<1>5. {results[q].agent : q \in DOMAIN results} = Everyone \ Out
  BY <1>3, <1>4 DEF Elems
<1>6. Everyone \subseteq Trace!Agents /\ "controller" \notin Everyone /\ "controller" \notin Out
  BY <1>2, SceneIs DEF NotGiven
<1>7. \A j, q \in DOMAIN results : j < q => Trace!Before(results[j].agent, results[q].agent)
  BY <1>3, <1>4 DEF KeepsOrder, Precedes, Trace!Before
<1>8. \A q \in DOMAIN results : results[q].agent # "controller"
  BY <1>5, <1>6
<1>9. Everyone' = Everyone /\ Everyone = {scene.agents[q] : q \in DOMAIN scene.agents} /\ Out' = {x[1] : x \in timedOut'}
  BY DEF Everyone, Elems, Out
<1>10. scene' = scene /\ \A a, b : Trace!Before(a, b)' <=> Trace!Before(a, b)
  BY DEF Trace!Before
<1>11. /\ results' \in Seq(Found) /\ {results'[q].agent : q \in DOMAIN results'} = (Everyone \union {"controller"}) \ Out'
       /\ \A j, q \in DOMAIN results' : j < q =>
            results'[j].agent # "controller" /\ (results'[q].agent = "controller" \/ Trace!Before(results'[j].agent, results'[q].agent))
       /\ \A q \in DOMAIN results' : results'[q].data = "nothing" => results'[q].agent \in Trace!Agents /\ bg[results'[q].agent] = "failed"
  <2>1. CASE results' = results /\ Out' = Out \union {"controller"}
    <3>1. (Everyone \union {"controller"}) \ Out' = Everyone \ Out
      BY <1>6, <2>1
    <3>2. QED
      BY <1>2, <1>5, <1>7, <1>8, <2>1, <3>1 DEF DataFits
  <2>2. CASE results' = Append(results, r) /\ timedOut' = timedOut
    <3> DEFINE last == Len(results) + 1
    <3>1. /\ results' \in Seq(Found) /\ Len(results) \in Nat /\ results'[last] = r /\ \A q \in DOMAIN results : results'[q] = results[q]
          /\ DOMAIN results = 1..Len(results) /\ DOMAIN results' = 1..last
      BY <1>2, <2>2, OfGrows
    <3>2. DOMAIN results' = DOMAIN results \union {last} /\ \A q \in DOMAIN results : q < last /\ ~(last < q)
      BY <3>1
    <3>3. ~(last < last)
      BY <3>1
    <3>4. {results'[q].agent : q \in DOMAIN results'} = {results[q].agent : q \in DOMAIN results} \union {"controller"}
      BY <3>1, <3>2
    <3>5. Out' = Out
      BY <2>2 DEF Out
    <3>6. {results'[q].agent : q \in DOMAIN results'} = (Everyone \union {"controller"}) \ Out'
      BY <1>5, <1>6, <3>4, <3>5
    <3>7. ASSUME NEW j \in DOMAIN results', NEW q \in DOMAIN results', j < q
          PROVE  results'[j].agent # "controller" /\ (results'[q].agent = "controller" \/ Trace!Before(results'[j].agent, results'[q].agent))
      <4>1. j \in DOMAIN results
        BY <3>2, <3>3, <3>7
      <4>2. CASE q = last
        BY <1>8, <3>1, <4>1, <4>2
      <4>3. CASE q \in DOMAIN results
        BY <1>7, <1>8, <3>1, <3>7, <4>1, <4>3
      <4>4. QED
        BY <3>2, <4>2, <4>3
    <3>8. \A q \in DOMAIN results' : results'[q].data = "nothing" => results'[q].agent \in Trace!Agents /\ bg[results'[q].agent] = "failed"
      BY <1>2, <3>1, <3>2 DEF DataFits
    <3>9. QED
      BY <3>1, <3>6, <3>7, <3>8
  <2>3. QED
    BY <2>1, <2>2
<1>12. Trace!ResultsAreWhole'
  <2>1. {results'[q].agent : q \in DOMAIN results'} = ({scene.agents[q] : q \in DOMAIN scene.agents}' \union {"controller"}) \ {x[1] : x \in timedOut'}
    BY <1>9, <1>10, <1>11
  <2>2. ASSUME NEW j \in DOMAIN results', NEW q \in DOMAIN results', j < q
        PROVE  results'[j].agent # "controller" /\ (results'[q].agent = "controller" \/ Trace!Before(results[j].agent, results[q].agent)')
    BY <1>10, <1>11, <2>2 DEF Trace!Before
  <2>3. \A q \in DOMAIN results' : results'[q].data = "nothing" => bg'[results'[q].agent] = "failed"
    BY <1>11
  <2>4. QED
    BY <2>1, <2>2, <2>3 DEF Trace!ResultsAreWhole
<1>13. DataFits'
  BY <1>11 DEF DataFits
<1>14. \A q \in DOMAIN results' : results'[q].agent \in Trace!Agents \union {"controller"}
  <2>1. (Everyone \union {"controller"}) \ Out' \subseteq Trace!Agents \union {"controller"}
    BY <1>6
  <2>2. QED
    BY <1>11, <2>1
<1>15. QED
  BY <1>11, <1>12, <1>13, <1>14

\* The output begins when the last results were asked for.
LEMMA OutputBegins ==
  ASSUME TraceInv, pc = "getting", i \notin DOMAIN child, Trace!Enter("output", <<>>, 1),
         UNCHANGED <<scene, held, work, bg, child, succ, synced, raised, atexit>>,
         timedOut \subseteq timedOut', \A x \in timedOut' : x \in timedOut \/ x[1] \in Trace!Agents \union {"controller"},
         Trace!ResultsAreWhole', results' \in Seq(Found), DataFits', \A q \in DOMAIN results' : results'[q].agent \in Trace!Agents \union {"controller"}
  PROVE  TraceInv'
<1>1. pc' = "output" /\ i' = 1 /\ todo' = <<>>
  <2>1. DOMAIN <<>> = {}
    OBVIOUS
  <2>2. QED
    BY <2>1 DEF Trace!Enter
<1>2. TraceTypes /\ Trace!TypeOK /\ ListsFit /\ HeldFit /\ WorkFits /\ MarkersFit /\ raised = <<"none", "none">>
  BY DEF TraceInv, TraceTypes, Alive
<1>3. Rest(child, i + 1) = {} /\ \A a : ~Current(a)
  BY LastWasCalled
<1>4. Out \subseteq Out' /\ Everyone' = Everyone
  BY DEF Out, Everyone
<1>5. TraceTypes'
  <2>1. \A x \in timedOut' : x[1] \in Trace!Agents \union {"controller"}
    BY <1>2 DEF Trace!TypeOK
  <2>2. Trace!TypeOK'
    BY <1>1, <1>2, <2>1 DEF Trace!TypeOK
  <2>3. <<>> \in Seq(Steps)
    OBVIOUS
  <2>4. QED
    BY <1>1, <1>2, <2>2, <2>3 DEF TraceTypes
<1>6. ListsFit'
  <2>1. Everyone \ Out' \subseteq Elems(child)
    BY <1>2, <1>4 DEF ListsFit
  <2>2. KeepsOrder(scene.agents, child) /\ KeepsOrder(scene.agents, succ) /\ Elems(child) \subseteq Everyone
    BY <1>2 DEF ListsFit
  <2>3. QED
    BY <1>1, <1>4, <2>1, <2>2 DEF ListsFit
<1>7. HeldFit'
  <2>1. SUFFICES ASSUME NEW h \in held PROVE h[1] \in Everyone /\ (Excused(h)' \/ Due(h)')
    BY <1>4 DEF HeldFit
  <2>2. h[1] \in Everyone /\ (Excused(h) \/ Due(h))
    BY <1>2 DEF HeldFit
  <2>3. Excused(h) => Excused(h)'
    BY ExcusedKept
  <2>4. ~ToStop(h[1]) /\ ~ToCollect(h[1]) /\ ~ToGet(h[1])
    BY <1>3 DEF ToStop, ToCollect, ToGet
  <2>5. Due(h) => Due(h)'
    BY <1>3, <2>4 DEF Due
  <2>6. QED
    BY <2>2, <2>3, <2>5
<1>8. WorkFits'
  <2>1. \A a : ToCollect(a)' => ToCollect(a)
    BY <1>1 DEF ToCollect
  <2>2. QED
    BY <1>2, <1>4, <2>1 DEF WorkFits
<1>9. MarkersFit'
  BY <1>1, <1>2 DEF MarkersFit
<1>10. TodoFits'
  <2>1. DOMAIN <<>> = {}
    OBVIOUS
  <2>2. QED
    BY <1>1, <2>1 DEF TodoFits
<1>11. i' \in 1..Len(Trace!List(pc)') + 1
  <2>1. Trace!List(pc)' = child /\ child \in Seq(Trace!Agents)
    BY <1>1, <1>2 DEF Trace!List, TraceTypes
  <2>2. QED
    BY <1>1, <2>1, ListEnds
<1>12. QED
  BY <1>1, <1>2, <1>5, <1>6, <1>7, <1>8, <1>9, <1>10, <1>11 DEF TraceInv, Alive

\* The controller's own results, which may raise or time out.
LEMMA ControllerResultKeeps == TraceInv /\ NotGiven /\ Trace!ControllerResult => TraceInv'
<1> SUFFICES ASSUME TraceInv, NotGiven, Trace!ControllerResult PROVE TraceInv'
  OBVIOUS
<1>1. pc = "getting" /\ i \notin DOMAIN child /\ UNCHANGED <<scene, held, work, bg, child, succ, synced, atexit>>
  BY DEF Trace!ControllerResult
<1>2. PICK r \in Found : r = [agent |-> "controller", data |-> "whole"]
  BY DEF Found
<1>3. r.agent = "controller" /\ r.data = "whole"
  BY <1>2
<1>4. CASE Trace!Enter("output", <<>>, 1) /\ UNCHANGED <<timedOut, raised>> /\ results' = Append(results, r)
  <2>1. Trace!ResultsAreWhole' /\ results' \in Seq(Found) /\ DataFits' /\ \A q \in DOMAIN results' : results'[q].agent \in Trace!Agents \union {"controller"}
    BY <1>1, <1>3, <1>4, ResultsBecomeWhole
  <2>2. \A x \in timedOut' : x \in timedOut
    BY <1>4
  <2>3. QED
    BY <1>1, <1>4, <2>1, <2>2, OutputBegins
<1>5. CASE Trace!Gives("controller") /\ Trace!Enter("output", <<>>, 1) /\ UNCHANGED <<results, raised>>
  <2>1. PICK x : x = <<"controller", pc>>
    OBVIOUS
  <2>2. timedOut' = timedOut \union {x} /\ x[1] = "controller"
    BY <1>5, <2>1 DEF Trace!Gives
  <2>3. Out' = Out \union {"controller"}
    BY <2>2 DEF Out
  <2>4. Trace!ResultsAreWhole' /\ results' \in Seq(Found) /\ DataFits' /\ \A q \in DOMAIN results' : results'[q].agent \in Trace!Agents \union {"controller"}
    BY <1>1, <1>3, <1>5, <2>3, ResultsBecomeWhole
  <2>5. timedOut \subseteq timedOut' /\ \A y \in timedOut' : y \in timedOut \/ y[1] \in Trace!Agents \union {"controller"}
    BY <2>2
  <2>6. QED
    BY <1>1, <1>5, <2>4, <2>5, OutputBegins
<1>6. CASE Trace!Dies("controller") /\ UNCHANGED <<results, timedOut>>
  <2>1. Rest(child, i + 1) = {} /\ \A a : ~Current(a)
    BY <1>1, LastWasCalled
  <2>2. \A a : ~ToGet(a)
    BY <1>1, <2>1 DEF ToGet
  <2>3. \A x \in timedOut' : x \in timedOut
    BY <1>6
  <2>4. QED
    BY <1>1, <1>6, <2>1, <2>2, <2>3, DiesKeeps
<1>7. QED
  BY <1>2, <1>4, <1>5, <1>6 DEF Trace!ControllerResult

\* The controller's own agent is started, and the agents after it.
LEMMA EnterKeeps ==
  ASSUME TraceInv, pc = "enable", Trace!Enter("starting", scene.agents, 1),
         UNCHANGED <<scene, held, work, bg, child, succ, synced, results, timedOut, raised, atexit>>
  PROVE  TraceInv'
<1>1. TraceTypes /\ Trace!TypeOK /\ WorkFits /\ DataFits
  BY DEF TraceInv, TraceTypes
<1>2. /\ held = {} /\ (\A a \in Trace!Agents : work[a] = <<>>) /\ raised = <<"none", "none">>
      /\ child = <<>> /\ succ = <<>> /\ results = <<>> /\ timedOut = {}
  BY DEF TraceInv, Alive, ListsFit
<1>3. scene.agents \in Seq(Trace!Agents) /\ Everyone = Elems(scene.agents) /\ 1 \in 1..Len(scene.agents) + 1 /\ First(scene.agents, 1) = {}
  BY <1>1, SceneIs, ListEnds
<1>4. Trace!List("starting")' = scene.agents
  BY DEF Trace!List
<1>5. /\ TodoFits' /\ todo' \in Seq(Steps) /\ pc' = "starting" /\ i' = 1
      /\ \A b : Current(b)' => b \in Rest(scene.agents, 1) /\ todo' = Trace!Plan[b]["starting"]
  BY <1>1, <1>3, <1>4, EnterFacts
<1>6. Out = {} /\ Out' = {} /\ Everyone' = Everyone
  BY <1>2 DEF Out, Everyone
<1>7. TraceTypes'
  <2>1. Trace!TypeOK'
    BY <1>1, <1>5 DEF Trace!TypeOK
  <2>2. QED
    BY <1>1, <1>5, <2>1 DEF TraceTypes
<1>8. ListsFit'
  <2>1. Handled(scene.agents, scene.agents, 1, child, Out)
    BY <1>2, <1>3, <1>6, NoElems DEF Handled
  <2>2. KeepsOrder(scene.agents, child) /\ KeepsOrder(scene.agents, succ) /\ Elems(child) \subseteq Everyone
    BY <1>2, NoElems
  <2>3. QED
    BY <1>2, <1>5, <1>6, <2>1, <2>2 DEF ListsFit
<1>9. HeldFit' /\ DataFits'
  BY <1>1, <1>2 DEF HeldFit, DataFits
<1>10. WorkFits'
  <2>1. \A a : ToCollect(a)
    BY DEF ToCollect
  <2>2. QED
    BY <1>1, <1>6, <2>1 DEF WorkFits
<1>11. MarkersFit'
  <2>1. \A a \in {"atrace", "battor"} : Current(a)' => Trace!On("record") \in Elems(todo')
    BY <1>5, Records
  <2>2. Elems(child) = {}
    BY <1>2, NoElems
  <2>3. QED
    BY <1>5, <2>1, <2>2 DEF MarkersFit
<1>12. QED
  BY <1>2, <1>3, <1>4, <1>5, <1>7, <1>8, <1>9, <1>10, <1>11 DEF TraceInv, Alive

\* The controller's own agent is stopped, and the results are asked for of the agents that stopped.
LEMMA CollectKeeps ==
  ASSUME TraceInv, pc = "disable", Trace!Enter("getting", succ, 1), child' = succ,
         UNCHANGED <<scene, held, work, bg, succ, synced, results, timedOut, raised, atexit>>
  PROVE  TraceInv'
<1>1. TraceTypes /\ Trace!TypeOK /\ HeldFit /\ WorkFits /\ DataFits /\ ListsFit /\ MarkersFit
  BY DEF TraceInv, TraceTypes
<1>2. /\ results = <<>> /\ raised = <<"none", "none">> /\ Elems(succ) = Everyone \ Out /\ Elems(succ) \subseteq Elems(child)
      /\ Elems(child) \subseteq Everyone /\ KeepsOrder(scene.agents, succ)
  BY <1>1 DEF TraceInv, Alive, ListsFit
<1>3. succ \in Seq(Trace!Agents) /\ 1 \in 1..Len(succ) + 1 /\ First(succ, 1) = {} /\ Rest(succ, 1) = Elems(succ)
  BY <1>1, ListEnds DEF TraceTypes
<1>4. Trace!List("getting")' = succ
  BY DEF Trace!List
<1>5. /\ TodoFits' /\ todo' \in Seq(Steps) /\ pc' = "getting" /\ i' = 1
      /\ \A b \in Rest(succ, 1) : b \in Rest(succ, 2) \/ (Current(b)' /\ todo' = Trace!Plan[b]["getting"])
  BY <1>1, <1>3, <1>4, EnterFacts
<1>6. Out' = Out /\ Everyone' = Everyone
  BY DEF Out, Everyone
<1>7. TraceTypes'
  <2>1. Trace!TypeOK'
    BY <1>1, <1>5 DEF Trace!TypeOK
  <2>2. QED
    BY <1>1, <1>5, <2>1 DEF TraceTypes
<1>8. ListsFit'
  <2>1. DOMAIN Of(results) = {}
    <3>1. DOMAIN <<>> = {}
      OBVIOUS
    <3>2. QED
      BY <1>2, <3>1 DEF Of
  <2>2. Elems(Of(results)) = {} /\ KeepsOrder(scene.agents, Of(results))
    BY <2>1 DEF Elems, KeepsOrder
  <2>3. Handled(scene.agents, succ, 1, Of(results), Out)
    BY <1>2, <1>3, <2>2 DEF Handled
  <2>4. Of(results)' = Of(results)
    BY DEF Of
  <2>5. QED
    BY <1>2, <1>5, <1>6, <2>3, <2>4 DEF ListsFit
<1>9. HeldFit'
  <2>1. SUFFICES ASSUME NEW h \in held PROVE h[1] \in Everyone /\ (Excused(h)' \/ Due(h)')
    BY <1>6 DEF HeldFit
  <2>2. h[1] \in Everyone /\ (Excused(h) \/ Due(h))
    BY <1>1 DEF HeldFit
  <2>3. Excused(h) => Excused(h)'
    BY ExcusedKept
  <2>4. CASE h[1] \in Out
    BY <1>6, <2>2, <2>4 DEF Excused
  <2>5. CASE h[1] \notin Out /\ Due(h)
    <3>1. h[1] \in Rest(succ, 2) \/ (Current(h[1])' /\ todo' = Trace!Plan[h[1]]["getting"])
      BY <1>2, <1>3, <1>5, <2>2, <2>5
    <3>2. ToGet(h[1])' \/ (Current(h[1])' /\ todo' = Trace!Plan[h[1]]["getting"])
      BY <1>5, <3>1 DEF ToGet
    <3>3. ~Current(h[1]) /\ ~ToStop(h[1]) /\ ~ToCollect(h[1])
      BY DEF Current, ToStop, ToCollect
    <3>4. Due(h)'
      BY <2>5, <3>2, <3>3 DEF Due
    <3>5. QED
      BY <2>2, <3>4
  <2>6. QED
    BY <2>2, <2>3, <2>4, <2>5
<1>10. WorkFits' /\ DataFits'
  <2>1. \A a : ~ToCollect(a)'
    BY <1>5 DEF ToCollect
  <2>2. WorkFits'
    BY <1>1, <1>6, <2>1 DEF WorkFits
  <2>3. DataFits'
    BY <1>1 DEF DataFits
  <2>4. QED
    BY <2>2, <2>3
<1>11. MarkersFit'
  <2>1. Elems(succ) \intersect Trace!SyncAgents \subseteq synced
    BY <1>1, <1>2 DEF MarkersFit
  <2>2. QED
    BY <1>5, <2>1 DEF MarkersFit
<1>12. QED
  BY <1>2, <1>3, <1>4, <1>5, <1>7, <1>8, <1>9, <1>10, <1>11 DEF TraceInv, Alive

\* The controller's own agent, which may raise or time out.
LEMMA ControllerKeeps == TraceInv /\ Trace!Controller => TraceInv'
<1> SUFFICES ASSUME TraceInv, Trace!Controller PROVE TraceInv'
  OBVIOUS
<1>1. pc \in {"enable", "disable"} /\ UNCHANGED <<scene, held, work, bg, succ, synced, results, atexit>>
  BY DEF Trace!Controller
<1>2. \A x \in timedOut : x \in timedOut \/ x[1] \in Trace!Agents \union {"controller"}
  OBVIOUS
<1>3. CASE /\ Trace!Enter(Trace!After[pc], IF pc = "enable" THEN scene.agents ELSE succ, 1)
           /\ child' = (IF pc = "enable" THEN child ELSE succ) /\ UNCHANGED <<timedOut, raised>>
  <2>1. CASE pc = "enable"
    <3>1. Trace!After[pc] = "starting"
      BY <2>1 DEF Trace!After
    <3>2. Trace!Enter("starting", scene.agents, 1) /\ child' = child
      BY <1>3, <2>1, <3>1
    <3>3. QED
      BY <1>1, <1>3, <2>1, <3>2, EnterKeeps
  <2>2. CASE pc = "disable"
    <3>1. Trace!After[pc] = "getting"
      BY <2>2 DEF Trace!After
    <3>2. Trace!Enter("getting", succ, 1) /\ child' = succ
      BY <1>3, <2>2, <3>1
    <3>3. QED
      BY <1>1, <1>3, <2>2, <3>2, CollectKeeps
  <2>3. QED
    BY <1>1, <2>1, <2>2
<1>4. CASE Trace!Dies("controller") /\ UNCHANGED <<timedOut, child>>
  BY <1>1, <1>4, DiesKeeps
<1>5. CASE Trace!Gives("controller") /\ Trace!Dies("controller") /\ UNCHANGED child
  <2>1. PICK x : x = <<"controller", pc>>
    OBVIOUS
  <2>2. timedOut' = timedOut \union {x} /\ x[1] = "controller"
    BY <1>5, <2>1 DEF Trace!Gives
  <2>3. timedOut \subseteq timedOut' /\ \A y \in timedOut' : y \in timedOut \/ y[1] \in Trace!Agents \union {"controller"}
    BY <2>2
  <2>4. QED
    BY <1>1, <1>5, <2>3, DiesKeeps
<1>6. QED
  BY <1>3, <1>4, <1>5 DEF Trace!Controller

\* Results that are whole stay so.
LEMMA WholeKept ==
  ASSUME Trace!ResultsAreWhole, pc \in {"output", "written"}, UNCHANGED <<scene, results, timedOut>>,
         \A q \in DOMAIN results : results[q].data = "nothing" => bg'[results[q].agent] = "failed"
  PROVE  Trace!ResultsAreWhole'
<1>1. /\ {results[q].agent : q \in DOMAIN results} = ({scene.agents[q] : q \in DOMAIN scene.agents} \union {"controller"}) \ {x[1] : x \in timedOut}
      /\ \A j, q \in DOMAIN results : j < q =>
           results[j].agent # "controller" /\ (results[q].agent = "controller" \/ Trace!Before(results[j].agent, results[q].agent))
  BY DEF Trace!ResultsAreWhole
<1>2. scene' = scene /\ results' = results /\ timedOut' = timedOut
  OBVIOUS
<1>3. \A a, b : Trace!Before(a, b)' <=> Trace!Before(a, b)
  BY <1>2 DEF Trace!Before
<1>4. \A q \in DOMAIN results' : results'[q].data = "nothing" => bg'[results'[q].agent] = "failed"
  BY <1>2
<1>5. QED
  BY <1>1, <1>2, <1>3, <1>4 DEF Trace!ResultsAreWhole

\* The output is written, or fails.
LEMMA OutputKeeps == TraceInv /\ Trace!Output => TraceInv'
<1> SUFFICES ASSUME TraceInv, Trace!Output PROVE TraceInv'
  OBVIOUS
<1>1. /\ pc = "output" /\ UNCHANGED <<scene, held, work, bg, child, succ, synced, results, timedOut, atexit>>
      /\ Trace!Dies("output") \/ (pc' = "written" /\ UNCHANGED <<i, todo, raised>>)
  BY DEF Trace!Output
<1>2. CASE Trace!Dies("output")
  BY <1>1, <1>2, DiesKeeps
<1>3. CASE pc' = "written" /\ UNCHANGED <<i, todo, raised>>
  <2>1. TraceTypes /\ Trace!TypeOK /\ ListsFit /\ HeldFit /\ WorkFits /\ MarkersFit /\ TodoFits /\ DataFits
    BY DEF TraceInv, TraceTypes
  <2>2. TraceTypes'
    <3>1. Trace!TypeOK'
      BY <1>1, <1>3, <2>1 DEF Trace!TypeOK
    <3>2. QED
      BY <1>1, <1>3, <2>1, <3>1 DEF TraceTypes
  <2>3. Out' = Out /\ Everyone' = Everyone
    BY <1>1 DEF Out, Everyone
  <2>4. ListsFit'
    <3>1. Trace!ResultsAreWhole'
      <4>1. Trace!ResultsAreWhole
        BY <1>1, <2>1 DEF ListsFit
      <4>2. \A q \in DOMAIN results : results[q].data = "nothing" => bg'[results[q].agent] = "failed"
        BY <1>1, <2>1 DEF DataFits
      <4>3. QED
        BY <1>1, <4>1, <4>2, WholeKept
    <3>2. QED
      BY <1>1, <1>3, <2>1, <2>3, <3>1 DEF ListsFit
  <2>5. HeldFit'
    <3>1. \A h : Excused(h)' <=> Excused(h)
      BY <1>1, <1>3 DEF Excused, Out
    <3>2. \A h : Due(h) => Due(h)'
      BY <1>1, <1>3 DEF Due, Current, ToStop, ToCollect, ToGet
    <3>3. QED
      BY <1>1, <2>1, <2>3, <3>1, <3>2 DEF HeldFit
  <2>6. WorkFits' /\ MarkersFit' /\ DataFits'
    <3>1. WorkFits'
      BY <1>1, <1>3, <2>1, <2>3 DEF WorkFits, ToCollect
    <3>2. MarkersFit'
      BY <1>1, <1>3, <2>1 DEF MarkersFit
    <3>3. DataFits'
      BY <1>1, <2>1 DEF DataFits
    <3>4. QED
      BY <3>1, <3>2, <3>3
  <2>7. DOMAIN todo = {}
    BY <1>1, <2>1 DEF TodoFits, Trace!Running
  <2>8. TodoFits'
    BY <1>3, <2>7 DEF TodoFits
  <2>9. i' \in 1..Len(Trace!List(pc)') + 1 /\ raised' = <<"none", "none">>
    BY <1>1, <1>3 DEF TraceInv, Alive, Trace!List
  <2>10. QED
    BY <1>3, <2>2, <2>4, <2>5, <2>6, <2>8, <2>9 DEF TraceInv, Alive
<1>4. QED
  BY <1>1, <1>2, <1>3

\* At the exit the threads of the collection have ended, and more changes are undone.
LEMMA ExitKeeps == TraceInv /\ Trace!Exit => TraceInv'
<1> SUFFICES ASSUME TraceInv, Trace!Exit PROVE TraceInv'
  OBVIOUS
<1>1. /\ pc \in {"written", "died"} /\ (\A a \in Trace!Agents : bg[a] # "thread") /\ pc' = "exited" /\ held' \subseteq held
      /\ UNCHANGED <<scene, child, succ, synced, results, timedOut, raised, atexit, i, todo, work, bg>>
  BY DEF Trace!Exit, Trace!rest
<1>2. TraceTypes /\ Trace!TypeOK /\ ListsFit /\ HeldFit /\ WorkFits /\ MarkersFit /\ TodoFits /\ DataFits
  BY DEF TraceInv, TraceTypes
<1>3. TraceTypes'
  <2>1. Trace!TypeOK'
    BY <1>1, <1>2 DEF Trace!TypeOK
  <2>2. QED
    BY <1>1, <1>2, <2>1 DEF TraceTypes
<1>4. Out' = Out /\ Everyone' = Everyone
  BY <1>1 DEF Out, Everyone
<1>5. ListsFit'
  BY <1>1, <1>2, <1>4 DEF ListsFit
<1>6. HeldFit'
  <2>1. SUFFICES ASSUME NEW h \in held PROVE h[1] \in Everyone /\ (Excused(h)' \/ Due(h)')
    BY <1>1, <1>4 DEF HeldFit
  <2>2. h[1] \in Everyone /\ h[1] \in Trace!Agents /\ (Excused(h) \/ Due(h))
    BY <1>2 DEF HeldFit, Trace!TypeOK
  <2>3. ~Due(h)
    BY <1>1, <2>2 DEF Due, Current, ToStop, ToCollect, ToGet
  <2>4. Excused(h)'
    BY <1>1, <2>2, <2>3, ExcusedKept
  <2>5. QED
    BY <2>2, <2>4
<1>7. WorkFits' /\ MarkersFit' /\ DataFits'
  <2>1. WorkFits'
    BY <1>1, <1>2, <1>4 DEF WorkFits, ToCollect
  <2>2. MarkersFit'
    BY <1>1, <1>2 DEF MarkersFit
  <2>3. DataFits'
    BY <1>1, <1>2 DEF DataFits
  <2>4. QED
    BY <2>1, <2>2, <2>3
<1>8. TodoFits'
  <2>1. DOMAIN todo = {}
    BY <1>1, <1>2 DEF TodoFits, Trace!Running
  <2>2. QED
    BY <1>1, <2>1 DEF TodoFits
<1>9. raised'[2] = "enable" => held' = {} /\ \A a \in Trace!Agents : work'[a] = <<>>
  BY <1>1 DEF TraceInv
<1>10. QED
  BY <1>1, <1>3, <1>5, <1>6, <1>7, <1>8, <1>9 DEF TraceInv, Alive

\* What happens in the background of the other agents, and of those whose results are empty, stays so.
LEMMA BackgroundFacts ==
  ASSUME TraceInv, NEW a \in Trace!Agents, Trace!Background(a)
  PROVE  /\ UNCHANGED <<pc, i, todo, scene, child, succ, synced, results, timedOut, raised, atexit>> /\ pc # "exited"
         /\ a \in Everyone /\ bg[a] \in {"late", "thread"} /\ (bg[a] = "late" => a \in Out) /\ (bg[a] = "thread" => ~ToCollect(a))
         /\ work' \in [Trace!Agents -> Seq(Steps)] /\ bg' \in [Trace!Agents -> {"none", "late", "thread", "failed", "done"}]
         /\ \A b \in Trace!Agents : b # a => work'[b] = work[b] /\ bg'[b] = bg[b]
         /\ \A b \in Trace!Agents : bg[b] = "failed" => bg'[b] = "failed"
         /\ \A q \in DOMAIN work'[a] : work'[a][q].do = "on" => work'[a][q].what \in Trace!Changes
         /\ bg'[a] = "thread" => \A q \in DOMAIN work'[a] : work'[a][q].do # "on"
         /\ work'[a] # <<>> => bg'[a] = bg[a]
         /\ bg'[a] \in {bg[a], "failed", "done"} /\ (bg'[a] # bg[a] => bg[a] = "thread")
         /\ \A x \in held' : x \in held \/ (x[1] = a /\ x \in Trace!Agents \X Trace!Changes /\ bg[a] = "late")
         /\ \A x \in held : x \in held' \/ x[1] = a
         /\ bg[a] = "thread" => bg'[a] = "failed" \/ \A w : <<a, w>> \in held' /\ Trace!Off(w) \in Elems(work[a]) => Trace!Off(w) \in Elems(work'[a]) /\ bg'[a] = "thread"
<1>1. /\ work[a] # <<>> /\ pc # "exited"
      /\ UNCHANGED <<pc, i, todo, scene, child, succ, synced, results, timedOut, raised, atexit>>
  BY DEF Trace!Background, Trace!rest
<1>2. /\ work \in [Trace!Agents -> Seq(Steps)] /\ bg \in [Trace!Agents -> {"none", "late", "thread", "failed", "done"}]
      /\ \A q \in DOMAIN work[a] : work[a][q].do = "on" => work[a][q].what \in Trace!Changes
  BY DEF TraceInv, TraceTypes, Trace!TypeOK
<1>3. /\ a \in Everyone /\ bg[a] \in {"late", "thread"} /\ (bg[a] = "late" => a \in Out) /\ (bg[a] = "thread" => ~ToCollect(a))
      /\ bg[a] = "thread" => \A q \in DOMAIN work[a] : work[a][q].do # "on"
  BY <1>1 DEF TraceInv, WorkFits
<1>4. CASE /\ held' = Trace!Effect(a, Head(work[a]), held) /\ work' = [work EXCEPT ![a] = Tail(@)]
           /\ bg' = [bg EXCEPT ![a] = IF bg[a] = "thread" /\ Len(work[a]) = 1 THEN "done" ELSE @]
  <2>1. PICK row : row = work[a] /\ row \in Seq(Steps) /\ row # <<>>
    BY <1>1, <1>2
  <2>2. PICK s : s = Head(row)
    OBVIOUS
  <2>3. /\ Tail(row) \in Seq(Steps) /\ s \in Steps /\ Elems(row) = Elems(Tail(row)) \union {s}
        /\ \A q \in DOMAIN Tail(row) : q + 1 \in DOMAIN row /\ Tail(row)[q] = row[q + 1]
        /\ 1 \in DOMAIN row /\ s = row[1]
    BY <2>1, <2>2, ListShrinks
  <2>4. Len(row) = 1 <=> Tail(row) = <<>>
    <3>1. Len(row) \in Nat \ {0} /\ Len(Tail(row)) = Len(row) - 1
      BY <2>1
    <3>2. Len(Tail(row)) = 0 <=> Tail(row) = <<>>
      <4>1. \A r \in Seq(Steps) : Len(r) = 0 <=> r = <<>>
        OBVIOUS
      <4>2. QED
        BY <2>3, <4>1
    <3>3. QED
      BY <3>1, <3>2
  <2>5. /\ work'[a] = Tail(row) /\ bg'[a] = (IF bg[a] = "thread" /\ Len(row) = 1 THEN "done" ELSE bg[a])
        /\ work' \in [Trace!Agents -> Seq(Steps)] /\ bg' \in [Trace!Agents -> {"none", "late", "thread", "failed", "done"}]
        /\ \A b \in Trace!Agents : b # a => work'[b] = work[b] /\ bg'[b] = bg[b]
    <3>1. work' = [work EXCEPT ![a] = Tail(row)] /\ bg' = [bg EXCEPT ![a] = IF bg[a] = "thread" /\ Len(row) = 1 THEN "done" ELSE bg[a]]
      BY <1>4, <2>1
    <3>2. (IF bg[a] = "thread" /\ Len(row) = 1 THEN "done" ELSE bg[a]) \in {"none", "late", "thread", "failed", "done"}
      BY <1>2
    <3>3. QED
      BY <1>2, <2>3, <3>1, <3>2
  <2>6. /\ \A x \in held' : x \in held \/ (s.do = "on" /\ x = <<a, s.what>>)
        /\ \A x \in held : x \in held' \/ (s.do = "off" /\ x = <<a, s.what>>)
        /\ s.do = "off" => <<a, s.what>> \notin held'
    BY <1>4, <2>1, <2>2, EffectIs
  <2>7. (s.do = "on" => s.what \in Trace!Changes) /\ (bg[a] = "thread" => s.do # "on")
    BY <1>2, <1>3, <2>1, <2>3
  <2>8. \A x \in held' : x \in held \/ (x[1] = a /\ x \in Trace!Agents \X Trace!Changes /\ bg[a] = "late")
    BY <1>3, <2>6, <2>7
  <2>9. \A x \in held : x \in held' \/ x[1] = a
    BY <2>6
  <2>10. ASSUME bg[a] = "thread", NEW w, <<a, w>> \in held', Trace!Off(w) \in Elems(row) PROVE Trace!Off(w) \in Elems(Tail(row)) /\ bg'[a] = "thread"
    <3>1. Trace!Off(w) # s
      BY <2>6, <2>10, OnAndOff
    <3>2. Trace!Off(w) \in Elems(Tail(row))
      BY <2>3, <2>10, <3>1
    <3>3. Tail(row) # <<>>
      BY <3>2, NoElems
    <3>4. QED
      BY <2>4, <2>5, <2>10, <3>2, <3>3
  <2>11. /\ \A q \in DOMAIN work'[a] : work'[a][q].do = "on" => work'[a][q].what \in Trace!Changes
         /\ bg'[a] = "thread" => \A q \in DOMAIN work'[a] : work'[a][q].do # "on"
    BY <1>2, <1>3, <2>1, <2>3, <2>5
  <2>12. /\ work'[a] # <<>> => bg'[a] = bg[a]
         /\ bg'[a] \in {bg[a], "failed", "done"} /\ (bg'[a] # bg[a] => bg[a] = "thread")
    BY <2>4, <2>5
  <2>13. \A b \in Trace!Agents : bg[b] = "failed" => bg'[b] = "failed"
    BY <1>3, <2>5
  <2>14. bg[a] = "thread" => \A w : <<a, w>> \in held' /\ Trace!Off(w) \in Elems(work[a]) => Trace!Off(w) \in Elems(work'[a]) /\ bg'[a] = "thread"
    BY <2>1, <2>5, <2>10
  <2>15. QED
    BY <1>1, <1>3, <2>5, <2>8, <2>9, <2>11, <2>12, <2>13, <2>14
<1>5. CASE bg[a] = "thread" /\ bg' = [bg EXCEPT ![a] = "failed"] /\ work' = [work EXCEPT ![a] = <<>>] /\ UNCHANGED held
  <2>1. <<>> \in Seq(Steps) /\ DOMAIN <<>> = {}
    OBVIOUS
  <2>2. /\ work'[a] = <<>> /\ bg'[a] = "failed"
        /\ work' \in [Trace!Agents -> Seq(Steps)] /\ bg' \in [Trace!Agents -> {"none", "late", "thread", "failed", "done"}]
        /\ \A b \in Trace!Agents : b # a => work'[b] = work[b] /\ bg'[b] = bg[b]
    BY <1>2, <1>5, <2>1
  <2>3. QED
    BY <1>1, <1>3, <1>5, <2>1, <2>2
<1>6. QED
  BY <1>4, <1>5 DEF Trace!Background

\* A step in the background: of a thread that undoes a change, or fails, or of a call that was given up.
LEMMA BackgroundKeeps == ASSUME TraceInv, NEW a \in Trace!Agents, Trace!Background(a) PROVE TraceInv'
<1>1. /\ UNCHANGED <<pc, i, todo, scene, child, succ, synced, results, timedOut, raised, atexit>> /\ pc # "exited"
      /\ a \in Everyone /\ bg[a] \in {"late", "thread"} /\ (bg[a] = "late" => a \in Out) /\ (bg[a] = "thread" => ~ToCollect(a))
      /\ work' \in [Trace!Agents -> Seq(Steps)] /\ bg' \in [Trace!Agents -> {"none", "late", "thread", "failed", "done"}]
      /\ \A b \in Trace!Agents : b # a => work'[b] = work[b] /\ bg'[b] = bg[b]
      /\ \A b \in Trace!Agents : bg[b] = "failed" => bg'[b] = "failed"
      /\ \A x \in held' : x \in held \/ (x[1] = a /\ x \in Trace!Agents \X Trace!Changes /\ bg[a] = "late")
      /\ \A x \in held : x \in held' \/ x[1] = a
  BY BackgroundFacts
<1>2. /\ \A q \in DOMAIN work'[a] : work'[a][q].do = "on" => work'[a][q].what \in Trace!Changes
      /\ bg'[a] = "thread" => \A q \in DOMAIN work'[a] : work'[a][q].do # "on"
      /\ work'[a] # <<>> => bg'[a] = bg[a]
      /\ bg'[a] \in {bg[a], "failed", "done"} /\ (bg'[a] # bg[a] => bg[a] = "thread")
      /\ bg[a] = "thread" => bg'[a] = "failed" \/ \A w : <<a, w>> \in held' /\ Trace!Off(w) \in Elems(work[a]) => Trace!Off(w) \in Elems(work'[a]) /\ bg'[a] = "thread"
  BY BackgroundFacts
<1>3. TraceTypes /\ Trace!TypeOK /\ ListsFit /\ HeldFit /\ WorkFits /\ MarkersFit /\ TodoFits /\ DataFits
  BY DEF TraceInv, TraceTypes
<1>4. Out' = Out /\ Everyone' = Everyone
  BY <1>1 DEF Out, Everyone
<1>5. TraceTypes'
  <2>1. held' \subseteq Trace!Agents \X Trace!Changes
    BY <1>1, <1>3 DEF Trace!TypeOK
  <2>2. Trace!TypeOK'
    BY <1>1, <1>3, <2>1 DEF Trace!TypeOK
  <2>3. ASSUME NEW b \in Trace!Agents, NEW q \in DOMAIN work'[b], work'[b][q].do = "on" PROVE work'[b][q].what \in Trace!Changes
    BY <1>1, <1>2, <1>3, <2>3 DEF TraceTypes
  <2>4. QED
    BY <1>1, <1>3, <2>2, <2>3 DEF TraceTypes
<1>6. DataFits'
  <2>1. \A q \in DOMAIN results : results[q].data = "nothing" => results[q].agent \in Trace!Agents /\ bg'[results[q].agent] = "failed"
    <3>1. SUFFICES ASSUME NEW q \in DOMAIN results, results[q].data = "nothing" PROVE results[q].agent \in Trace!Agents /\ bg'[results[q].agent] = "failed"
      OBVIOUS
    <3>2. bg[results[q].agent] = "failed" /\ results[q].agent \in Trace!Agents
      BY <1>3, <3>1 DEF DataFits
    <3>3. QED
      BY <1>1, <3>2
  <2>2. QED
    BY <1>1, <2>1 DEF DataFits
<1>7. ListsFit'
  <2>1. pc \in {"output", "written"} => Trace!ResultsAreWhole'
    <3>1. pc \in {"output", "written"} => Trace!ResultsAreWhole
      BY <1>3 DEF ListsFit
    <3>2. \A q \in DOMAIN results : results[q].data = "nothing" => bg'[results[q].agent] = "failed"
      BY <1>1, <1>6 DEF DataFits
    <3>3. QED
      BY <1>1, <3>1, <3>2, WholeKept
  <2>2. QED
    BY <1>1, <1>3, <1>4, <2>1 DEF ListsFit
<1>8. /\ \A b : (Current(b)' <=> Current(b)) /\ (ToStop(b)' <=> ToStop(b)) /\ (ToCollect(b)' <=> ToCollect(b)) /\ (ToGet(b)' <=> ToGet(b))
  BY <1>1 DEF Current, ToStop, ToCollect, ToGet, Trace!List
<1>9. HeldFit'
  <2>1. SUFFICES ASSUME NEW h \in held' PROVE h[1] \in Everyone /\ (Excused(h)' \/ Due(h)')
    BY <1>4 DEF HeldFit
  <2>2. CASE h[1] = a /\ (bg[a] = "late" \/ bg'[a] = "failed")
    BY <1>1, <1>4, <2>2 DEF Excused
  <2>3. CASE h \in held /\ ~(h[1] = a /\ (bg[a] = "late" \/ bg'[a] = "failed"))
    <3>1. h[1] \in Everyone /\ h[1] \in Trace!Agents /\ h \in Trace!Agents \X Trace!Changes /\ (Excused(h) \/ Due(h))
      BY <1>3, <2>3 DEF HeldFit, Trace!TypeOK
    <3>2. Excused(h) => Excused(h)'
      BY <1>1, <2>3, <3>1, ExcusedKept
    <3>3. ASSUME bg[h[1]] = "thread", Trace!Off(h[2]) \in Elems(work[h[1]]) PROVE bg'[h[1]] = "thread" /\ Trace!Off(h[2]) \in Elems(work'[h[1]])
      <4>1. CASE h[1] # a
        BY <1>1, <3>1, <3>3, <4>1
      <4>2. CASE h[1] = a
        <5>1. h = <<a, h[2]>> /\ bg[a] = "thread" /\ bg'[a] # "failed"
          BY <2>3, <3>1, <3>3, <4>2
        <5>2. QED
          BY <1>2, <2>1, <3>3, <4>2, <5>1
      <4>3. QED
        BY <4>1, <4>2
    <3>4. Due(h) => Due(h)'
      BY <1>1, <1>8, <3>3 DEF Due
    <3>5. QED
      BY <3>1, <3>2, <3>4
  <2>4. QED
    BY <1>1, <2>1, <2>2, <2>3
<1>10. WorkFits'
  <2>1. SUFFICES ASSUME NEW b \in Trace!Agents
                 PROVE  /\ work'[b] # <<>> => b \in Everyone /\ bg'[b] \in {"late", "thread"}
                        /\ bg'[b] = "late" => b \in Out
                        /\ bg'[b] \in {"thread", "failed", "done"} => ~ToCollect(b)
                        /\ bg'[b] = "thread" => \A q \in DOMAIN work'[b] : work'[b][q].do # "on"
    BY <1>4, <1>8 DEF WorkFits
  <2>2. CASE b = a
    BY <1>1, <1>2, <2>2
  <2>3. CASE b # a
    <3>1. work'[b] = work[b] /\ bg'[b] = bg[b]
      BY <1>1, <2>3
    <3>2. QED
      BY <1>3, <3>1 DEF WorkFits
  <2>4. QED
    BY <2>2, <2>3
<1>11. MarkersFit'
  <2>1. ASSUME pc \in {"starting", "capturing", "syncing"} PROVE a \in Out
    BY <1>1, <2>1 DEF ToCollect
  <2>2. ASSUME NEW b \in {"atrace", "battor"}, pc = "starting", Current(b) PROVE b \notin Out
    <3>1. Trace!Running
      BY <2>2 DEF Trace!Running, Current
    <3>2. b = Trace!a0 /\ Trace!a0 \notin Out
      BY <2>2, <3>1, CallFacts DEF Listed
    <3>3. QED
      BY <3>2
  <2>3. ASSUME NEW b \in {"atrace", "battor"}, pc \in {"starting", "capturing", "syncing"}, b \in Elems(child) PROVE b \notin Out
    BY <1>3, <2>3 DEF ListsFit, Handled
  <2>4. ASSUME NEW b \in {"atrace", "battor"}, <<b, "record">> \in held, b # a PROVE <<b, "record">> \in held'
    BY <1>1, <2>4
  <2>5. ASSUME pc = "starting" PROVE \A b \in {"atrace", "battor"} : Current(b) => Trace!On("record") \in Elems(todo) \/ <<b, "record">> \in held'
    BY <1>3, <2>1, <2>2, <2>4, <2>5 DEF MarkersFit
  <2>6. ASSUME pc \in {"starting", "capturing", "syncing"} PROVE \A b \in {"atrace", "battor"} : b \in Elems(child) => <<b, "record">> \in held'
    BY <1>3, <2>1, <2>3, <2>4, <2>6 DEF MarkersFit
  <2>7. QED
    BY <1>1, <1>3, <1>8, <2>5, <2>6 DEF MarkersFit
<1>12. TodoFits'
  BY <1>1, <1>3 DEF TodoFits, Trace!Running, Trace!a0, Trace!List
<1>13. ~(pc = "enable" \/ raised[2] = "enable")
  <2>1. work[a] # <<>>
    BY DEF Trace!Background
  <2>2. QED
    BY <2>1 DEF TraceInv
<1>14. QED
  BY <1>1, <1>5, <1>6, <1>7, <1>9, <1>10, <1>11, <1>12, <1>13 DEF TraceInv, Alive, Trace!List

LEMMA TraceInvInit == Trace!Init => TraceInv
<1> SUFFICES ASSUME Trace!Init PROVE TraceInv
  OBVIOUS
<1>1. /\ scene \in Scenes /\ pc = "enable" /\ i = 0 /\ todo = <<>> /\ held = {} /\ work = [a \in Trace!Agents |-> <<>>]
      /\ bg = [a \in Trace!Agents |-> "none"] /\ child = <<>> /\ succ = <<>> /\ synced = {} /\ results = <<>>
      /\ timedOut = {} /\ raised = <<"none", "none">> /\ atexit = FALSE
  BY DEF Trace!Init
<1>2. DOMAIN <<>> = {} /\ <<>> \in Seq(Trace!Agents) /\ <<>> \in Seq(Found) /\ <<>> \in Seq(Steps)
  OBVIOUS
<1>3. TraceTypes
  <2>1. bg \in [Trace!Agents -> {"none", "late", "thread", "failed", "done"}] /\ atexit \in BOOLEAN
    BY <1>1
  <2>2. \A q \in DOMAIN results : results[q].agent \in Trace!Agents \union {"controller"}
    BY <1>1, <1>2
  <2>3. Trace!TypeOK
    BY <1>1, <2>1, <2>2 DEF Trace!TypeOK
  <2>4. work \in [Trace!Agents -> Seq(Steps)] /\ \A a \in Trace!Agents : work[a] = <<>>
    BY <1>1, <1>2
  <2>5. \A a \in Trace!Agents : \A q \in DOMAIN work[a] : work[a][q].do = "on" => work[a][q].what \in Trace!Changes
    BY <1>2, <2>4
  <2>6. QED
    BY <1>1, <1>2, <2>3, <2>4, <2>5 DEF TraceTypes
<1>4. ListsFit
  <2>1. Elems(child) = {} /\ KeepsOrder(scene.agents, child) /\ KeepsOrder(scene.agents, succ)
    BY <1>1, NoElems
  <2>2. QED
    BY <1>1, <2>1 DEF ListsFit
<1>5. HeldFit /\ MarkersFit
  BY <1>1 DEF HeldFit, MarkersFit
<1>6. WorkFits
  BY <1>1 DEF WorkFits
<1>7. TodoFits /\ DataFits
  BY <1>1, <1>2 DEF TodoFits, DataFits
<1>8. QED
  BY <1>1, <1>3, <1>4, <1>5, <1>6, <1>7 DEF TraceInv

\* Steps of others leave the trace as it is.
LEMMA TraceStutters == TraceInv /\ UNCHANGED traceVars => TraceInv'
<1> SUFFICES ASSUME TraceInv, UNCHANGED traceVars PROVE TraceInv'
  OBVIOUS
<1> USE DEF traceVars, Trace!vars
<1>1. TraceTypes'
  BY DEF TraceInv, TraceTypes, Trace!TypeOK
<1>2. ListsFit'
  <2>1. Everyone' = Everyone /\ Out' = Out /\ Of(results)' = Of(results) /\ (Trace!ResultsAreWhole' <=> Trace!ResultsAreWhole)
    BY DEF Everyone, Out, Of, Trace!ResultsAreWhole, Trace!Before
  <2>2. QED
    BY <2>1 DEF TraceInv, ListsFit
<1>3. HeldFit'
  BY DEF TraceInv, HeldFit, Everyone, Excused, Out, Due, Current, ToStop, ToCollect, ToGet, Trace!List
<1>4. WorkFits'
  BY DEF TraceInv, WorkFits, Everyone, Out, ToCollect
<1>5. MarkersFit'
  BY DEF TraceInv, MarkersFit, Current, Trace!List
<1>6. TodoFits' /\ DataFits'
  BY DEF TraceInv, TodoFits, DataFits, Trace!Running, Trace!a0, Trace!List
<1>7. QED
  BY <1>1, <1>2, <1>3, <1>4, <1>5, <1>6 DEF TraceInv, Alive, Trace!List

LEMMA NotGivenStep == TraceInv /\ NotGiven /\ [Trace!Next]_traceVars => NotGiven'
<1> SUFFICES ASSUME TraceInv, NotGiven, [Trace!Next]_traceVars PROVE NotGiven'
  OBVIOUS
<1> DEFINE ended == {"output", "written", "died", "exited"}
<1>1. ASSUME timedOut' = timedOut, pc \in ended => pc' \in ended PROVE NotGiven'
  BY <1>1 DEF NotGiven, Out
<1>2. CASE UNCHANGED traceVars
  BY <1>1, <1>2 DEF traceVars
<1>3. CASE Trace!Controller
  BY <1>1, <1>3 DEF Trace!Controller, Trace!Dies, NotGiven
<1>4. CASE Trace!Step \/ Trace!Returns \/ Trace!Raises
  BY <1>1, <1>4 DEF Trace!Step, Trace!Returns, Trace!Raises, Trace!Running
<1>5. CASE Trace!TimesOut
  <2>1. timedOut' = timedOut \union {<<Trace!a0, pc>>} /\ Trace!Running /\ pc \notin ended
    BY <1>5 DEF Trace!TimesOut, Trace!Gives, Trace!Running
  <2>2. Trace!a0 # "controller"
    BY <2>1, CallFacts DEF Listed, Trace!Agents
  <2>3. \A x \in timedOut' : x \in timedOut \/ x[1] = Trace!a0
    BY <2>1
  <2>4. QED
    BY <2>1, <2>2, <2>3 DEF NotGiven, Out
<1>6. CASE Trace!NextPhase
  BY <1>1, <1>6 DEF Trace!NextPhase
<1>7. CASE Trace!ControllerResult
  BY <1>7 DEF Trace!ControllerResult, Trace!Enter, Trace!Dies, NotGiven
<1>8. CASE \E a \in Trace!Agents : Trace!Background(a)
  BY <1>1, <1>8 DEF Trace!Background, Trace!rest
<1>9. CASE Trace!Output \/ Trace!Exit
  BY <1>1, <1>9 DEF Trace!Output, Trace!Exit, Trace!Dies, Trace!rest
<1>10. QED
  BY <1>2, <1>3, <1>4, <1>5, <1>6, <1>7, <1>8, <1>9 DEF Trace!Next

LEMMA TraceInvStep == TraceInv /\ NotGiven /\ [Trace!Next]_traceVars => TraceInv'
<1> SUFFICES ASSUME TraceInv, NotGiven, [Trace!Next]_traceVars PROVE TraceInv'
  OBVIOUS
<1>1. CASE UNCHANGED traceVars
  BY <1>1, TraceStutters
<1>2. CASE Trace!Controller
  BY <1>2, ControllerKeeps
<1>3. CASE Trace!Step
  BY <1>3, StepKeeps
<1>4. CASE Trace!Returns
  BY <1>4, ReturnsKeeps
<1>5. CASE Trace!TimesOut
  BY <1>5, TimesOutKeeps
<1>6. CASE Trace!Raises
  BY <1>6, RaisesKeeps
<1>7. CASE Trace!NextPhase
  BY <1>7, NextPhaseKeeps
<1>8. CASE \E a \in Trace!Agents : Trace!Background(a)
  BY <1>8, BackgroundKeeps
<1>9. CASE Trace!Output
  BY <1>9, OutputKeeps
<1>10. CASE Trace!Exit
  BY <1>10, ExitKeeps
<1>11. CASE Trace!ControllerResult
  BY <1>11, ControllerResultKeeps
<1>12. QED
  BY <1>1, <1>2, <1>3, <1>4, <1>5, <1>6, <1>7, <1>8, <1>9, <1>10, <1>11 DEF Trace!Next

\* What the invariant says of the trace.
LEMMA TraceInvImplies == TraceInv => Trace!LeftIsExplained /\ Trace!ResultsAreWhole /\ Trace!MarkersAreInside
<1> SUFFICES ASSUME TraceInv PROVE Trace!LeftIsExplained /\ Trace!ResultsAreWhole /\ Trace!MarkersAreInside
  OBVIOUS
<1>1. Trace!TypeOK /\ ListsFit /\ HeldFit /\ MarkersFit
  BY DEF TraceInv, TraceTypes
<1>2. ASSUME pc = "exited", NEW h \in held
      PROVE  \/ \E x \in timedOut : x[1] = h[1]
             \/ bg[h[1]] = "failed" \/ raised[1] = h[1] \/ raised[2] \in {"starting", "syncing", "stopping", "disable"}
             \/ raised[2] = "getting" /\ raised[1] # "controller" /\ \E q \in DOMAIN Trace!Plan[h[1]].getting : Trace!Plan[h[1]].getting[q] = Trace!Off(h[2])
  <2>1. h[1] \in Trace!Agents /\ (Excused(h) \/ Due(h))
    BY <1>1, <1>2 DEF HeldFit, Trace!TypeOK
  <2>2. ~Due(h)
    <3>1. bg[h[1]] # "thread"
      BY <1>2, <2>1 DEF TraceInv
    <3>2. QED
      BY <1>2, <3>1 DEF Due, Current, ToStop, ToCollect, ToGet
  <2>3. h[1] \in Out => \E x \in timedOut : x[1] = h[1]
    BY DEF Out
  <2>4. Trace!Off(h[2]) \in Elems(Trace!Plan[h[1]]["getting"]) => \E q \in DOMAIN Trace!Plan[h[1]].getting : Trace!Plan[h[1]].getting[q] = Trace!Off(h[2])
    BY DEF Elems
  <2>5. QED
    BY <2>1, <2>2, <2>3, <2>4 DEF Excused
<1>3. Trace!LeftIsExplained
  BY <1>2 DEF Trace!LeftIsExplained
<1>4. Trace!ResultsAreWhole
  BY <1>1 DEF ListsFit, Trace!ResultsAreWhole
<1>5. Trace!MarkersAreInside
  <2>1. ASSUME pc \in {"output", "written"}, NEW q \in DOMAIN results, results[q].agent \in Trace!SyncAgents PROVE results[q].agent \in synced
    <3>1. Everyone \ Out \subseteq Elems(child) /\ Elems(child) \intersect Trace!SyncAgents \subseteq synced
      BY <1>1, <2>1 DEF ListsFit, MarkersFit
    <3>2. results[q].agent \in (Everyone \union {"controller"}) \ Out
      BY <1>4, <2>1 DEF Trace!ResultsAreWhole, Everyone, Elems, Out
    <3>3. results[q].agent # "controller"
      BY <2>1 DEF Trace!SyncAgents, Trace!Agents
    <3>4. QED
      BY <2>1, <3>1, <3>2, <3>3
  <2>2. ASSUME pc = "syncing", NEW a \in {"atrace", "battor"}, \E q \in DOMAIN child : child[q] = a PROVE <<a, "record">> \in held
    <3>1. a \in Elems(child)
      BY <2>2 DEF Elems
    <3>2. QED
      BY <1>1, <2>2, <3>1 DEF MarkersFit
  <2>3. QED
    BY <2>1, <2>2 DEF Trace!MarkersAreInside
<1>6. QED
  BY <1>3, <1>4, <1>5

-----------------------------------------------------------------------------
(* The parts together *)

\* A step of the composition is a step of each part or leaves that part alone.
LEMMA PartsStep ==
  ASSUME [Next]_vars
  PROVE  /\ [Trace!Next]_traceVars
         /\ [Agent!Next]_agentVars
         /\ [Plugs!Next]_plugVars
         /\ [Log!Next]_logVars
         /\ [Update!Next]_updateVars
         /\ [Fetch!Next]_fetchVars
         /\ [Lookup!Next]_lookupVars
         /\ [Cache!Next]_cacheVars
BY DEF Next, vars

\* The invariant of the trace holds in every behaviour.
LEMMA TraceAlways == Spec => []TraceInv
<1>1. Init => TraceInv /\ NotGiven
  <2>1. Init => Trace!Init
    BY DEF Init
  <2>2. Init => NotGiven
    BY <2>1 DEF Trace!Init, NotGiven, Out
  <2>3. QED
    BY <2>1, <2>2, TraceInvInit
<1>2. TraceInv /\ NotGiven /\ [Next]_vars => (TraceInv /\ NotGiven)'
  BY PartsStep, TraceInvStep, NotGivenStep
<1>3. QED
  BY <1>1, <1>2, PTL DEF Spec

\* The invariant of the BattOr's shell holds in every behaviour.
LEMMA AgentAlways == Spec => []AgentInv
<1>1. Init => AgentInv
  <2>1. Init => Agent!Init
    BY DEF Init
  <2>2. QED
    BY <2>1, AgentInvInit
<1>2. AgentInv /\ [Next]_vars => AgentInv'
  BY PartsStep, AgentInvStep
<1>3. QED
  BY <1>1, <1>2, PTL DEF Spec

\* The invariant of the map of the BattOrs holds in every behaviour.
LEMMA PlugsAlways == Spec => []PlugsInv
<1>1. Init => PlugsInv
  <2>1. Init => Plugs!Init
    BY DEF Init
  <2>2. QED
    BY <2>1, PlugsInvInit
<1>2. PlugsInv /\ [Next]_vars => PlugsInv'
  BY PartsStep, PlugsInvStep
<1>3. QED
  BY <1>1, <1>2, PTL DEF Spec

\* The invariant of the trace log holds in every behaviour.
LEMMA LogAlways == Spec => []LogInv
<1>1. Init => LogInv
  <2>1. Init => Log!Init
    BY DEF Init
  <2>2. QED
    BY <2>1, LogInvInit
<1>2. LogInv /\ [Next]_vars => LogInv'
  BY PartsStep, LogInvStep
<1>3. QED
  BY <1>1, <1>2, PTL DEF Spec

\* The invariant of the update holds in every behaviour.
LEMMA UpdateAlways == Spec => []UpdateInv
<1>1. Init => UpdateInv
  <2>1. Init => Update!Init
    BY DEF Init
  <2>2. QED
    BY <2>1, UpdateInvInit
<1>2. UpdateInv /\ [Next]_vars => UpdateInv'
  BY PartsStep, UpdateInvStep
<1>3. QED
  BY <1>1, <1>2, PTL DEF Spec

\* The invariant of the fetches holds in every behaviour.
LEMMA FetchAlways == Spec => []FetchInv
<1>1. Init => FetchInv
  <2>1. Init => Fetch!Init
    BY DEF Init
  <2>2. QED
    BY <2>1, FetchInit, ToolsAssumption
<1>2. FetchInv /\ [Next]_vars => FetchInv'
  BY PartsStep, FetchStep, ToolsAssumption
<1>3. QED
  BY <1>1, <1>2, PTL DEF Spec

\* The invariant of the lookup holds in every behaviour.
LEMMA LookupAlways == Spec => []LookupInv
<1>1. Init => LookupInv
  <2>1. Init => Lookup!Init
    BY DEF Init
  <2>2. QED
    BY <2>1, LookupInvInit
<1>2. LookupInv /\ [Next]_vars => LookupInv'
  BY PartsStep, LookupInvStep
<1>3. QED
  BY <1>1, <1>2, PTL DEF Spec

\* The invariant of the caches holds in every behaviour.
LEMMA CacheAlways == Spec => []CacheInv
<1>1. Init => CacheInv
  <2>1. Init => Cache!Init
    BY DEF Init
  <2>2. QED
    BY <2>1, CacheInit, ToolsAssumption
<1>2. CacheInv /\ [Next]_vars => CacheInv'
  BY PartsStep, CacheStep, ToolsAssumption
<1>3. QED
  BY <1>1, <1>2, PTL DEF Spec

\* What a trace leaves changed on a device has a failed call behind it, or an exception that came before the change was undone; the results
\* are of exactly the agents that answered in time, in their order and whole, and have their markers, for any lists of agents and any number of
\* timeouts (tracing_controller.py, the agents).
THEOREM TracesStaySound == Spec => []TraceIsSound
<1>1. TraceInv => TraceIsSound
  BY TraceInvImplies DEF TraceIsSound
<1>2. QED
  BY <1>1, TraceAlways, PTL

\* No agent process outlives its wrapper, traces are recorded by the new firmware, and the line found for a phone is of its own
\* BattOr unless something was replugged meanwhile, for any devices and ports (battor_wrapper.py, battor_device_mapping.py).
THEOREM BattOrsStaySound == Spec => []BattOrIsSound
<1>1. AgentInv /\ PlugsInv => BattOrIsSound
  BY AgentInvImplies, PlugsInvImplies DEF BattOrIsSound
<1>2. QED
  BY <1>1, AgentAlways, PlugsAlways, PTL

\* The trace log is a list with every event once, but for the events and the writes around a fork and the threads that write
\* at once (log.py, multiprocessing_shim.py).
THEOREM LogStaysSound == Spec => []LogIsSound
<1>1. LogInv => LogIsSound
  BY LogInvImplies DEF LogIsSound
<1>2. QED
  BY <1>1, LogAlways, PTL

\* A lookup gives the best file that two configs list, for any groups of any length, cloud storage only where no listed file is there,
\* and the unversioned platform only where the versioned one has neither (dependency_info.py, local_path_info.py, dependency_manager.py,
\* binary_manager.py).
THEOREM LookupStaysBest == Spec => []LookupIsBest
<1>1. LookupInv => LookupIsBest
  BY LookupInvImplies DEF LookupIsBest
<1>2. QED
  BY <1>1, LookupAlways, PTL

\* Whatever fails, ends or is rolled back: a config names only files that can be downloaded, a fetch gives the whole tree, and what a
\* session remembers of a device is so, as long as no two writers, callers outside the lock or sessions overlap, no interrupt hits an
\* update after its config is written, no removal of stale trees ends halfway, and no cache is loaded after a change or passed by
\* (base_config.py, archive_info.py, dependency_manager_util.py, device_utils.py).
THEOREM StoresStaySound == Spec => []StoresAreSound
<1>1. UpdateInv /\ FetchInv /\ CacheInv => StoresAreSound
  BY UpdateInvImplies, FetchInvImplies, CacheInvImplies DEF StoresAreSound
<1>2. QED
  BY <1>1, UpdateAlways, FetchAlways, CacheAlways, PTL

\* The types of the BattOr's shell hold in every behaviour.
LEMMA AgentTypesAlways == Spec => []AgentTypes
<1>1. Init => AgentTypes
  <2>1. Init => Agent!Init
    BY DEF Init
  <2>2. QED
    BY <2>1, AgentTypesInit
<1>2. AgentTypes /\ [Next]_vars => AgentTypes'
  BY PartsStep, AgentTypesStep
<1>3. QED
  BY <1>1, <1>2, PTL DEF Spec

\* The types of the map of the BattOrs hold in every behaviour.
LEMMA PlugsTypesAlways == Spec => []PlugsTypes
<1>1. Init => PlugsTypes
  <2>1. Init => Plugs!Init
    BY DEF Init
  <2>2. QED
    BY <2>1, PlugsTypesInit
<1>2. PlugsTypes /\ [Next]_vars => PlugsTypes'
  BY PartsStep, PlugsTypesStep
<1>3. QED
  BY <1>1, <1>2, PTL DEF Spec

\* The bounds of the trace log hold in every behaviour.
LEMMA LogBoundsAlways == Spec => []LogBounds
<1>1. Init => LogBounds
  <2>1. Init => Log!Init
    BY DEF Init
  <2>2. QED
    BY <2>1, LogBoundsInit
<1>2. LogInv /\ LogBounds /\ [Next]_vars => LogBounds'
  BY PartsStep, LogBoundsStep
<1>3. QED
  BY <1>1, <1>2, LogAlways, PTL DEF Spec

\* The bounds of the update hold in every behaviour.
LEMMA UpdateBoundsAlways == Spec => []UpdateBounds
<1>1. Init => UpdateBounds
  <2>1. Init => Update!Init
    BY DEF Init
  <2>2. QED
    BY <2>1, UpdateBoundsInit
<1>2. UpdateInv /\ UpdateBounds /\ [Next]_vars => UpdateBounds'
  BY PartsStep, UpdateBoundsStep
<1>3. QED
  BY <1>1, <1>2, UpdateAlways, PTL DEF Spec

\* The bounds of the fetches hold in every behaviour.
LEMMA FetchBoundsAlways == Spec => []FetchBounds
<1>1. Init => FetchBounds
  <2>1. Init => Fetch!Init
    BY DEF Init
  <2>2. QED
    BY <2>1, FetchBoundsInit
<1>2. FetchInv /\ FetchBounds /\ [Next]_vars => FetchBounds'
  BY PartsStep, FetchBoundsStep
<1>3. QED
  BY <1>1, <1>2, FetchAlways, PTL DEF Spec

\* The answers of the lookup have their types in every behaviour.
LEMMA LookupAnswersAlways == Spec => []LookupAnswers
<1>1. Init => LookupAnswers
  <2>1. Init => Lookup!Init
    BY DEF Init
  <2>2. QED
    BY <2>1, LookupAnswersInit
<1>2. LookupInv /\ LookupAnswers /\ [Next]_vars => LookupAnswers'
  BY PartsStep, LookupAnswersStep
<1>3. QED
  BY <1>1, <1>2, LookupAlways, PTL DEF Spec

\* Whatever part runs, its variables have their types: what may be done a bounded number of times is done no more often, and what is
\* looked up, fetched, listed or recorded is of the declared kinds.
THEOREM ToolsTypesHold == Spec => []TypesHold
<1>1. TraceInv /\ AgentTypes /\ PlugsTypes /\ LogInv /\ LogBounds /\ UpdateInv /\ UpdateBounds /\ FetchInv /\ FetchBounds
      /\ LookupInv /\ LookupAnswers /\ CacheInv => TypesHold
  BY LogTypesHold, UpdateTypesHold, FetchTypesHold, LookupTypesHold DEF TypesHold, TraceInv, TraceTypes, AgentTypes, PlugsTypes, CacheInv
<1>2. QED
  BY <1>1, TraceAlways, AgentTypesAlways, PlugsTypesAlways, LogAlways, LogBoundsAlways, UpdateAlways, UpdateBoundsAlways, FetchAlways,
     FetchBoundsAlways, LookupAlways, LookupAnswersAlways, CacheAlways, PTL
=============================================================================
