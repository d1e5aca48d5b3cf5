----------------------------- MODULE ForwarderProofs -----------------------------
(***************************************************************************)
(* Theorems about Forwarder, for any processes, groups, devices and ports: *)
(* the two tables of a process agree but for host ports that were mapped   *)
(* twice, and the tables and the daemon of the host agree but for what     *)
(* was taken away, or a call that failed left behind.                      *)
(***************************************************************************)
EXTENDS Forwarder, TLAPS

\* The functions from a part of A to B.
Partial(A, B) == UNION {[S -> B] : S \in SUBSET A}

\* The tables are dictionaries.
TablesAreFunctions == d2h \in [Proc -> Partial(Remote, HostPort)] /\ h2d \in [Proc -> Partial(HostPort, Remote)]

\* All but the types of the tables, which follow from TablesAreFunctions.
RestTypes ==
  /\ leader \in [Proc -> Group] /\ pid \in Group \cup {NoOne}
  /\ holder \in Proc \cup {NoOne} /\ target \in Device \cup {NoOne} /\ (holder = NoOne <=> target = NoOne)
  /\ server \subseteq Forward /\ running \subseteq Device
  /\ instance \subseteq Proc /\ ready \in [Proc -> SUBSET Device]
  /\ doubled \subseteq Proc \X HostPort /\ disturbed \subseteq Proc /\ leaked \subseteq Remote

\* The tables of p agree.
AgreeIn(p) ==
  \A h \in HostPort : <<p, h>> \notin doubled =>
    /\ h \in DOMAIN h2d[p] => h2d[p][h] \in DOMAIN d2h[p] /\ d2h[p][h2d[p][h]] = h
    /\ \A r \in DOMAIN d2h[p] : d2h[p][r] = h => h \in DOMAIN h2d[p] /\ h2d[p][h] = r

ForwarderInv == RestTypes /\ TablesAreFunctions /\ (\A p \in Proc : AgreeIn(p)) /\ TablesMatchDaemon

-----------------------------------------------------------------------------
(* Dictionaries *)

\* What a dictionary has for keys and values.
LEMMA PartialTypes ==
  ASSUME NEW A, NEW B, NEW f \in Partial(A, B)
  PROVE  DOMAIN f \subseteq A /\ Range(f) \subseteq B /\ \A x \in DOMAIN f : f[x] \in B
BY DEF Partial, Range

\* Deleting keys leaves the others as they are.
LEMMA WithoutKeeps ==
  ASSUME NEW A, NEW B, NEW f \in Partial(A, B), NEW ks
  PROVE  /\ Without(f, ks) \in Partial(A, B) /\ DOMAIN Without(f, ks) = DOMAIN f \ ks
         /\ \A x \in DOMAIN f \ ks : Without(f, ks)[x] = f[x]
<1>1. DOMAIN f \ ks \subseteq A /\ \A x \in DOMAIN f : f[x] \in B
  BY PartialTypes
<1>2. Without(f, ks) \in [DOMAIN f \ ks -> B]
  BY <1>1 DEF Without, Restrict
<1>3. QED
  BY <1>1, <1>2 DEF Without, Restrict, Partial

\* An entry is added, or replaces the one of its key.
LEMMA WithAdds ==
  ASSUME NEW A, NEW B, NEW f \in Partial(A, B), NEW a \in A, NEW b \in B
  PROVE  /\ With(f, a, b) \in Partial(A, B) /\ DOMAIN With(f, a, b) = DOMAIN f \cup {a}
         /\ \A x \in DOMAIN f \cup {a} : With(f, a, b)[x] = IF x = a THEN b ELSE f[x]
<1>1. DOMAIN f \cup {a} \subseteq A /\ \A x \in DOMAIN f : f[x] \in B
  BY PartialTypes
<1>2. With(f, a, b) \in [DOMAIN f \cup {a} -> B]
  BY <1>1 DEF With
<1>3. QED
  BY <1>1, <1>2 DEF With, Partial

\* The empty dictionary.
LEMMA EmptyIsPartial ==
  ASSUME NEW A, NEW B
  PROVE  Empty \in Partial(A, B) /\ DOMAIN Empty = {}
BY DEF Empty, Partial

\* The invariant states the types and the agreement of the tables.
LEMMA InvariantAgrees ==
  ASSUME ForwarderInv
  PROVE  TablesAgree
<1>1. \A p \in Proc : d2h[p] \in Partial(Remote, HostPort) /\ h2d[p] \in Partial(HostPort, Remote)
  BY DEF ForwarderInv, TablesAreFunctions
<1>2. TypeOK
  BY <1>1, PartialTypes DEF ForwarderInv, RestTypes, TypeOK
<1>3. QED
  BY <1>2 DEF ForwarderInv, AgreeIn, TablesAgree

\* Forwards that vanish with all others of their ports leave tables and daemon in agreement.
LEMMA VanishKeeps ==
  ASSUME RestTypes, TablesMatchDaemon, NEW f, Vanish(f), UNCHANGED tables,
         \A g \in server \ f, x \in f : g[1] # x[1]
  PROVE  TablesMatchDaemon' /\ server' \subseteq Forward /\ disturbed' \subseteq Proc /\ leaked' \subseteq Remote
<1>1. \A p \in Proc : Entries(p)' = Entries(p)
  BY DEF tables, Entries
<1>2. \A p \in Proc \ disturbed' : Entries(p) \subseteq server'
  BY DEF Vanish, TablesMatchDaemon
<1>3. \A g \in server' : g[1] \in leaked' \/ \E p \in Proc : g \in Entries(p)
  BY DEF Vanish, TablesMatchDaemon
<1>4. TablesMatchDaemon'
  BY <1>1, <1>2, <1>3 DEF TablesMatchDaemon
<1>5. QED
  BY <1>4 DEF Vanish, RestTypes

\* All forwards, and all of a device, vanish with all others of their ports.
LEMMA WholeDevices ==
  ASSUME RestTypes
  PROVE  /\ \A g \in server \ server, x \in server : g[1] # x[1]
         /\ \A d \in Device : \A g \in server \ Of(d), x \in Of(d) : g[1] # x[1]
BY DEF RestTypes, Of

\* What the actions that leave the tables alone have in common.
LEMMA SameTables ==
  ASSUME ForwarderInv, RestTypes', TablesMatchDaemon', UNCHANGED <<tables, doubled>>
  PROVE  ForwarderInv'
BY DEF ForwarderInv, TablesAreFunctions, tables, AgreeIn

-----------------------------------------------------------------------------
(* The actions that leave the tables alone *)

\* A device whose daemon dies loses its forwards.
LEMMA DeviceDiesStep ==
  ASSUME ForwarderInv, UNCHANGED leader, NEW d \in Device, DeviceDies(d)
  PROVE  ForwarderInv'
<1>1. TablesMatchDaemon' /\ server' \subseteq Forward /\ disturbed' \subseteq Proc /\ leaked' \subseteq Remote
  BY VanishKeeps, WholeDevices DEF ForwarderInv, DeviceDies
<1>2. RestTypes' /\ UNCHANGED <<tables, doubled>>
  BY <1>1 DEF ForwarderInv, DeviceDies, RestTypes, lock
<1>3. QED
  BY <1>1, <1>2, SameTables

\* Steps that touch neither a table nor a daemon.
LEMMA QuietStep ==
  ASSUME ForwarderInv, UNCHANGED leader, NEW p \in Proc,
         \/ GetInstance(p) \/ MapEnds(p) \/ MapRefused(p) \/ KillHost(p)
         \/ \E d \in Device : MapBegins(p, d) \/ InitDeviceFails(p, d) \/ KillDevice(p, d) \/ UnmapAllFails(p, d)
         \/ \E h \in HostPort : MapTimesOut(p, h)
  PROVE  ForwarderInv'
<1> USE DEF ForwarderInv
<1>1. ASSUME NothingVanishes, UNCHANGED tables
      PROVE  TablesMatchDaemon' /\ server' \subseteq Forward /\ disturbed' \subseteq Proc /\ leaked' \subseteq Remote
  BY <1>1 DEF NothingVanishes, tables, TablesMatchDaemon, Entries, RestTypes
<1>2. ASSUME NEW d \in Device, Vanish(Of(d)) \/ Vanish(server) \/ NothingVanishes, UNCHANGED tables
      PROVE  TablesMatchDaemon' /\ server' \subseteq Forward /\ disturbed' \subseteq Proc /\ leaked' \subseteq Remote
  BY <1>1, <1>2, VanishKeeps, WholeDevices
<1>3. ASSUME Vanish(server), UNCHANGED tables
      PROVE  TablesMatchDaemon' /\ server' \subseteq Forward /\ disturbed' \subseteq Proc /\ leaked' \subseteq Remote
  BY <1>3, VanishKeeps, WholeDevices
<1>4. ASSUME GetInstance(p) PROVE ForwarderInv'
  <2>1. TablesMatchDaemon' /\ server' \subseteq Forward /\ disturbed' \subseteq Proc /\ leaked' \subseteq Remote
    BY <1>1, <1>3, <1>4 DEF GetInstance
  <2>2. RestTypes' /\ UNCHANGED <<tables, doubled>>
    BY <1>4, <2>1 DEF GetInstance, RestTypes, lock
  <2>3. QED
    BY <2>1, <2>2, SameTables
<1>5. ASSUME MapEnds(p) PROVE ForwarderInv'
  <2>1. TablesMatchDaemon' /\ server' \subseteq Forward /\ disturbed' \subseteq Proc /\ leaked' \subseteq Remote
    BY <1>1, <1>5 DEF MapEnds
  <2>2. RestTypes' /\ UNCHANGED <<tables, doubled>>
    BY <1>5, <2>1 DEF MapEnds, RestTypes, Release
  <2>3. QED
    BY <2>1, <2>2, SameTables
<1>6. ASSUME NEW d \in Device, KillDaemon(p, d), UNCHANGED tables
      PROVE  /\ TablesMatchDaemon' /\ server' \subseteq Forward /\ disturbed' \subseteq Proc /\ leaked' \subseteq Remote
             /\ ready' \in [Proc -> SUBSET Device] /\ running' \subseteq Device
  BY <1>2, <1>6 DEF KillDaemon, RestTypes
<1>7. ASSUME MapRefused(p) PROVE ForwarderInv'
  <2>1. target \in Device
    BY <1>7, ForwarderAssumption DEF MapRefused, RestTypes
  <2>2. KillDaemon(p, target) /\ UNCHANGED <<tables, doubled, pid, instance>> /\ Release
    BY <1>7 DEF MapRefused
  <2>3. RestTypes' /\ TablesMatchDaemon'
    BY <1>6, <2>1, <2>2 DEF RestTypes, Release
  <2>4. QED
    BY <2>2, <2>3, SameTables
<1>8. ASSUME KillHost(p) PROVE ForwarderInv'
  <2>1. TablesMatchDaemon' /\ server' \subseteq Forward /\ disturbed' \subseteq Proc /\ leaked' \subseteq Remote
    BY <1>3, <1>8 DEF KillHost
  <2>2. RestTypes' /\ UNCHANGED <<tables, doubled>>
    BY <1>8, <2>1 DEF KillHost, RestTypes, lock
  <2>3. QED
    BY <2>1, <2>2, SameTables
<1>9. ASSUME NEW d \in Device, MapBegins(p, d) PROVE ForwarderInv'
  <2>1. TablesMatchDaemon' /\ server' \subseteq Forward /\ disturbed' \subseteq Proc /\ leaked' \subseteq Remote
    BY <1>2, <1>9 DEF MapBegins
  <2>2. RestTypes' /\ UNCHANGED <<tables, doubled>>
    BY <1>9, <2>1, ForwarderAssumption DEF MapBegins, RestTypes
  <2>3. QED
    BY <2>1, <2>2, SameTables
<1>10. ASSUME NEW d \in Device, InitDeviceFails(p, d) PROVE ForwarderInv'
  <2>1. TablesMatchDaemon' /\ server' \subseteq Forward /\ disturbed' \subseteq Proc /\ leaked' \subseteq Remote
    BY <1>2, <1>10 DEF InitDeviceFails
  <2>2. RestTypes' /\ UNCHANGED <<tables, doubled>>
    BY <1>10, <2>1 DEF InitDeviceFails, RestTypes, lock
  <2>3. QED
    BY <2>1, <2>2, SameTables
<1>11. ASSUME NEW d \in Device, KillDevice(p, d) PROVE ForwarderInv'
  <2>1. KillDaemon(p, d) /\ UNCHANGED <<tables, doubled, pid, instance, lock>>
    BY <1>11 DEF KillDevice
  <2>2. RestTypes' /\ TablesMatchDaemon'
    BY <1>6, <2>1 DEF RestTypes, lock
  <2>3. QED
    BY <2>1, <2>2, SameTables
<1>12. ASSUME NEW h \in HostPort, MapTimesOut(p, h) PROVE ForwarderInv'
  <2>1. target \in Device
    BY <1>12, ForwarderAssumption DEF MapTimesOut, RestTypes
  <2>2. PICK n \in Port : server' = server \cup {<<<<target, n>>, h>>} /\ leaked' = leaked \cup {<<target, n>>}
    BY <1>12 DEF MapTimesOut, Accepted
  <2>3. UNCHANGED <<pid, running, instance, ready, tables, doubled, disturbed>> /\ Release
    BY <1>12 DEF MapTimesOut
  <2>4. RestTypes'
    BY <2>1, <2>2, <2>3 DEF RestTypes, Release, Forward, Remote
  <2>5. \A q \in Proc : Entries(q)' = Entries(q)
    BY <2>3 DEF Entries, tables
  <2>6. TablesMatchDaemon'
    BY <2>2, <2>3, <2>5 DEF TablesMatchDaemon
  <2>7. QED
    BY <2>3, <2>4, <2>6, SameTables
<1>13. ASSUME NEW d \in Device, UnmapAllFails(p, d) PROVE ForwarderInv'
  <2>1. TablesMatchDaemon' /\ server' \subseteq Forward /\ disturbed' \subseteq Proc /\ leaked' \subseteq Remote
    BY <1>2, <1>13 DEF UnmapAllFails
  <2>2. RestTypes' /\ UNCHANGED <<tables, doubled>>
    BY <1>13, <2>1 DEF UnmapAllFails, RestTypes, lock
  <2>3. QED
    BY <2>1, <2>2, SameTables
<1>14. QED
  BY <1>4, <1>5, <1>7, <1>8, <1>9, <1>10, <1>11, <1>12, <1>13

-----------------------------------------------------------------------------
(* The actions that change the tables *)

\* What an action changes in the tables of one process leaves those of the others alone.
LEMMA OthersAgree ==
  ASSUME ForwarderInv, NEW p \in Proc, NEW f \in Partial(Remote, HostPort), NEW g \in Partial(HostPort, Remote),
         d2h' = [d2h EXCEPT ![p] = f], h2d' = [h2d EXCEPT ![p] = g],
         \A q \in Proc \ {p}, h \in HostPort : <<q, h>> \in doubled => <<q, h>> \in doubled'
  PROVE  /\ TablesAreFunctions' /\ d2h'[p] = f /\ h2d'[p] = g
         /\ \A q \in Proc \ {p} : AgreeIn(q)' /\ d2h'[q] = d2h[q] /\ Entries(q)' = Entries(q)
<1>1. TablesAreFunctions' /\ d2h'[p] = f /\ h2d'[p] = g
  BY DEF ForwarderInv, TablesAreFunctions
<1>2. \A q \in Proc \ {p} : d2h'[q] = d2h[q] /\ h2d'[q] = h2d[q]
  BY DEF ForwarderInv, TablesAreFunctions
<1>3. \A q \in Proc \ {p} : AgreeIn(q)'
  BY <1>2 DEF ForwarderInv, AgreeIn
<1>4. \A q \in Proc \ {p} : Entries(q)' = Entries(q)
  BY <1>2 DEF Entries
<1>5. QED
  BY <1>1, <1>2, <1>3, <1>4

\* Mapping a pair adds it to both tables and to the daemon, or names the cause.
LEMMA MapPairStep ==
  ASSUME ForwarderInv, UNCHANGED leader, NEW p \in Proc, NEW h \in HostPort, MapPair(p, h)
  PROVE  ForwarderInv'
<1> USE DEF ForwarderInv
<1>1. target \in Device
  BY ForwarderAssumption DEF MapPair, RestTypes
<1>2. PICK n \in Port : /\ n \in Accepted(target) /\ server' = server \cup {<<<<target, n>>, h>>}
                        /\ Record(p, <<target, n>>, h) /\ doubled' = doubled \cup Doubled(p, <<target, n>>, h)
  BY DEF MapPair, Accepted
<1> DEFINE r == <<target, n>>
           f == With(d2h[p], r, h)
           g == With(h2d[p], h, r)
<1>3. r \in Remote /\ \A x \in server : x[1] # r
  BY <1>1, <1>2 DEF Remote, Accepted
<1>4. d2h[p] \in Partial(Remote, HostPort) /\ h2d[p] \in Partial(HostPort, Remote)
  BY DEF TablesAreFunctions
<1>5. /\ f \in Partial(Remote, HostPort) /\ DOMAIN f = DOMAIN d2h[p] \cup {r}
      /\ \A x \in DOMAIN d2h[p] \cup {r} : f[x] = IF x = r THEN h ELSE d2h[p][x]
  <2>1. f \in Partial(Remote, HostPort)
    <3> HIDE DEF r
    <3>1. QED
      BY <1>3, <1>4, WithAdds
  <2>2. QED
    BY <2>1 DEF With
<1>6. /\ g \in Partial(HostPort, Remote) /\ DOMAIN g = DOMAIN h2d[p] \cup {h}
      /\ \A x \in DOMAIN h2d[p] \cup {h} : g[x] = IF x = h THEN r ELSE h2d[p][x]
  <2>1. g \in Partial(HostPort, Remote)
    <3> HIDE DEF r
    <3>1. QED
      BY <1>3, <1>4, WithAdds
  <2>2. QED
    BY <2>1 DEF With
<1>7. d2h' = [d2h EXCEPT ![p] = f] /\ h2d' = [h2d EXCEPT ![p] = g]
  BY <1>2 DEF Record
<1>8. DOMAIN d2h[p] \subseteq Remote /\ \A x \in DOMAIN d2h[p] : d2h[p][x] \in HostPort
  BY <1>4, PartialTypes
<1>9. doubled' \subseteq Proc \X HostPort /\ doubled \subseteq doubled'
  BY <1>2, <1>8 DEF RestTypes, Doubled, Range
<1>10. /\ TablesAreFunctions' /\ d2h'[p] = f /\ h2d'[p] = g
       /\ \A q \in Proc \ {p} : AgreeIn(q)' /\ d2h'[q] = d2h[q] /\ Entries(q)' = Entries(q)
  BY <1>5, <1>6, <1>7, <1>9, OthersAgree
<1>11. AgreeIn(p)'
  <2>1. ASSUME NEW y \in HostPort, <<p, y>> \notin doubled'
        PROVE  /\ y \in DOMAIN g => g[y] \in DOMAIN f /\ f[g[y]] = y
               /\ \A x \in DOMAIN f : f[x] = y => y \in DOMAIN g /\ g[y] = x
    <3>1. <<p, y>> \notin doubled /\ <<p, y>> \notin Doubled(p, r, h)
      BY <1>2, <2>1
    <3>2. (r \in DOMAIN d2h[p] => d2h[p][r] # y) /\ (y = h => \A x \in DOMAIN d2h[p] : d2h[p][x] # h)
      BY <3>1 DEF Doubled, Range
    <3>3. /\ y \in DOMAIN h2d[p] => h2d[p][y] \in DOMAIN d2h[p] /\ d2h[p][h2d[p][y]] = y
          /\ \A x \in DOMAIN d2h[p] : d2h[p][x] = y => y \in DOMAIN h2d[p] /\ h2d[p][y] = x
      BY <3>1 DEF AgreeIn
    <3>4. QED
      BY <1>5, <1>6, <3>2, <3>3
  <2>2. QED
    BY <1>10, <2>1 DEF AgreeIn
<1>12. RestTypes'
  BY <1>1, <1>2, <1>3, <1>9 DEF MapPair, RestTypes, Forward, lock
<1>13. TablesMatchDaemon'
  <2>1. disturbed' = disturbed /\ leaked' = leaked
    BY DEF MapPair
  <2>2. Entries(p)' = {<<x, f[x]>> : x \in DOMAIN f}
    BY <1>10 DEF Entries
  <2>3. \A x \in Entries(p) : x[1] # r => x \in Entries(p)'
    BY <1>5, <2>2 DEF Entries
  <2>4. <<r, h>> \in Entries(p)' /\ \A x \in Entries(p)' : x \in Entries(p) \/ x = <<r, h>>
    BY <1>5, <2>2 DEF Entries
  <2>5. \A q \in Proc \ disturbed' : Entries(q)' \subseteq server'
    BY <1>2, <1>10, <2>1, <2>4 DEF TablesMatchDaemon
  <2>6. \A x \in server' : x[1] \in leaked' \/ \E q \in Proc : x \in Entries(q)'
    BY <1>2, <1>3, <1>10, <2>1, <2>3, <2>4 DEF TablesMatchDaemon
  <2>7. QED
    BY <2>5, <2>6 DEF TablesMatchDaemon
<1>14. QED
  BY <1>10, <1>11, <1>12, <1>13

\* Unmapping deletes the entries and then the forward, or names the cause.
LEMMA UnmapStep ==
  ASSUME ForwarderInv, UNCHANGED leader, NEW p \in Proc, NEW r \in Remote, UnmapDevicePort(p, r)
  PROVE  ForwarderInv'
<1> USE DEF ForwarderInv
<1> DEFINE host == d2h[p][r]
           f == Without(d2h[p], {r})
           g == Without(h2d[p], {host})
           At == {x \in server : x[1] = r}
<1>1. d2h[p] \in Partial(Remote, HostPort) /\ h2d[p] \in Partial(HostPort, Remote)
  BY DEF TablesAreFunctions
<1>2. r \in DOMAIN d2h[p] /\ d2h' = [d2h EXCEPT ![p] = f] /\ h2d' = [h2d EXCEPT ![p] = g]
      /\ UNCHANGED <<lock, pid, running, instance, ready, doubled>>
  BY DEF UnmapDevicePort
<1>3. f \in Partial(Remote, HostPort) /\ DOMAIN f = DOMAIN d2h[p] \ {r} /\ \A x \in DOMAIN d2h[p] \ {r} : f[x] = d2h[p][x]
  <2>1. f \in Partial(Remote, HostPort)
    BY <1>1, WithoutKeeps
  <2>2. QED
    BY <2>1 DEF Without, Restrict
<1>4. g \in Partial(HostPort, Remote) /\ DOMAIN g = DOMAIN h2d[p] \ {host} /\ \A x \in DOMAIN h2d[p] \ {host} : g[x] = h2d[p][x]
  <2>1. g \in Partial(HostPort, Remote)
    BY <1>1, WithoutKeeps
  <2>2. QED
    BY <2>1 DEF Without, Restrict
<1>5. /\ TablesAreFunctions' /\ d2h'[p] = f /\ h2d'[p] = g
      /\ \A q \in Proc \ {p} : AgreeIn(q)' /\ d2h'[q] = d2h[q] /\ Entries(q)' = Entries(q)
  BY <1>2, <1>3, <1>4, OthersAgree
<1>6. AgreeIn(p)'
  <2>1. ASSUME NEW y \in HostPort, <<p, y>> \notin doubled
        PROVE  /\ y \in DOMAIN g => g[y] \in DOMAIN f /\ f[g[y]] = y
               /\ \A x \in DOMAIN f : f[x] = y => y \in DOMAIN g /\ g[y] = x
    <3>1. /\ y \in DOMAIN h2d[p] => h2d[p][y] \in DOMAIN d2h[p] /\ d2h[p][h2d[p][y]] = y
          /\ \A x \in DOMAIN d2h[p] : d2h[p][x] = y => y \in DOMAIN h2d[p] /\ h2d[p][y] = x
      BY <2>1 DEF AgreeIn
    <3>2. QED
      BY <1>2, <1>3, <1>4, <3>1
  <2>2. QED
    <3>1. doubled' = doubled /\ d2h'[p] = f /\ h2d'[p] = g
      BY <1>2, <1>5
    <3> HIDE DEF f, g, host
    <3>2. QED
      BY <2>1, <3>1 DEF AgreeIn
<1>7. Entries(p)' = {x \in Entries(p) : x[1] # r}
  <2>1. d2h'[p] = f /\ DOMAIN f = DOMAIN d2h[p] \ {r} /\ \A x \in DOMAIN d2h[p] \ {r} : f[x] = d2h[p][x]
    BY <1>3, <1>5
  <2> HIDE DEF f, g, host
  <2>2. Entries(p)' = {<<x, f[x]>> : x \in DOMAIN f}
    BY <2>1 DEF Entries
  <2>3. {<<x, f[x]>> : x \in DOMAIN f} = {x \in Entries(p) : x[1] # r}
    BY <2>1 DEF Entries
  <2>4. QED
    BY <2>2, <2>3
<1>8. CASE /\ server' = server \ At
           /\ disturbed' = disturbed \cup {q \in Proc \ {p} : Entries(q) \cap At # {}}
           /\ leaked' = leaked \ {r}
  <2>1. RestTypes'
    BY <1>2, <1>8 DEF RestTypes, lock
  <2>2. \A q \in Proc \ disturbed' : Entries(q)' \subseteq server'
    BY <1>5, <1>7, <1>8 DEF TablesMatchDaemon
  <2>3. \A x \in server' : x[1] \in leaked' \/ \E q \in Proc : x \in Entries(q)'
    BY <1>5, <1>7, <1>8 DEF TablesMatchDaemon
  <2>4. QED
    BY <1>5, <1>6, <2>1, <2>2, <2>3 DEF TablesMatchDaemon
<1>9. CASE leaked' = leaked \cup {x[1] : x \in At} /\ UNCHANGED <<server, disturbed>>
  <2>1. RestTypes'
    BY <1>2, <1>9 DEF RestTypes, lock
  <2>2. \A q \in Proc \ disturbed' : Entries(q)' \subseteq server'
    BY <1>5, <1>7, <1>9 DEF TablesMatchDaemon
  <2>3. \A x \in server' : x[1] \in leaked' \/ \E q \in Proc : x \in Entries(q)'
    BY <1>5, <1>7, <1>9 DEF TablesMatchDaemon
  <2>4. QED
    BY <1>5, <1>6, <2>1, <2>2, <2>3 DEF TablesMatchDaemon
<1>10. QED
  BY <1>8, <1>9 DEF UnmapDevicePort

\* Unmapping all of a device deletes its entries and its forwards.
LEMMA UnmapAllStep ==
  ASSUME ForwarderInv, UNCHANGED leader, NEW p \in Proc, NEW d \in Device, UnmapAllDevicePorts(p, d)
  PROVE  ForwarderInv'
<1> USE DEF ForwarderInv
<1>1. d2h[p] \in Partial(Remote, HostPort) /\ h2d[p] \in Partial(HostPort, Remote)
  BY DEF TablesAreFunctions
<1>2. PICK gone \in SUBSET {r \in DOMAIN d2h[p] : r[1] = d} :
        /\ d2h' = [d2h EXCEPT ![p] = Without(@, gone)]
        /\ h2d' = [h2d EXCEPT ![p] = Without(@, {d2h[p][r] : r \in gone})]
        /\ disturbed' = disturbed \cup {q \in Proc : \E e \in Entries(q) \cap Of(d) : q # p \/ e[1] \notin gone}
        /\ ready' = [ready EXCEPT ![p] = @ \ {d}] \/ UNCHANGED ready
  BY DEF UnmapAllDevicePorts
<1>3. /\ server' = server \ Of(d) /\ leaked' = leaked \ ({d} \X Port)
      /\ running' \subseteq running /\ UNCHANGED <<lock, pid, instance, doubled>>
  BY DEF UnmapAllDevicePorts
<1> DEFINE hosts == {d2h[p][r] : r \in gone}
           f == Without(d2h[p], gone)
           g == Without(h2d[p], hosts)
<1>4. f \in Partial(Remote, HostPort) /\ DOMAIN f = DOMAIN d2h[p] \ gone /\ \A x \in DOMAIN d2h[p] \ gone : f[x] = d2h[p][x]
  <2>1. f \in Partial(Remote, HostPort)
    BY <1>1, WithoutKeeps
  <2>2. QED
    BY <2>1 DEF Without, Restrict
<1>5. g \in Partial(HostPort, Remote) /\ DOMAIN g = DOMAIN h2d[p] \ hosts /\ \A x \in DOMAIN h2d[p] \ hosts : g[x] = h2d[p][x]
  <2> HIDE DEF hosts
  <2>1. g \in Partial(HostPort, Remote)
    BY <1>1, WithoutKeeps
  <2>2. QED
    BY <2>1 DEF Without, Restrict
<1>6. \A y : y \in hosts <=> \E x \in gone : y = d2h[p][x]
  OBVIOUS
<1>7. d2h' = [d2h EXCEPT ![p] = f] /\ h2d' = [h2d EXCEPT ![p] = g]
  BY <1>2
<1> HIDE DEF f, g, hosts
<1>8. /\ TablesAreFunctions' /\ d2h'[p] = f /\ h2d'[p] = g
      /\ \A q \in Proc \ {p} : AgreeIn(q)' /\ d2h'[q] = d2h[q] /\ Entries(q)' = Entries(q)
  BY <1>3, <1>4, <1>5, <1>7, OthersAgree
<1>9. AgreeIn(p)'
  <2>1. ASSUME NEW y \in HostPort, <<p, y>> \notin doubled
        PROVE  /\ y \in DOMAIN g => g[y] \in DOMAIN f /\ f[g[y]] = y
               /\ \A x \in DOMAIN f : f[x] = y => y \in DOMAIN g /\ g[y] = x
    <3>1. /\ y \in DOMAIN h2d[p] => h2d[p][y] \in DOMAIN d2h[p] /\ d2h[p][h2d[p][y]] = y
          /\ \A x \in DOMAIN d2h[p] : d2h[p][x] = y => y \in DOMAIN h2d[p] /\ h2d[p][y] = x
      BY <2>1 DEF AgreeIn
    <3>2. QED
      BY <1>2, <1>4, <1>5, <1>6, <3>1
  <2>2. QED
    BY <1>3, <1>8, <2>1 DEF AgreeIn
<1>10. Entries(p)' = {x \in Entries(p) : x[1] \notin gone}
  <2>1. Entries(p)' = {<<x, f[x]>> : x \in DOMAIN f}
    BY <1>8 DEF Entries
  <2>2. {<<x, f[x]>> : x \in DOMAIN f} = {x \in Entries(p) : x[1] \notin gone}
    BY <1>4 DEF Entries
  <2>3. QED
    BY <2>1, <2>2
<1>11. RestTypes'
  BY <1>2, <1>3 DEF RestTypes, lock
<1>12. \A q \in Proc \ disturbed' : Entries(q)' \subseteq server'
  <2>1. ASSUME NEW q \in Proc \ disturbed', NEW x \in Entries(q)'
        PROVE  x \in server'
    <3>1. x \in Entries(q) /\ (q = p => x[1] \notin gone)
      BY <1>8, <1>10, <2>1
    <3>2. x \in server /\ x \notin Of(d)
      BY <1>2, <2>1, <3>1 DEF TablesMatchDaemon
    <3>3. QED
      BY <1>3, <3>2
  <2>2. QED
    BY <2>1
<1>13. \A x \in server' : x[1] \in leaked' \/ \E q \in Proc : x \in Entries(q)'
  <2>1. ASSUME NEW x \in server' PROVE x[1] \in leaked' \/ \E q \in Proc : x \in Entries(q)'
    <3>1. x \in server /\ x[1][1] # d
      BY <1>3, <2>1 DEF Of, RestTypes
    <3>2. x[1] \notin {d} \X Port /\ x[1] \notin gone
      BY <1>2, <3>1
    <3>3. QED
      BY <1>3, <1>8, <1>10, <3>1, <3>2 DEF TablesMatchDaemon
  <2>2. QED
    BY <2>1
<1>14. QED
  BY <1>8, <1>9, <1>11, <1>12, <1>13 DEF TablesMatchDaemon

\* A process that ends takes its tables along.
LEMMA ProcessEndsStep ==
  ASSUME ForwarderInv, UNCHANGED leader, NEW p \in Proc, ProcessEnds(p)
  PROVE  ForwarderInv'
<1> USE DEF ForwarderInv
<1>1. /\ instance' = instance \ {p} /\ ready' = [ready EXCEPT ![p] = {}]
      /\ d2h' = [d2h EXCEPT ![p] = Empty] /\ h2d' = [h2d EXCEPT ![p] = Empty]
      /\ leaked' = leaked \cup {x[1] : x \in Entries(p) \cap server}
      /\ doubled' = {e \in doubled : e[1] # p} /\ disturbed' = disturbed \ {p}
      /\ UNCHANGED <<pid, server, running>> /\ (Release \/ UNCHANGED lock)
  BY DEF ProcessEnds
<1>2. Empty \in Partial(Remote, HostPort) /\ Empty \in Partial(HostPort, Remote) /\ DOMAIN Empty = {}
  BY EmptyIsPartial
<1>3. /\ TablesAreFunctions' /\ d2h'[p] = Empty /\ h2d'[p] = Empty
      /\ \A q \in Proc \ {p} : AgreeIn(q)' /\ d2h'[q] = d2h[q] /\ Entries(q)' = Entries(q)
  BY <1>1, <1>2, OthersAgree
<1>4. AgreeIn(p)' /\ Entries(p)' = {}
  BY <1>2, <1>3 DEF AgreeIn, Entries
<1>5. RestTypes'
  <2>1. leaked' \subseteq Remote
    BY <1>1 DEF RestTypes, Forward
  <2>2. QED
    BY <1>1, <2>1 DEF RestTypes, Release, lock
<1>6. \A q \in Proc \ disturbed' : Entries(q)' \subseteq server'
  BY <1>1, <1>3, <1>4 DEF TablesMatchDaemon
<1>7. \A x \in server' : x[1] \in leaked' \/ \E q \in Proc : x \in Entries(q)'
  BY <1>1, <1>3 DEF TablesMatchDaemon
<1>8. QED
  BY <1>3, <1>4, <1>5, <1>6, <1>7 DEF TablesMatchDaemon

-----------------------------------------------------------------------------
(* Every behaviour *)

\* The invariant holds at first: nothing is mapped.
LEMMA ForwarderInit ==
  ASSUME Init
  PROVE  ForwarderInv
<1>1. Empty \in Partial(Remote, HostPort) /\ Empty \in Partial(HostPort, Remote) /\ DOMAIN Empty = {}
  BY EmptyIsPartial
<1>2. TablesAreFunctions /\ RestTypes
  BY <1>1, ForwarderAssumption DEF Init, TablesAreFunctions, RestTypes
<1>3. \A p \in Proc : DOMAIN d2h[p] = {} /\ DOMAIN h2d[p] = {} /\ Entries(p) = {}
  BY <1>1 DEF Init, Entries
<1>4. (\A p \in Proc : AgreeIn(p)) /\ TablesMatchDaemon
  BY <1>3 DEF Init, AgreeIn, TablesMatchDaemon
<1>5. QED
  BY <1>2, <1>4 DEF ForwarderInv

\* Every step keeps the invariant.
LEMMA ForwarderStep ==
  ASSUME ForwarderInv, [Next]_vars
  PROVE  ForwarderInv'
<1>1. CASE Next
  <2>1. UNCHANGED leader
    BY <1>1 DEF Next
  <2>2. ASSUME NEW p \in Proc, GetInstance(p) \/ MapEnds(p) \/ MapRefused(p) \/ KillHost(p) \/ ProcessEnds(p)
        PROVE  ForwarderInv'
    BY <2>1, <2>2, QuietStep, ProcessEndsStep
  <2>3. ASSUME NEW p \in Proc, NEW d \in Device,
               \/ MapBegins(p, d) \/ InitDeviceFails(p, d) \/ KillDevice(p, d)
               \/ UnmapAllDevicePorts(p, d) \/ UnmapAllFails(p, d)
        PROVE  ForwarderInv'
    BY <2>1, <2>3, QuietStep, UnmapAllStep
  <2>4. ASSUME NEW p \in Proc, NEW h \in HostPort, MapPair(p, h) \/ MapTimesOut(p, h)
        PROVE  ForwarderInv'
    BY <2>1, <2>4, QuietStep, MapPairStep
  <2>5. ASSUME NEW p \in Proc, NEW r \in Remote, UnmapDevicePort(p, r)
        PROVE  ForwarderInv'
    BY <2>1, <2>5, UnmapStep
  <2>6. ASSUME NEW d \in Device, DeviceDies(d)
        PROVE  ForwarderInv'
    BY <2>1, <2>6, DeviceDiesStep
  <2>7. QED
    BY <1>1, <2>2, <2>3, <2>4, <2>5, <2>6 DEF Next
<1>2. CASE UNCHANGED vars
  BY <1>2 DEF vars, ForwarderInv, RestTypes, TablesAreFunctions, AgreeIn, TablesMatchDaemon, Entries
<1>3. QED
  BY <1>1, <1>2

\* The invariant holds in every state.
THEOREM Invariant == Spec => []ForwarderInv
BY ForwarderInit, ForwarderStep, PTL DEF Spec

\* The tables of a process are inverse to each other but for host ports mapped twice, so that only those make an unmap raise
\* KeyError (forwarder.py, _UnmapDevicePortLocked).
THEOREM TablesAreInverse == Spec => []TablesAgree
BY Invariant, InvariantAgrees, PTL

\* What a process lists is forwarded unless it was taken away by others or by a failed call of its own that left the tables
\* (forwarder.py, UnmapAllDevicePorts), and what is forwarded is listed unless a call failed or its process ended.
THEOREM ForwardsAreListed == Spec => []TablesMatchDaemon
<1>1. ForwarderInv => TablesMatchDaemon
  BY DEF ForwarderInv
<1>2. QED
  BY <1>1, Invariant, PTL
=============================================================================
