------------------------------- MODULE Forwarder -------------------------------
(***************************************************************************)
(* Port forwards from devices to the host (devil/android/forwarder.py).    *)
(*                                                                         *)
(* Every operation holds a file lock that all processes share, which makes *)
(* it one step here, except Map, whose pairs are steps of their own.       *)
(* Shared are also the daemon on the host with its forwards, the daemons   *)
(* on the devices, and the identity in the lock file of the process group  *)
(* that started the host's daemon afresh.  Each process has its own        *)
(* singleton with the devices it has initialized and two tables of what it *)
(* mapped.  A process may end; the system then releases its lock.          *)
(***************************************************************************)
EXTENDS Naturals, FiniteSets, Functions

CONSTANTS Proc, Group, NoOne, Device, Port, HostPort

\* A group stands for its leader, the pid and start time that the lock file names.
ASSUME ForwarderAssumption == NoOne \notin Proc \cup Group \cup Device /\ Port \subseteq Nat \ {0}

VARIABLES leader,    \* per process, its group
          pid,       \* the group named in the lock file
          holder,    \* the process that holds the lock between the pairs of a Map
          target,    \* the device of that Map
          server,    \* forwards of the host's daemon: <<device, device port>> to host port
          running,   \* devices whose device_forwarder runs
          instance,  \* processes whose singleton exists
          ready,     \* per process, _initialized_devices
          d2h, h2d,  \* per process, _device_to_host_port_map and _host_to_device_port_map
          doubled,   \* host ports that were in the tables of a process twice
          disturbed, \* processes with forwards that were taken away while they list them
          leaked     \* forwards left in the daemon by a call that failed or a process that ended

vars == <<leader, pid, holder, target, server, running, instance, ready, d2h, h2d, doubled, disturbed, leaked>>
lock == <<holder, target>>
tables == <<d2h, h2d>>

Remote == Device \X Port
Forward == Remote \X HostPort
Empty == [r \in {} |-> NoOne]

TypeOK ==
  /\ leader \in [Proc -> Group] /\ pid \in Group \cup {NoOne}
  /\ holder \in Proc \cup {NoOne} /\ target \in Device \cup {NoOne} /\ (holder = NoOne <=> target = NoOne)
  /\ server \subseteq Forward /\ running \subseteq Device
  /\ instance \subseteq Proc /\ ready \in [Proc -> SUBSET Device]
  /\ \A p \in Proc : DOMAIN d2h[p] \subseteq Remote /\ Range(d2h[p]) \subseteq HostPort
  /\ \A p \in Proc : DOMAIN h2d[p] \subseteq HostPort /\ Range(h2d[p]) \subseteq Remote
  /\ doubled \subseteq Proc \X HostPort /\ disturbed \subseteq Proc /\ leaked \subseteq Remote

Init ==
  /\ leader \in [Proc -> Group] /\ pid = NoOne
  /\ holder = NoOne /\ target = NoOne
  /\ server = {} /\ running = {}
  /\ instance = {} /\ ready = [p \in Proc |-> {}]
  /\ d2h = [p \in Proc |-> Empty] /\ h2d = [p \in Proc |-> Empty]
  /\ doubled = {} /\ disturbed = {} /\ leaked = {}

Entries(p) == {<<r, d2h[p][r]>> : r \in DOMAIN d2h[p]}
Of(d) == {f \in Forward : f[1][1] = d}
With(f, k, v) == [x \in DOMAIN f \cup {k} |-> IF x = k THEN v ELSE f[x]]
Kept(f, ks) == f
Without(f, ks) == Restrict(f, DOMAIN f \ ks)

\* Forwards f vanish and stay in the tables of the processes that list them.
Vanish(f) ==
  /\ server' = server \ f
  /\ disturbed' = disturbed \cup {p \in Proc : Entries(p) \cap f # {}}
  /\ leaked' = leaked \ {g[1] : g \in f}
NothingVanishes == UNCHANGED <<server, disturbed, leaked>>

\* A process can take the lock for an operation of its singleton.
Locks(p) == holder = NoOne /\ p \in instance
Release == holder' = NoOne /\ target' = NoOne

-----------------------------------------------------------------------------
(* The singleton: the first operation of a process, whichever it is. *)

\* The lock file names the caller's group: its daemon stays.
OwnDaemon(p) == pid = leader[p]

\* If _KillHostLocked raises, there is neither an instance nor a new name.
GetInstance(p) ==
  /\ holder = NoOne /\ p \notin instance
  /\ IF OwnDaemon(p) THEN NothingVanishes /\ UNCHANGED pid ELSE Vanish(server) /\ pid' = leader[p]
  /\ instance' = instance \cup {p}
  /\ UNCHANGED <<lock, running, ready, tables, doubled>>

-----------------------------------------------------------------------------
(* Map *)

\* _InitDeviceLocked: unless it is done already, the old daemon is killed, if need be by a reboot, and a new one started.
MapBegins(p, d) ==
  /\ Locks(p)
  /\ holder' = p /\ target' = d
  /\ IF d \in ready[p]
     THEN NothingVanishes /\ UNCHANGED <<running, ready>>
     ELSE Vanish(Of(d)) /\ running' = running \cup {d} /\ ready' = [ready EXCEPT ![p] = @ \cup {d}]
  /\ UNCHANGED <<pid, instance, tables, doubled>>

\* It raises: the old daemon may be dead by then.
InitDeviceFails(p, d) ==
  /\ Locks(p) /\ d \in running \ ready[p]
  /\ Vanish(Of(d)) /\ running' = running \ {d}
  /\ UNCHANGED <<lock, pid, instance, ready, tables, doubled>>

\* The daemon refuses a device port in use and any port of a device without a daemon.  A caller that asks for port 0 gets a
\* free one, as a caller who asks for that port.
Accepted(d) == {n \in Port : d \in running /\ \A f \in server : f[1] # <<d, n>>}

\* Both tables get the pair; what one of them said of the port or the host port before stays in the other.
RecordDevice(p, r, h) == d2h' = [d2h EXCEPT ![p] = With(@, r, h)] /\ UNCHANGED h2d
Record(p, r, h) == d2h' = [d2h EXCEPT ![p] = With(@, r, h)] /\ h2d' = [h2d EXCEPT ![p] = With(@, h, r)]
Doubled(p, r, h) ==
  {<<p, g>> : g \in {d2h[p][s] : s \in DOMAIN d2h[p] \cap {r}} \cup (Range(d2h[p]) \cap {h})}

MapPair(p, h) ==
  /\ holder = p
  /\ \E n \in Accepted(target) :
       /\ server' = server \cup {<<<<target, n>>, h>>}
       /\ Record(p, <<target, n>>, h)
       /\ doubled' = doubled \cup Doubled(p, <<target, n>>, h)
  /\ UNCHANGED <<pid, lock, running, instance, ready, disturbed, leaked>>

MapEnds(p) ==
  /\ holder = p /\ Release
  /\ NothingVanishes
  /\ UNCHANGED <<pid, running, instance, ready, tables, doubled>>

\* _KillDeviceLocked: the device is taken off _initialized_devices before the command that may fail.
KillDaemon(p, d) ==
  /\ ready' = [ready EXCEPT ![p] = @ \ {d}]
  /\ \/ Vanish(Of(d)) /\ running' = running \ {d}
     \/ NothingVanishes /\ UNCHANGED running

\* A status other than 0: the device's daemon is killed, and Map raises with the earlier pairs still in the tables.
MapRefused(p) ==
  /\ holder = p /\ Release
  /\ KillDaemon(p, target)
  /\ UNCHANGED <<pid, instance, tables, doubled>>

\* No answer in time, though the daemon has taken the forward.
MapTimesOut(p, h) ==
  /\ holder = p /\ Release
  /\ \E n \in Accepted(target) :
       /\ server' = server \cup {<<<<target, n>>, h>>}
       /\ leaked' = leaked \cup {<<target, n>>}
  /\ UNCHANGED <<pid, running, instance, ready, tables, doubled, disturbed>>

-----------------------------------------------------------------------------
(* The other operations. *)

\* The entries are deleted before the command, which may fail; the second deletion may raise KeyError, and no command is sent.
UnmapDevicePort(p, r) ==
  LET At == {f \in server : f[1] = r}
      host == d2h[p][r]
  IN
  /\ Locks(p) /\ r \in DOMAIN d2h[p]
  /\ d2h' = [d2h EXCEPT ![p] = Without(@, {r})] /\ h2d' = [h2d EXCEPT ![p] = Without(@, {host})]
  /\ \/ /\ host \in DOMAIN h2d[p]
        /\ server' = server \ At
        /\ disturbed' = disturbed \cup {q \in Proc \ {p} : Entries(q) \cap At # {}}
        /\ leaked' = leaked \ {r}
     \/ leaked' = leaked \cup {f[1] : f \in At} /\ UNCHANGED <<server, disturbed>>
  /\ UNCHANGED <<lock, pid, running, instance, ready, doubled>>

\* The loop over a copy of the items ends with a KeyError at a host port that is in the other table no more, and the device's
\* daemon is not killed then.
Blocked(p, d) ==
  {r \in DOMAIN d2h[p] : /\ r[1] = d
                         /\ \/ d2h[p][r] \notin DOMAIN h2d[p]
                            \/ \E s \in DOMAIN d2h[p] \ {r} : s[1] = d /\ d2h[p][s] = d2h[p][r]}

UnmapAllDevicePorts(p, d) ==
  LET all == {r \in DOMAIN d2h[p] : r[1] = d} IN
  /\ Locks(p)
  /\ \E gone \in SUBSET all :
       /\ d2h' = [d2h EXCEPT ![p] = Without(@, gone)]
       /\ h2d' = [h2d EXCEPT ![p] = Without(@, {d2h[p][r] : r \in gone})]
       /\ disturbed' = disturbed \cup {q \in Proc : \E e \in Entries(q) \cap Of(d) : q # p \/ e[1] \notin gone}
       /\ \/ Blocked(p, d) = {} /\ gone = all /\ ready' = [ready EXCEPT ![p] = @ \ {d}]
          \/ Blocked(p, d) # {} /\ UNCHANGED ready
  /\ server' = server \ Of(d) /\ leaked' = leaked \ ({d} \X Port)
  /\ running' = running \ (IF d \in ready'[p] THEN {} ELSE {d}) \/ UNCHANGED running
  /\ UNCHANGED <<lock, pid, instance, doubled>>

\* The daemon has obeyed --unmap-all, but its status is bad or its answer late: the call raises before it cleans the tables.
UnmapAllFails(p, d) ==
  /\ Locks(p)
  /\ Vanish(Of(d))
  /\ UNCHANGED <<lock, pid, running, instance, ready, tables, doubled>>

\* KillHost leaves the tables and the name in the lock file; so does the end of the daemon.
KillHost(p) ==
  /\ Locks(p)
  /\ Vanish(server)
  /\ UNCHANGED <<lock, pid, running, instance, ready, tables, doubled>>

KillDevice(p, d) ==
  /\ Locks(p)
  /\ KillDaemon(p, d)
  /\ UNCHANGED <<lock, pid, instance, tables, doubled>>

\* A device restarts or its daemon dies.
DeviceDies(d) ==
  /\ d \in running
  /\ Vanish(Of(d)) /\ running' = running \ {d}
  /\ UNCHANGED <<lock, pid, instance, ready, tables, doubled>>

\* A process ends, perhaps with the lock, and its forwards stay; another one of its group may take its place.
ProcessEnds(p) ==
  /\ p \in instance
  /\ IF holder = p THEN Release ELSE UNCHANGED lock
  /\ instance' = instance \ {p} /\ ready' = [ready EXCEPT ![p] = {}]
  /\ d2h' = [d2h EXCEPT ![p] = Empty] /\ h2d' = [h2d EXCEPT ![p] = Empty]
  /\ leaked' = leaked \cup {f[1] : f \in Entries(p) \cap server}
  /\ doubled' = {e \in doubled : e[1] # p} /\ disturbed' = disturbed \ {p}
  /\ UNCHANGED <<pid, server, running>>

Next ==
  /\ \/ \E p \in Proc : GetInstance(p) \/ MapEnds(p) \/ MapRefused(p) \/ KillHost(p) \/ ProcessEnds(p)
     \/ \E p \in Proc, d \in Device :
          \/ MapBegins(p, d) \/ InitDeviceFails(p, d) \/ KillDevice(p, d)
          \/ UnmapAllDevicePorts(p, d) \/ UnmapAllFails(p, d)
     \/ \E p \in Proc, h \in HostPort : MapPair(p, h) \/ MapTimesOut(p, h)
     \/ \E p \in Proc, r \in Remote : UnmapDevicePort(p, r)
     \/ \E d \in Device : DeviceDies(d)
  /\ UNCHANGED leader

Spec == Init /\ [][Next]_vars

-----------------------------------------------------------------------------
(* Properties *)

\* What a process has in its tables is forwarded, unless another process's call, the end of a daemon, a killed daemon or a
\* --unmap-all of its own that failed after it was obeyed took it away; what is forwarded is in the tables of some process,
\* unless a call failed or its process ended.
TablesMatchDaemon ==
  /\ \A p \in Proc \ disturbed : Entries(p) \subseteq server
  /\ \A f \in server : f[1] \in leaked \/ \E p \in Proc : f \in Entries(p)

\* The two tables of a process are inverse to each other but for host ports mapped twice: only those can make an unmap raise KeyError.
TablesAgree ==
  TypeOK /\ \A p \in Proc, h \in HostPort : <<p, h>> \notin doubled =>
      /\ h \in DOMAIN h2d[p] => h2d[p][h] \in DOMAIN d2h[p] /\ d2h[p][h2d[p][h]] = h
      /\ \A r \in DOMAIN d2h[p] : d2h[p][r] = h => h \in DOMAIN h2d[p] /\ h2d[p][h] = r
=============================================================================
