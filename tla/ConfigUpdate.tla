------------------------------ MODULE ConfigUpdate ------------------------------
(***************************************************************************)
(* The update of a dependency config (base_config.py, uploader.py): new    *)
(* files are uploaded to cloud storage under a path that has their hash,   *)
(* then the config is written; when a step fails, the uploads are rolled   *)
(* back.  Writers are processes with a config object of their own; nothing *)
(* locks the config or the bucket.                                         *)
(***************************************************************************)
EXTENDS Naturals, Sequences

CONSTANTS Writers, Updates,  \* the updates that each writer makes, pairs of a dependency and a hash
          MaxJobs,           \* bound on its pending jobs, per writer as well
          MaxFails           \* bound on failures and ends of processes

UpdateAssumption == MaxJobs \in [Writers -> Nat] /\ MaxFails \in Nat

VARIABLES disk,     \* the config file: the hash of each dependency, or Torn
          cloud,    \* what the bucket has at each path, or NoObject
          data, pending,  \* per writer: _config_data and _pending_uploads
          pc, k, force,   \* per writer: the step of ExecuteUpdateJobs, its job, and the parameter
          fails,
          raced,    \* a writer began while another had something under way
          shared,   \* a backup was made at the path None, which all jobs share
          late      \* the paths that a rollback deletes although the config was already written

vars == <<disk, cloud, data, pending, pc, k, force, fails, raced, shared, late>>

Deps == {"a", "b"}
FileHashes == {"old", "new"}
Torn == [d \in Deps |-> "torn"]
NoObject == <<>>
Remote(j) == <<j.dep, j.hash>>
Object(j) == <<j.dep, j.hash>>
\* After a rollback _cs_backup_path is None.
Backup(j) == IF j.none THEN <<"None">> ELSE <<j.dep, j.hash, "backup">>
Paths == {<<d, h>> : d \in Deps, h \in FileHashes} \union {<<d, h, "backup">> : d \in Deps, h \in FileHashes} \union {<<"None">>}
Working == {"check", "insert", "write", "roll"}

TypeOK ==
  /\ disk \in {Torn} \union [Deps -> FileHashes] /\ DOMAIN cloud = Paths
  /\ \A p \in Paths : cloud[p] \in {NoObject} \union (Deps \X FileHashes)
  /\ data \in [Writers -> [Deps -> FileHashes]] /\ fails \in 0..MaxFails
  /\ raced \in BOOLEAN /\ shared \in BOOLEAN /\ late \subseteq Paths
  /\ pc \in [Writers -> Working \union {"closed", "idle"}] /\ force \in [Writers -> BOOLEAN]
  /\ \A w \in Writers :
       /\ Len(pending[w]) <= MaxJobs[w] /\ k[w] \in 0..Len(pending[w]) + 1
       /\ \A n \in DOMAIN pending[w] : pending[w][n] \in
            [dep : Deps, hash : FileHashes, updated : BOOLEAN, backedUp : BOOLEAN, none : BOOLEAN]

Init ==
  /\ disk = [d \in Deps |-> "old"]
  /\ cloud = [p \in Paths |-> IF p \in {<<d, "old">> : d \in Deps} THEN p ELSE NoObject]
  /\ data = [w \in Writers |-> disk] /\ pending = [w \in Writers |-> <<>>] /\ pc = [w \in Writers |-> "closed"]
  /\ k = [w \in Writers |-> 0] /\ force = [w \in Writers |-> FALSE] /\ fails = 0
  /\ raced = FALSE /\ shared = FALSE /\ late = {}

-----------------------------------------------------------------------------
(* The config object *)

Open(w) ==
  /\ pc[w] = "closed" /\ disk # Torn
  /\ pc' = [pc EXCEPT ![w] = "idle"] /\ data' = [data EXCEPT ![w] = disk] /\ pending' = [pending EXCEPT ![w] = <<>>]
  /\ UNCHANGED <<disk, cloud, k, force, fails, raced, shared, late>>

\* _IsDirty reads the file, and fails on one that is torn.
IsDirty(w) == data[w] # disk
\* A job whose rollback failed is still taken for uploaded.
Busy(w) == pc[w] \in Working \/ \E n \in DOMAIN pending[w] : pending[w][n].updated
Begin(w, f) ==
  /\ pc' = [pc EXCEPT ![w] = "check"] /\ k' = [k EXCEPT ![w] = 1] /\ force' = [force EXCEPT ![w] = f]
  /\ raced' = (raced \/ \E v \in Writers \ {w} : Busy(v))

\* With execute_job, a config that is already changed is refused, and a job that changes nothing stays pending.
AddCloudStorageDependencyUpdateJob(w, d, h, execute) ==
  /\ pc[w] = "idle" /\ disk # Torn /\ Len(pending[w]) < MaxJobs[w] /\ <<d, h>> \in Updates[w]
  /\ execute => ~IsDirty(w)
  /\ data' = [data EXCEPT ![w][d] = h]
  /\ pending' = [pending EXCEPT ![w] = Append(@, [dep |-> d, hash |-> h, updated |-> FALSE, backedUp |-> FALSE, none |-> FALSE])]
  /\ IF execute /\ data'[w] # disk THEN Begin(w, FALSE) ELSE UNCHANGED <<pc, k, force, raced>>
  /\ UNCHANGED <<disk, cloud, fails, shared, late>>

ExecuteUpdateJobs(w, f) ==
  /\ pc[w] = "idle" /\ disk # Torn /\ IsDirty(w) /\ pending[w] # <<>> /\ Begin(w, f)
  /\ UNCHANGED <<disk, cloud, data, pending, fails, shared, late>>

-----------------------------------------------------------------------------
(* Its jobs, one after the other *)

Job(w) == pending[w][k[w]]
SetJob(w, j) == pending' = [pending EXCEPT ![w][k[w]] = j]
Fails == fails < MaxFails /\ fails' = fails + 1
\* Rolling back begins with the last job, also when it was not reached.
RollBackAll(w) == pc' = [pc EXCEPT ![w] = "roll"] /\ k' = [k EXCEPT ![w] = Len(pending[w])]

\* What the calls of cloud storage do.
Copied(w) ==
  /\ cloud[Remote(Job(w))] # NoObject /\ force[w] /\ shared' = (shared \/ Job(w).none)
  /\ cloud' = [cloud EXCEPT ![Backup(Job(w))] = cloud[Remote(Job(w))]]
Inserted(w) == cloud' = [cloud EXCEPT ![Remote(Job(w))] = Object(Job(w))] /\ UNCHANGED shared
CopyBack(w, j) ==
  /\ j.backedUp /\ cloud[Backup(j)] # NoObject /\ cloud' = [cloud EXCEPT ![Remote(j)] = cloud[Backup(j)]]
DeleteAlways(w, j) == j.updated /\ cloud' = [cloud EXCEPT ![Remote(j)] = NoObject]
DeleteObject(w, j) ==
  /\ ~j.backedUp /\ j.updated /\ cloud[Remote(j)] # NoObject /\ cloud' = [cloud EXCEPT ![Remote(j)] = NoObject]
Restored(w) == (CopyBack(w, Job(w)) \/ DeleteObject(w, Job(w))) /\ UNCHANGED shared
\* A call that fails for its caller, or whose caller is interrupted, may have been obeyed.
MaybeObeyed(w) ==
  \/ UNCHANGED <<cloud, shared>>
  \/ pc[w] = "check" /\ Copied(w)
  \/ pc[w] = "insert" /\ Inserted(w)
  \/ pc[w] = "roll" /\ Restored(w)

Conflicts(w) ==
  /\ pc[w] = "check" /\ cloud[Remote(Job(w))] # NoObject /\ ~force[w] /\ RollBackAll(w)
  /\ UNCHANGED <<disk, cloud, data, pending, force, fails, raced, shared, late>>
BackUp(w) ==
  /\ pc[w] = "check" /\ Copied(w) /\ SetJob(w, [Job(w) EXCEPT !.backedUp = TRUE])
  /\ pc' = [pc EXCEPT ![w] = "insert"] /\ UNCHANGED <<disk, data, k, force, fails, raced, late>>
NothingToBackUp(w) ==
  /\ pc[w] = "check" /\ cloud[Remote(Job(w))] = NoObject /\ pc' = [pc EXCEPT ![w] = "insert"]
  /\ UNCHANGED <<disk, cloud, data, pending, k, force, fails, raced, shared, late>>
Insert(w) ==
  /\ pc[w] = "insert" /\ Inserted(w) /\ SetJob(w, [Job(w) EXCEPT !.updated = TRUE])
  /\ k' = [k EXCEPT ![w] = @ + 1] /\ pc' = [pc EXCEPT ![w] = IF k[w] = Len(pending[w]) THEN "write" ELSE "check"]
  /\ UNCHANGED <<disk, data, force, fails, raced, late>>
UploadFails(w) ==
  /\ pc[w] \in {"check", "insert"} /\ Fails /\ MaybeObeyed(w) /\ RollBackAll(w)
  /\ UNCHANGED <<disk, data, pending, force, raced, late>>

WriteConfigToFile(w) ==
  /\ pc[w] = "write" /\ disk' = data[w] /\ pending' = [pending EXCEPT ![w] = <<>>] /\ pc' = [pc EXCEPT ![w] = "idle"]
  /\ k' = [k EXCEPT ![w] = 0] /\ UNCHANGED <<cloud, data, force, fails, raced, shared, late>>
\* Uploads that the rollback will delete.
Fresh(w) == {Remote(pending[w][n]) : n \in {m \in DOMAIN pending[w] : pending[w][m].updated /\ ~pending[w][m].backedUp}}
\* The except clause also catches an interrupt: before the file is opened, within the writing, or after it.
WriteFails(w) ==
  /\ pc[w] = "write" /\ Fails /\ RollBackAll(w)
  /\ \/ disk' \in {disk, Torn} /\ late' = late
     \/ disk' = data[w] /\ late' = late \union Fresh(w)
  /\ UNCHANGED <<cloud, data, pending, force, raced, shared>>

-----------------------------------------------------------------------------
(* Rollback: _backed_up stays, _cs_backup_path does not *)

NextRoll(w) == k' = [k EXCEPT ![w] = @ - 1] /\ pc' = [pc EXCEPT ![w] = IF k[w] = 1 THEN "idle" ELSE "roll"]
Rollback(w) ==
  /\ pc[w] = "roll" /\ NextRoll(w) /\ UNCHANGED <<disk, data, force, fails, raced, late>>
  /\ \/ Restored(w) /\ SetJob(w, [Job(w) EXCEPT !.none = @ \/ Job(w).backedUp, !.updated = FALSE])
     \/ ~Job(w).backedUp /\ ~Job(w).updated /\ UNCHANGED <<cloud, shared, pending>>
\* An error of the rollback leaves the jobs before it as they are.
RollbackFails(w) ==
  /\ pc[w] = "roll" /\ (Job(w).backedUp \/ Job(w).updated) /\ pc' = [pc EXCEPT ![w] = "idle"] /\ k' = [k EXCEPT ![w] = 0]
  /\ \/ cloud[IF Job(w).backedUp THEN Backup(Job(w)) ELSE Remote(Job(w))] = NoObject /\ UNCHANGED <<cloud, shared, fails>>
     \/ Fails /\ MaybeObeyed(w)
  /\ UNCHANGED <<disk, data, pending, force, raced, late>>

Killed(w) ==
  /\ pc[w] # "closed" /\ Fails /\ pc' = [pc EXCEPT ![w] = "closed"] /\ pending' = [pending EXCEPT ![w] = <<>>]
  /\ k' = [k EXCEPT ![w] = 0] /\ IF pc[w] = "write" THEN disk' \in {disk, Torn, data[w]} ELSE disk' = disk
  /\ MaybeObeyed(w) /\ UNCHANGED <<data, force, raced, late>>

Next == \E w \in Writers :
  \/ Open(w) \/ Conflicts(w) \/ BackUp(w) \/ NothingToBackUp(w) \/ Insert(w) \/ UploadFails(w)
  \/ WriteConfigToFile(w) \/ WriteFails(w) \/ Rollback(w) \/ RollbackFails(w) \/ Killed(w)
  \/ \E f \in BOOLEAN : ExecuteUpdateJobs(w, f)
  \/ \E d \in Deps, h \in FileHashes, execute \in BOOLEAN : AddCloudStorageDependencyUpdateJob(w, d, h, execute)

Spec == Init /\ [][Next]_vars

-----------------------------------------------------------------------------
(* Properties *)

\* Every hash in the config can be downloaded and is what it says, unless two writers worked at once,
\* two jobs shared the backup at None, or its own upload was rolled back after the config was written.
ConfigIsBacked ==
  \A d \in Deps : disk # Torn /\ cloud[<<d, disk[d]>>] # <<d, disk[d]>> => raced \/ shared \/ <<d, disk[d]>> \in late
=============================================================================
