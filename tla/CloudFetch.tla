------------------------------- MODULE CloudFetch -------------------------------
(***************************************************************************)
(* Fetching a dependency from cloud storage (cloud_storage_info.py,        *)
(* archive_info.py, cloud_storage.py): the file is downloaded under a lock *)
(* when its hash is not the wanted one; looking for its unzipped tree,     *)
(* removing the stale trees, file by file, and unzipping are done without  *)
(* it.                                                                     *)
(* Callers are threads or processes, of configs with one hash or another.  *)
(***************************************************************************)
EXTENDS Naturals

CONSTANTS Callers, Hashes, Wants,  \* the hash that each caller's config names
          MaxCalls, MaxFails       \* bounds on the calls, and on failures and kills

VARIABLES pc,
          archive,  \* the hash of the downloaded file, or "none"
          holder,   \* the caller that has the pseudo lock of its path, or "none"
          tree,     \* the files below the directory of each hash, with the hash they came with
          source,   \* the archive that the caller has open
          stale,    \* the hashes whose trees the caller has still to remove
          got,      \* what the caller's last call returned: a tree, or an error
          calls, fails,
          unsafe    \* callers overlapped, or one ended within a tree and left what is taken for a whole one

CloudFetchAssumption == Wants \in [Callers -> Hashes] /\ "none" \notin Callers \union Hashes /\ MaxCalls \in Nat /\ MaxFails \in Nat

vars == <<pc, archive, holder, tree, source, stale, got, calls, fails, unsafe>>

\* path_within_archive, whose presence is what ShouldUnzipArchive asks for, and the rest of the archive.
Files == {"dependency", "rest"}
Whole(h) == Files \X {h}
Names(T) == {f[1] : f \in T}
Nothing == [out |-> "nothing", tree |-> {}]
Error == [out |-> "error", tree |-> {}]
Found(T) == [out |-> "path", tree |-> T]
Unlocked == {"look", "clean", "open", "extract"}

TypeOK ==
  /\ pc \in [Callers -> {"idle", "lock", "fetch", "unlock"} \union Unlocked]
  /\ archive \in Hashes \union {"none"} /\ holder \in Callers \union {"none"}
  /\ \A h \in Hashes : tree[h] \subseteq Files \X Hashes /\ \A x, y \in tree[h] : x[1] = y[1] => x = y
  /\ source \in [Callers -> Hashes \union {"none"}] /\ stale \in [Callers -> SUBSET Hashes]
  /\ calls \in 0..MaxCalls /\ fails \in 0..MaxFails /\ unsafe \in BOOLEAN

Init ==
  /\ pc = [c \in Callers |-> "idle"] /\ archive \in Hashes \union {"none"} /\ holder = "none"
  /\ \E whole \in Hashes \union {"none"} : tree = [h \in Hashes |-> IF h = whole THEN Whole(h) ELSE {}]
  /\ source = [c \in Callers |-> "none"] /\ stale = [c \in Callers |-> {}]
  /\ got = [c \in Callers |-> Nothing] /\ calls = 0 /\ fails = 0 /\ unsafe = FALSE

To(c, s) == pc' = [pc EXCEPT ![c] = s]
Fails == fails < MaxFails /\ fails' = fails + 1
Return(c, r) == pc' = [pc EXCEPT ![c] = "idle"] /\ got' = [got EXCEPT ![c] = r]

-----------------------------------------------------------------------------
(* GetIfHashChanged, under _FileLock *)

GetRemotePath(c) ==
  /\ pc[c] = "idle" /\ calls < MaxCalls /\ calls' = calls + 1 /\ To(c, "lock") /\ got' = [got EXCEPT ![c] = Nothing]
  /\ UNCHANGED <<archive, holder, tree, source, stale, fails, unsafe>>

\* The global lock is held for a moment only: an attempt that finds it taken is made again.
Acquire(c) ==
  /\ pc[c] = "lock" /\ holder = "none" /\ holder' = c /\ To(c, "fetch")
  /\ UNCHANGED <<archive, tree, source, stale, got, calls, fails, unsafe>>
AcquireTimesOut(c) ==
  /\ pc[c] = "lock" /\ holder # "none" /\ Return(c, Error)
  /\ UNCHANGED <<archive, holder, tree, source, stale, calls, fails, unsafe>>

\* The file arrives beside its path and is moved there; a server error is tried once more.
FetchOnlyMissing(c) ==
  /\ pc[c] = "fetch" /\ archive' = (IF archive = "none" THEN Wants[c] ELSE archive) /\ To(c, "unlock")
  /\ UNCHANGED <<holder, tree, source, stale, got, calls, fails, unsafe>>
Fetch(c) ==
  /\ pc[c] = "fetch" /\ archive' = Wants[c] /\ To(c, "unlock")
  /\ unsafe' = (unsafe \/ (archive # Wants[c] /\ \E o \in Callers \ {c} : pc[o] \in Unlocked))
  /\ UNCHANGED <<holder, tree, source, stale, got, calls, fails>>
FetchFails(c) ==
  /\ pc[c] = "fetch" /\ archive # Wants[c] /\ Fails /\ holder' = "none" /\ Return(c, Error)
  /\ UNCHANGED <<archive, tree, source, stale, calls, unsafe>>

Release(c) ==
  /\ pc[c] = "unlock" /\ holder' = "none" /\ To(c, "look")
  /\ unsafe' = (unsafe \/ \E o \in Callers \ {c} : pc[o] \in Unlocked)
  /\ UNCHANGED <<archive, tree, source, stale, got, calls, fails>>

-----------------------------------------------------------------------------
(* GetUnzippedPath, without the lock *)

ShouldUnzip(c) == "dependency" \notin Names(tree[Wants[c]])
\* The glob of stale trees matches every hash, also the wanted one.
Look(c) ==
  /\ pc[c] = "look"
  /\ IF ShouldUnzip(c) THEN To(c, "clean") /\ stale' = [stale EXCEPT ![c] = {h \in Hashes : tree[h] # {}}] /\ UNCHANGED got
     ELSE Return(c, Found(tree[Wants[c]])) /\ UNCHANGED stale
  /\ UNCHANGED <<archive, holder, tree, source, calls, fails, unsafe>>

\* rmtree, one file after the other.
RemoveFile(c, h, f) ==
  /\ pc[c] = "clean" /\ h \in stale[c] /\ f \in tree[h] /\ tree' = [tree EXCEPT ![h] = @ \ {f}]
  /\ UNCHANGED <<pc, archive, holder, source, stale, got, calls, fails, unsafe>>
StaleRemoved(c) ==
  /\ pc[c] = "clean" /\ (\A h \in stale[c] : tree[h] = {}) /\ stale' = [stale EXCEPT ![c] = {}] /\ To(c, "open")
  /\ UNCHANGED <<archive, holder, tree, source, got, calls, fails, unsafe>>
\* What a later call would take for a whole tree.
Halfway(T) == "dependency" \in Names(T) /\ \A h \in Hashes : T # Whole(h)
\* An error of the system; overlapping calls make one when they remove the same tree.
RemoveFails(c) ==
  /\ pc[c] = "clean" /\ Return(c, Error) /\ stale' = [stale EXCEPT ![c] = {}]
  /\ Fails \/ (fails' = fails /\ \E o \in Callers \ {c} : pc[o] \in Unlocked)
  /\ unsafe' = (unsafe \/ \E h \in Hashes : Halfway(tree[h]))
  /\ UNCHANGED <<archive, holder, tree, source, calls>>

OpenArchive(c) ==
  /\ pc[c] = "open" /\ archive # "none" /\ source' = [source EXCEPT ![c] = archive] /\ To(c, "extract")
  /\ UNCHANGED <<archive, holder, tree, stale, got, calls, fails, unsafe>>

Extracted(c) == {f \in Files : <<f, source[c]>> \in tree[Wants[c]]}
Extract(c, f) ==
  /\ pc[c] = "extract" /\ f \notin Extracted(c)
  /\ tree' = [tree EXCEPT ![Wants[c]] = {x \in @ : x[1] # f} \union {<<f, source[c]>>}]
  /\ UNCHANGED <<pc, archive, holder, source, stale, got, calls, fails, unsafe>>
ExtractEnds(c) ==
  /\ pc[c] = "extract" /\ Extracted(c) = Files /\ Return(c, IF ShouldUnzip(c) THEN Error ELSE Found(tree[Wants[c]]))
  /\ UNCHANGED <<archive, holder, tree, source, stale, calls, fails, unsafe>>

\* What an unzipping that ended early leaves under a name that is looked for; permissions are set last.
TakenForWhole(c, kept) == pc[c] = "extract" /\ "dependency" \in Names(kept)
\* An archive that cannot be read to its end, or a full disk: what was extracted is removed.
ExtractFails(c) ==
  /\ pc[c] \in {"open", "extract"} /\ Fails /\ tree' = [tree EXCEPT ![Wants[c]] = {}] /\ Return(c, Error)
  /\ UNCHANGED <<archive, holder, source, stale, calls, unsafe>>
\* The removal fails as well, or the archive is none.
ExtractKeeps(c, kept) ==
  /\ pc[c] \in {"open", "extract"} /\ Fails /\ tree' = [tree EXCEPT ![Wants[c]] = kept] /\ Return(c, Error)
  /\ unsafe' = (unsafe \/ TakenForWhole(c, kept)) /\ UNCHANGED <<archive, holder, source, stale, calls>>

\* The system frees the lock of a process that ends.
Killed(c) ==
  /\ pc[c] # "idle" /\ Fails /\ Return(c, Error) /\ holder' = (IF holder = c THEN "none" ELSE holder)
  /\ unsafe' = (unsafe \/ TakenForWhole(c, tree[Wants[c]]) \/ (pc[c] = "clean" /\ \E h \in Hashes : Halfway(tree[h])))
  /\ stale' = [stale EXCEPT ![c] = {}] /\ UNCHANGED <<archive, tree, source, calls>>

Next == \E c \in Callers :
  \/ GetRemotePath(c) \/ Acquire(c) \/ AcquireTimesOut(c) \/ Fetch(c) \/ FetchFails(c) \/ Release(c)
  \/ Look(c) \/ StaleRemoved(c) \/ RemoveFails(c) \/ OpenArchive(c) \/ ExtractEnds(c) \/ ExtractFails(c) \/ Killed(c)
  \/ \E h \in Hashes, f \in Files \X Hashes : RemoveFile(c, h, f)
  \/ \E f \in Files : Extract(c, f)
  \/ \E kept \in SUBSET tree[Wants[c]] : ExtractKeeps(c, kept)

Spec == Init /\ [][Next]_vars

-----------------------------------------------------------------------------
(* Properties *)

\* A call returns the whole tree of the hash its config names, unless calls overlapped outside the lock, or
\* an earlier one was killed or failed while it removed or unzipped a tree and left the dependency in it.
FetchIsWhole == \A c \in Callers : got[c].out = "path" => got[c].tree = Whole(Wants[c]) \/ unsafe
=============================================================================
