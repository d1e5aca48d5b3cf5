------------------------------ MODULE DeviceCache ------------------------------
(***************************************************************************)
(* What DeviceUtils remembers of a device: whether an application is       *)
(* installed and with which checksum, the checksums of pushed files, and a *)
(* property.  Installing and pushing skip what the cache says is there.    *)
(*                                                                         *)
(* Hosts share the device.  Each session writes a token of its own to the  *)
(* device when it fills its cache and reads the token that was there; a    *)
(* cache saved by DumpCacheData is taken over by a later session if it     *)
(* carries that one.  A command may fail, before or after the device       *)
(* obeyed, and the operation may then be called again.                     *)
(***************************************************************************)
EXTENDS Naturals, FiniteSets

CONSTANTS Host, File, Version,
          Unknown,    \* not in the cache
          MaxTokens   \* bound: sessions in a behaviour

DeviceCacheAssumption == Unknown \notin Version \cup BOOLEAN /\ MaxTokens \in Nat

VARIABLES use,                    \* bound: the kind of operation of a behaviour; the others do not touch its state
          app, files, prop, token,    \* the device: version installed, contents, a property's value, the cache token
          session,                    \* per host, its own token, 0 for none
          path, verify, apk, sums, value,  \* per host, the caches
          saved,                      \* the last DumpCacheData
          tokens,                     \* tokens given out
          changed,                    \* the token that was on the device when it was last changed
          unguarded,                  \* a session changed the device after a later one began, after its cache was saved, or before it was loaded
          torn                        \* what a command changed though it was seen to fail, or behind the checksums, or a push left half done

vars == <<use, app, files, prop, token, session, path, verify, apk, sums, value, saved, tokens, changed, unguarded, torn>>
device == <<use, app, files, prop>>
caches == <<path, verify, apk, sums, value>>
tokenVars == <<token, session, tokens>>
history == <<changed, unguarded, torn>>

None == "none"
Installed == Version \cup {None}
Contents == [File -> Version \cup {None}]
Data == [token : 0..MaxTokens, path : {Unknown} \cup BOOLEAN, apk : {Unknown} \cup Installed, sums : {Unknown} \cup Contents]

TypeOK ==
  /\ use \in {"apps", "files", "prop"}
  /\ app \in Installed /\ files \in Contents /\ prop \in Version
  /\ token \in 0..MaxTokens /\ tokens \in 0..MaxTokens /\ changed \in 0..MaxTokens
  /\ session \in [Host -> 0..MaxTokens]
  /\ path \in [Host -> {Unknown} \cup BOOLEAN] /\ verify \subseteq Host
  /\ apk \in [Host -> {Unknown} \cup Installed]
  /\ sums \in [Host -> {Unknown} \cup Contents]
  /\ value \in [Host -> {Unknown} \cup Version]
  /\ saved \in Data
  /\ unguarded \in BOOLEAN /\ torn \subseteq {"files", "prop"}

Empty == [token |-> 0, path |-> Unknown, apk |-> Unknown, sums |-> Unknown]

Init ==
  /\ use \in {"apps", "files", "prop"}
  /\ app = None /\ files = [f \in File |-> None] /\ prop \in Version /\ token = 0
  /\ session = [h \in Host |-> 0]
  /\ path = [h \in Host |-> Unknown] /\ verify = {} /\ apk = [h \in Host |-> Unknown]
  /\ sums = [h \in Host |-> Unknown] /\ value = [h \in Host |-> Unknown]
  /\ saved = Empty /\ tokens = 0 /\ changed = 0 /\ unguarded = FALSE /\ torn = {}

\* h changes the device, which the token on it may not tell later sessions.
Changes(h) == changed' = token /\ unguarded' = (unguarded \/ session[h] # token \/ session[h] = saved.token)
Remember(h, p, a) == path' = [path EXCEPT ![h] = p] /\ apk' = [apk EXCEPT ![h] = a]
RememberOnly(h, a) == apk' = [apk EXCEPT ![h] = a] /\ UNCHANGED path

-----------------------------------------------------------------------------
(* Sessions: _EnsureCacheInitialized, _ClearCache, and the saved cache. *)

\* One command writes a new token and reads the old one and all properties; if it fails, the token may be written all the same.
NewToken(h) == session[h] = 0 /\ tokens < MaxTokens /\ tokens' = tokens + 1 /\ token' = tokens + 1

EnsureCacheInitialized(h) ==
  /\ NewToken(h)
  /\ \/ session' = [session EXCEPT ![h] = tokens + 1] /\ value' = [value EXCEPT ![h] = prop]
     \/ UNCHANGED <<session, value>>
  /\ UNCHANGED <<device, path, verify, apk, sums, saved, history>>

\* The saved cache carries the token that the session found, and replaces all it has learned since.
TakesOver(h) == saved.token # 0 /\ session[h] = saved.token + 1

LoadCacheData(h) ==
  /\ TakesOver(h)
  /\ Remember(h, saved.path, saved.apk)
  /\ verify' = IF saved.path = Unknown THEN verify \ {h} ELSE verify \cup {h}
  /\ sums' = [sums EXCEPT ![h] = saved.sums]
  /\ unguarded' = (unguarded \/ changed >= session[h])
  /\ UNCHANGED <<device, tokenVars, value, saved, changed, torn>>

DumpCacheData(h) ==
  /\ session[h] # 0
  /\ saved' = [token |-> session[h], path |-> path[h], apk |-> apk[h], sums |-> sums[h]]
  /\ UNCHANGED <<device, tokenVars, caches, history>>

\* After a reboot, or in a new process.
ClearCache(h) ==
  /\ session[h] # 0
  /\ session' = [session EXCEPT ![h] = 0]
  /\ Remember(h, Unknown, Unknown) /\ verify' = verify \ {h}
  /\ sums' = [sums EXCEPT ![h] = Unknown] /\ value' = [value EXCEPT ![h] = Unknown]
  /\ UNCHANGED <<device, token, tokens, saved, history>>

-----------------------------------------------------------------------------
(* Applications *)

\* A path from a saved cache is looked up once; if the lookup raises, it counts as looked up.
GetApplicationPaths(h) ==
  /\ use = "apps" /\ session[h] # 0
  /\ \/ path[h] = Unknown /\ path' = [path EXCEPT ![h] = (app # None)] /\ UNCHANGED <<verify, apk>>
     \/ /\ path[h] # Unknown /\ h \in verify
        /\ verify' = verify \ {h}
        /\ \/ path[h] = TRUE /\ app = None /\ Remember(h, FALSE, Unknown)
           \/ UNCHANGED <<path, apk>>
  /\ UNCHANGED <<device, tokenVars, sums, value, saved, history>>

ComputeDeviceChecksumsForApks(h) ==
  /\ path[h] = TRUE /\ h \notin verify /\ apk[h] = Unknown
  /\ apk' = [apk EXCEPT ![h] = app]
  /\ UNCHANGED <<device, tokenVars, path, verify, sums, value, saved, history>>

\* What an install may leave behind when it fails: nothing done, the old version uninstalled, or the new one installed but refused a permission.
HalfInstalled(v) == app' \in {app, None, v}

\* The checksums say that v is not there: it replaces the old version, and its checksum is kept.
InstallChanged(h, v) ==
  /\ path[h] = TRUE /\ h \notin verify /\ apk[h] \notin {Unknown, v}
  /\ Changes(h)
  /\ \/ app' = v /\ Remember(h, Unknown, v)
     \/ HalfInstalled(v) /\ Remember(h, Unknown, Unknown)
  /\ UNCHANGED <<use, files, prop, tokenVars, verify, sums, value, saved, torn>>

\* Not installed, or split otherwise, or no checksums on the host: installed without a look at what is there.
InstallUnchecked(h, v) ==
  /\ path[h] # Unknown /\ h \notin verify
  /\ Changes(h)
  /\ HalfInstalled(v) /\ Remember(h, Unknown, Unknown)
  /\ UNCHANGED <<use, files, prop, tokenVars, verify, sums, value, saved, torn>>

Uninstall(h) ==
  /\ path[h] = TRUE /\ h \notin verify
  /\ Changes(h)
  /\ \/ app' = None /\ Remember(h, FALSE, None)
     \/ app' \in {app, None} /\ Remember(h, Unknown, Unknown)
  /\ UNCHANGED <<use, files, prop, tokenVars, verify, sums, value, saved, torn>>

-----------------------------------------------------------------------------
(* Files: PushChangedFiles with the cache of device files enabled. *)

CalculateDeviceMd5Sums(h) ==
  /\ use = "files" /\ session[h] # 0 /\ sums[h] = Unknown
  /\ sums' = [sums EXCEPT ![h] = files]
  /\ UNCHANGED <<device, tokenVars, path, verify, apk, value, saved, history>>

Pushed(fs, v) == [f \in File |-> IF f \in fs THEN v ELSE files[f]]

PushChangedFiles(h, v) ==
  LET differing == {f \in File : sums[h][f] # v} IN
  /\ sums[h] # Unknown
  /\ IF differing = {} THEN UNCHANGED <<changed, unguarded>> ELSE Changes(h)
  /\ \/ /\ files' = Pushed(differing, v)
        /\ sums' = [sums EXCEPT ![h] = [f \in File |-> v]]
        /\ UNCHANGED torn
     \/ /\ \E fs \in (SUBSET differing) \ {{}} : files' = Pushed(fs, v)
        /\ torn' = torn \cup {"files"}
        /\ UNCHANGED sums
  /\ UNCHANGED <<use, app, prop, tokenVars, path, verify, apk, value, saved>>

\* Without checksums on the host everything is pushed, and the cache stays as it is.
PushAllFiles(h, v) ==
  /\ use = "files" /\ session[h] # 0
  /\ Changes(h)
  /\ files' = Pushed(File, v)
  /\ torn' = IF sums[h] = Unknown THEN torn ELSE torn \cup {"files"}
  /\ UNCHANGED <<use, app, prop, tokenVars, caches, saved>>

\* The checksums of what is removed stay.
RemovePath(h, fs) ==
  /\ use = "files" /\ session[h] # 0
  /\ Changes(h)
  /\ files' = Pushed(fs, None)
  /\ torn' = IF sums[h] = Unknown THEN torn ELSE torn \cup {"files"}
  /\ UNCHANGED <<use, app, prop, tokenVars, caches, saved>>

-----------------------------------------------------------------------------
(* A property of the device. *)

GetProp(h) ==
  /\ use = "prop" /\ session[h] # 0
  /\ value' = [value EXCEPT ![h] = prop]
  /\ UNCHANGED <<device, tokenVars, path, verify, apk, sums, saved, history>>

SetProp(h, v) ==
  /\ use = "prop" /\ session[h] # 0
  /\ Changes(h)
  /\ prop' = v
  /\ \/ value' = [value EXCEPT ![h] = Unknown] /\ UNCHANGED torn
     \/ UNCHANGED value /\ torn' = torn \cup {"prop"}
  /\ UNCHANGED <<use, app, files, tokenVars, path, verify, apk, sums, saved>>

Next ==
  \/ \E h \in Host :
       \/ EnsureCacheInitialized(h) \/ LoadCacheData(h) \/ DumpCacheData(h) \/ ClearCache(h)
       \/ GetApplicationPaths(h) \/ ComputeDeviceChecksumsForApks(h) \/ Uninstall(h)
       \/ CalculateDeviceMd5Sums(h) \/ GetProp(h)
  \/ \E h \in Host, v \in Version :
       \/ InstallChanged(h, v) \/ InstallUnchecked(h, v)
       \/ PushChangedFiles(h, v) \/ PushAllFiles(h, v) \/ SetProp(h, v)
  \/ \E h \in Host, fs \in (SUBSET File) \ {{}} : RemovePath(h, fs)

Spec == Init /\ [][Next]_vars

-----------------------------------------------------------------------------
(* Properties *)

\* What a session remembers or saved is so if no later session changed the device, as long as only a last session changed it, after it
\* loaded its cache and before it saved it: then nothing is skipped that had to be installed or pushed.  Files and properties are
\* excepted once a command was seen to fail that the device obeyed, and files once they were removed or replaced behind their checksums.
Right(p, a, s) ==
  /\ p # Unknown => p = (app # None)
  /\ a # Unknown => a = app
  /\ s # Unknown /\ "files" \notin torn => s = files
LastSessionIsRight ==
  ~unguarded =>
    /\ \A h \in Host : session[h] # 0 /\ changed <= session[h] =>
         /\ Right(path[h], apk[h], sums[h])
         /\ value[h] # Unknown /\ "prop" \notin torn => value[h] = prop
    /\ saved.token # 0 /\ changed <= saved.token => Right(saved.path, saved.apk, saved.sums)

\* "This prevents a stale cache from being used": a cache that is taken over names the version that is installed.
NoStaleCacheLoaded ==
  [][\A h \in Host : LoadCacheData(h) => apk'[h] \in {Unknown, app}]_vars
=============================================================================
