# A verification development for MargSahayak and the tools shipped with it

MargSahayak is an Android application with which citizens report damaged roads: they sign in with their phone
number, photograph the damage, send it with their position, keep complaints for later while there is no
internet, and follow what becomes of them. The repository also carries `platform-tools` with systrace, and under it
catapult's Python code for driving devices: nine tenths of its source lines. This directory holds TLA+ models of

* the application's own logic (`MargSahayak/app/src/main/java/ml/uncoded/margsahayak`, 39 Java files), and
* the stateful part of that Python code (`MargSahayak/platform-tools/systrace/catapult`: `devil`, `dependency_manager`,
  `systrace`, and of `common` py_trace_event, battor, py_utils and cloud storage),

the TLC configurations that check them on small instances, and TLAPS proofs for any instance. The two halves do not
call one another and share nothing; only the folder they are in is the same.

The application has no test of its own beyond Android Studio's templates. What can go wrong in it is mostly
not in a function but between them: nearly every operation is a chain of callbacks (Retrofit's, Realm's, a
timer's, another activity's result) that run while the user rotates, leaves, scrolls, retries or logs out, and
that use fields, rows, indices, static variables and activities which were looked at before the wait. The tools have many
unit tests, nearly all of them with one thread, mocked commands and no failure in the middle. What is hard in them is that
a command may fail, time out or be obeyed without an answer, that a device restarts meanwhile, and that
threads, processes and hosts share devices, files, daemons and locks.

Contents: [inventory of the application](#inventory-the-application) · [inventory of the tools](#inventory-the-tools) ·
[plan](#plan) · [modules and code](#modules-and-code) · [runs](#runs-bounds-and-what-they-show) ·
[fairness](#fairness) · [proofs](#proofs) · [findings](#findings) · [not modelled](#not-modelled)

## Inventory: the application

Paths are below `ml/uncoded/margsahayak/` unless they say otherwise.

### Offline complaint queue
`Offline/OfflineComplainListFragment.java`, `Offline/OfflineComplainListDataAdapter.java`,
`models/OfflineComplainModel.java`, and `saveOffline` of `Input/InputActivity2.java`.

*State.* Rows of the Realm table `OfflineComplainModel` (key `id`), the adapter's `itemsList` (a snapshot of
managed rows), the view holders with their two clickable buttons, and per retry the chain
BISAG → post → `copyToRealm` → delete. *Operations.* Save, build the list, rebuild it when the Realm changes
(`onChange`), bind a row, cancel, retry. *Interactions.* The form writes the rows; the retry asks the BISAG road
service and the complaint server, starts an image upload, writes `ComplainModel`; logging out deletes all rows.
*Hard.* The row may be gone when a callback comes; any change of any table replaces the cards and makes their
buttons clickable again; the server's copy and the deletion are two transactions, the process may end between
them; a post may time out after it was accepted. *Correct means.* No complaint is lost; none is created twice
without a cause the application cannot exclude; a deleted one is not posted; keys are unique; the list follows
the table.

### Complaint form
`Input/InputActivity2.java`, `models/Dialogs.java`.

*State.* The cropped photo's URI, the grievance, the upload button, the dialog on screen, the queued save.
*Operations.* Camera, crop, upload (online or offline), the dialogs' buttons, leave. *Interactions.* Camera and
crop activities, the BISAG service, the complaint server, `ImageUpload`, the Realm. *Hard.* Replies come to a form
that is covered by the camera, in the background or finished; the photo can be taken again during a request.
*Correct means.* One submission at a time, the photo sent is the one named, the button never dies silently.

### Road verdict
The loop over the roads near the user, in `InputActivity2.java` and again in `OfflineComplainListDataAdapter.java`.
*Hard.* Boundaries: no road, one road, the order of the answer. *Correct means.* Refused only if too far, posted
with the nearest road.

### Image upload
`Input/ImageUpload.java`. *State.* `filePath` and `uploadingTries`, both static. *Hard.* Several uploads share
them. *Correct means.* Every posted complaint's photo arrives or there is a reason; retries end.

### Login and session
`Auth/AuthActivity.java`, `LoginFragment`, `OtpScreenFragment`, `RegisterFragment`, `SharedPrefrenceUser`,
`resendCountDownCounter`, `MySMSBroadCastReceiver`, `Constant`. *State.* The preferences `state`, `phone`, `token`;
the fragment on screen, its enabled views, the countdown. *Operations.* Ask for an OTP, verify it (by hand or by
SMS), ask again, edit the number, register, log out. *Hard.* A reply finds its fragment replaced, its activity
destroyed by a rotation, or the application in the background. *Correct means.* The token belongs to the number
shown; screen and state agree; no form stays dead.

### Notifications and status of complaints
`MainActivity.onRefreshNotification`, `AllComplaints/linearListDataAdapter.java`,
`History/NotificationListDataAdapter.java`, `models/ComplainModel.java`, `models/NotificationComplaintModel.java`.
*State.* Rows of `ComplainModel` and of the notifications, the fetches in progress. *Hard.* Overlapping fetches,
updates for complaints that have no row, updates without a status or date. *Correct means.* Both lists agree, no
update is missed, no status goes back.

### Navigation between activities
`IntroActivity`, `SplashScreen`, `AuthActivity`, `MainActivity`, `SettingsActivity`, `OptionsBottomSheet`,
`PrefManager`. *State.* The task's back stack, three persisted flags, timers. *Hard.* A timer fires over
another screen; the help's flag outlives the help; `CLEAR_TOP`. *Correct means.* No home without a login, no login
screen for somebody who is logged in.

### Complaint filter
`FilterActivity.java`. *State.* The dialog's criteria and the list. *Hard.* Rows change under the list, invalid or
cancelled dialogs, the language. *Correct means.* The list is what the criteria ask for.

### The rest
`Network/mCallBack.java` turns Retrofit's callbacks into `onSuccessfullResponse` and `onFailureResponse`, shows a
dialog for an HTTP error and calls neither, and swallows an `IllegalStateException`; it is part of the model of each of
its users. The location listener, the lists and details, settings, permissions, setup, and contact screen are under
[not modelled](#not-modelled).

## Inventory: the tools

Paths are below `MargSahayak/platform-tools/systrace/catapult/`, and `devil/` stands for `devil/devil/`.

### Timeouts and retries
`devil/utils/timeout_retry.py`, `reraiser_thread.py`, `watchdog_timer.py`, `cmd_helper.py`, `devil/android/decorators.py`, and the
way `adb_wrapper.py` and `device_utils.py` run a command. *State.* Per try of a decorated method a thread group with a
watchdog; per thread the command it has given; the result. *Operations.* Run, retry, join, `RunAsync`, `WaitFor`, an adb
command with its timeout and its status check. *Hard.* A thread cannot be stopped: a try that is given up goes on beside the
next. A command is obeyed after its process was killed, or its answer is lost. *Correct means.* What is
reported as done was done in its order; an abandoned try starts no more than the command whose time it had read; a command runs a bounded number of times;
every call and thread ends.

### Port forwarder
`devil/android/forwarder.py`. *State.* The singleton of a process with two tables, the file lock of all processes, the pid
in it, the daemons on host and devices. *Operations.* Map, unmap one port or all of a device or of a host, kill the host's
daemon, initialize. *Hard.* Half a `Map` fails; a daemon or a process ends; one host port serves two device ports; processes of
several groups share one daemon. *Correct means.* Tables and daemon agree, and the tables are inverse to one another.

### Device caches and installing
`devil/android/device_utils.py` (install, push, properties, dump and load of the cache), `md5sum.py`, `sdk/adb_wrapper.py`.
*State.* Per host the caches of package paths, checksums and properties and a token; the token on the device; a dump.
*Hard.* Hosts take turns with a device, commands fail halfway. *Correct means.* What a session skips because of its cache is true.

### Boot and flashing
`device_utils.py` (reboot, root, wait), `fastboot_utils.py`, `sdk/fastboot.py`. *State.* How far the device has booted, its
root, `_client_caches`, the row of an operation. *Hard.* The old boot is taken for the new one; a device restarts
by itself; a flash fails in the bootloader. *Correct means.* A reboot is a real one, what is known of root is
so, the bootloader is left.

### Battery
`devil/android/battery_utils.py`. *State.* The device's charging, by hardware or as `dumpsys battery` shows it. *Operations.* The
two measurement contexts, `SetCharging`, `ChargeDeviceToLevel`. *Hard.* Every command can fail before or after it was
obeyed, and the whole operation is tried again. *Correct means.* Leaving restores; charging ends.

### Device fleet
`devil/android/device_blacklist.py`, `tools/device_status.py`, `device_recovery.py`, `provision_devices.py`,
`device_monitor.py`, `wait_for_devices.py`, `reset_usb.py`. *State.* One file of bad devices that threads and processes read, extend and write;
per device the step of its script. *Hard.* Two writers; a step that stops the framework and fails. *Correct means.* No entry is
lost; a device left without its framework is on the list.

### Flags, preferences, CPU and temperature
`flag_changer.py`: a stack of flag sets, the topmost in a file of the device, with quoting; SELinux is made
permissive when needed. `sdk/shared_prefs.py`: an XML file, changed in memory and written as a whole, while the application
does the same. `perf/perf_control.py` and `perf/thermal_throttle.py`: governor, CPUs and clocks of a device, and a log that reading
empties. *Hard.* Contexts that fail halfway; quotes in quotes; a reading whose answer is lost. *Correct means.* What a
context changed is as before when it is left.

### Logcat monitor and surface statistics
`logcat_monitor.py` and `perf/surface_stats_collector.py`: a thread that collects, told by events to hand over and to end.
*Hard.* The thread dies of an error, or outlives a bounded join. *Correct means.* A line and a frame are recorded once and in
order; stopping ends.

### Test server ports
`devil/android/ports.py`: a counter in a file under a lock, and a reset without it. *Correct means.* Ports are distinct.

### Tracing controller and agents
`systrace/systrace/tracing_controller.py`, `run_systrace.py`, `output_generator.py`, `tracing_agents/`, `systrace/profile_chrome/`.
*State.* The agents that started and that stopped, what each has changed on device or host, markers, results. *Hard.* A call of
an agent times out, and the rest of it goes on behind the controller; an exception nobody catches. *Correct means.* What stays
on a device has a failed call behind it; results are whole and of the agents that answered.

### BattOr shell, BattOr and USB map
`common/battor/battor/battor_wrapper.py`: an agent process driven through a pipe, flashed before traces.
`devil/utils/battor_device_mapping.py`, `find_usb_devices.py`, `lsusb.py`: a phone's serial line, out of several readings.
*Hard.* The process ends by itself; devices are plugged in and out between two readings. *Correct means.* One process at most, and
traces by new firmware; the line is that of the phone's own BattOr.

### Trace log
`common/py_trace_event/py_trace_event/trace_event_impl/log.py`, `py_utils/lock.py`: buffered events of several processes in one file.
*Hard.* A fork with events in the buffer, with the lock held, or while the parent writes. *Correct means.* The file is a list of events with
every event once.

### Dependencies
`dependency_manager/dependency_manager/`: `base_config.py` and `uploader.py` update a config together with cloud storage and roll back;
`cloud_storage_info.py` and `archive_info.py` (with `common/py_utils/py_utils/cloud_storage.py`) download and unzip; `manager.py`,
`dependency_info.py`, `local_path_info.py` and py_utils' `binary_manager.py` look a binary up. *Hard.* A step fails after an
upload; two writers; several callers unzip one archive. *Correct means.* A config names what exists in the cloud; a
fetch returns the whole tree of the hash asked for; a lookup takes the best file there is.

## Plan

What was planned first was what matters to the user of the application; then the parts of the tools by how much runs
beside something else in them. Done, in this order:

1. `OfflineQueue` with the abstract `ComplaintDelivery`, and its proofs;
2. `ComplaintInput`, the form that feeds it;
3. `RoadVerdict` and `ImageUpload`, which both of them call;
4. `AuthSession`, `Notifications`, `AppNavigation`, `ComplaintFilter`;
5. `TimeoutRetry`, under which nearly every other command of the tools runs, and its proofs;
6. `Forwarder`, with its proofs, and `DeviceCache`;
7. the services to one device and its host: `BatteryUtils`, `DeviceBoot`, `Fleet`, `FlagChanger`, `SharedPrefs`,
   `DeviceTuning`, `LogcatMonitor`, `SurfaceStats`, `Ports`;
8. the tools above: `Tracing`, `BattOrShell`, `BattOrMap`, `TraceLog`, `ConfigUpdate`, `CloudFetch`,
   `DependencyLookup`;
9. proofs for the form, the uploads and the login, for the application's screens, for the services to a device and for the
   stores, the BattOrs, the trace log, the lookup and the traces of the tools.

Left, in this order:

10. one Realm and one server for `ComplaintInput`, `OfflineQueue` and `ImageUpload` together: that a complaint saved offline by a form is
   the one the queue posts, with the photo the form took;
11. an abstract specification of the session (signed out, number known, token known, home) that `AuthSession` implements;
12. discharging and cooling of `BatteryUtils`, user builds in `DeviceBoot`.

## Modules and code

`PROJECT.json` maps every definition to its lines. Definitions with no entry there are either properties, the instance of an
`MC_` module, or variants of a definition that stand for a plausible bug; no specification uses the last kind, they
show that a property can fail.

| module | models | state in the code |
|---|---|---|
| `OfflineQueue` | the queue, its list, its retries | `id`, `history`: the two Realm tables; `itemsList`, `bound`, `retryClickable`, `cancelClickable`: the adapter and its holders; `stage`, `item`: the chain of callbacks of one retry and its row |
| `ComplaintDelivery` | what the queue promises | per complaint: unsaved, queued, delivered, withdrawn; how often the server created it |
| `ComplaintInput` | the form | `photo` is `mCropImagedUri`, `clickable` is `btn_upload`, `dialog`; `saving`, `kept`, `saves`: per save its transaction, its row and whether the open form queued it; `stage`, `name`, `image`: a submission and what it captured |
| `RoadVerdict` | the loop over the roads | `response`, `index`, the outcome, the dialog |
| `ImageUpload` | uploads | the two static fields; per upload its file and answer |
| `AuthSession` | signing in | `state`, `phone`, `token` of the preferences; fragment, views, countdown; per request its fragment's fate |
| `Notifications` | updates of statuses | the rows' status and estimated time, the last notification, per fetch its answer |
| `AppNavigation` | the task | the back stack, `login`, `firstTime`, `fromHelp`, pending timers and requests |
| `ComplaintFilter` | the filter | the dialog, its criteria, the list, the rows |
| `TimeoutRetry` | a decorated method | `cur` is `num_try`, `pos` and `result` per try its thread, `expired` its watchdog, `work` the commands of its threads; `removals` the `rm` of temporary files; `runs`, `orphans`: what the device did; `late`: commands started after the try was given up |
| `Forwarder` | port forwards | `d2h`, `h2d`: the two tables of a process; `pid` in the lock file, `holder` of the lock; `server`, `running`: the daemons |
| `DeviceCache` | what is remembered of a device | `path`, `verify`, `apk`, `sums`, `value`: `_cache` of each host; `token`, `session`; `saved`: a dump |
| `DeviceBoot` | restarts, root, flashing | `stage` of the device, `rooted`, `needsSu`, `offModeCharge`; `op`, `pos`: an operation's row of commands |
| `BatteryUtils` | charging and measuring | `hw`, `stopped`, `ac`, `usb` of the device; `todo`, `tries`: the commands of a try; `last`, `errors` of charging to a level |
| `Fleet` | blacklist, status, recovery, provisioning, monitor | `blacklist` is the file, `acc` a thread's access to it, `pc`, `step` the scripts' threads |
| `FlagChanger`, `SharedPrefs` | flags and preferences | `stack` is `_state_stack`, `file`; `xml`, `changed`, `file`, and the application's `copy` |
| `DeviceTuning` | CPU and temperature | governor, clocks, CPUs and mpdecision of the device; `throttled` |
| `LogcatMonitor`, `SurfaceStats` | recordings | the thread, its events, its queue, the file; `timestamps`, `last` |
| `Ports` | test server ports | `file`, `lock`, and per process how far it is |
| `Tracing` | a run of systrace or profile_chrome | `child` is `_child_agents`, `results`, `synced`; `held`: what is changed on device or host; `bg`, `work`: what goes on behind the controller |
| `BattOrShell`, `BattOrMap` | the BattOr | `shell` is `_battor_shell`, `tracing`, the processes, the firmware; what is plugged in, what each reading saw, the map's file |
| `TraceLog` | the log of events | per process `enabled`, `buffer`, `owner`, `lock`; `flock` and the file |
| `ConfigUpdate` | updates of a config | `disk`, `cloud`; per writer `data`, `pending`, its step |
| `CloudFetch` | downloads and archives | `archive`, `holder` of the pseudo lock, `tree` of each hash, per caller its step, the trees it has still to remove (`stale`) and its result |
| `DependencyLookup` | merging and looking up | `lookup` is `_lookup_dict`, the files there are, the result |
| `MC_*` | instances, see [runs](#runs-bounds-and-what-they-show) | |
| `OfflineQueueProofs`, `ComplaintsProofs`, `RequestsProofs`, `TimeoutRetryProofs`, `ForwarderProofs`, `AppScreensProofs`, `ServicesProofs`, `ToolsProofs` | theorems, see [proofs](#proofs) | |

`MC_Complaints` (queue or form), `MC_Requests` (upload or login), `MC_AppScreens` (notifications, task, filter or verdict),
`MC_Services` (the nine modules of one device and its host) and `MC_Tools` (the seven above the devices, and the caches) hold modules
that share no state. One of them runs in a behaviour, chosen by `part`; the others stay in one initial state. A property of such a
module is a conjunction of the modules' own, which have names and comments there.

### The application

One action is one handler, callback, or transaction as Android runs it: the main thread runs a handler to its end, a
Realm transaction is atomic, everything else interleaves. `running`, `form`, `screen`, `task` say whether the process or the
activity is there; `ProcessDies`, `Kill`, `Die` and `SwipeAway` end the process at any moment and keep what Realm,
the preferences and the server hold. An exception nobody catches (a null pointer, `get(0)` of an empty list, a row
that was deleted) is the end of the process as well. An `IllegalStateException` in a callback of `mCallBack` ends that
callback only.

The servers are external: they accept or refuse, the reply may be lost, and a request that the application has given
up (`"orphan"`) may still arrive. That is the difference between "the complaint failed" and "the complaint failed, and
exists". Whether there is internet is a free choice at every click.

*History variables* (`saved`, `withdrawn`, `excused`, `retaken`, `aborted`, `unanswered`, `left`, `overlapped`, `crashed`,
`leftover`, `outdated`) record an event and guard nothing. Many properties have the form "X, unless one of these
events occurred"; each event is named where the variable is written, and the property says that the code excludes all
other ways. For `excused` of `OfflineQueue`, for instance: the reply to a post was lost, the process ended during a
retry, or the list was rebuilt or scrolled during it.

Correspondences that are not obvious:

* `OfflineQueue` `SetAdapter`: `onChange` makes a new adapter, hence new holders whose buttons are clickable, while
  the old card's retry goes on. `OnBindViewHolder` covers scrolling: a recycled holder keeps its buttons as they are.
* `OfflineQueue` `RowReadable`: `mInputData` is a managed object. When its row is deleted, reading it throws
  `IllegalStateException` in `mCallBack`, which swallows it. The same read in an `onClick` or `onSuccess` is not
  swallowed, and ends the process.
* `OfflineQueue` `NextIds`: `max("id") + 1` inside the transaction; after the last row is deleted keys start again at 1.
* `ComplaintInput` `OwnPhoto`: the name goes into `mInputData` at the click, the file is read from the activity's field
  when the road service answers. `CameraOk` already sets the field to the file that the crop may write.
* `ComplaintInput` `Show`: a dialog shown while the form is not visible throws, and is swallowed.
* `RoadVerdict` `Visit`: the body reads `response.get(0)` in every round and sets `index = i`.
* `AuthSession` `Commit`: `FragmentTransaction.commit()` after `onSaveInstanceState` throws; `mCallBack` swallows that,
  after the state was stored. `getActivity()` of a destroyed fragment is null and ends the process (`StoreAndShow`).
* `AppNavigation` `Kept`: the logout's intent has `CLEAR_TOP`: the last login screen goes with all above it.
* `ComplaintFilter` `Word`: a word is a language and an index. A row's words are English, `IsAll` compares with the
  English `ALL`. `Spaced` holds the grievances the form spells with a leading space (`InputActivity2.java:110`,
  `" FALLEN TREE"`). A time the filter's format (`dd:MM:yyyy`, `FilterActivity.java:303`) cannot read, as the one the form writes
  (`dd/MM/yyyy`, `InputActivity2.java:213`), is day 0: which format the server answers with is not in the repository.

### The tools

One action is one command to a device, one system call on a shared file, one step of a thread between two of its waits; what a
process does alone between them belongs to the step. A command has three outcomes wherever the code can see the
difference: it is obeyed and answered, it is obeyed and the answer is lost or comes too late, it fails without effect. Which
happens is always a free choice, within a bound on the number of failures where one is needed (`MaxFails`, `MaxTimeouts`, and others).
Processes end at any moment in `Forwarder`, `BattOrShell`, `TraceLog`, `ConfigUpdate` and `CloudFetch`; the device restarts by
itself in `DeviceBoot`; hosts, callers and writers interleave in `DeviceCache`, `Fleet`, `Ports`, `ConfigUpdate` and `CloudFetch`.

*History variables* serve as for the application: `orphans`, `runs` and `late` (`TimeoutRetry`), `doubled`, `disturbed`, `leaked` (`Forwarder`),
`changed`, `unguarded`, `torn` (`DeviceCache`), `trouble` (`DeviceBoot`), `dropped`, `overlap` (`Fleet`), `failed` (`BatteryUtils`, `FlagChanger`), `outdated`, `wrote`
(`SharedPrefs`), `spoilt`, `missed` (`DeviceTuning`), `outlived` (`LogcatMonitor`), `skipped` (`SurfaceStats`), `timedOut`, `raised`
(`Tracing`), `moved`, `fileMoved` (`BattOrMap`), `clash`, `copied` (`TraceLog`), `raced`, `shared`, `late` (`ConfigUpdate`), `unsafe` (`CloudFetch`).

Correspondences that are not obvious:

* `TimeoutRetry`: a method is a row of steps, each one command, two commands by `RunAsync` (`Forks`), or a `WaitFor` (`Waits`). What
  ends an abandoned try is `GetRemainingTime` of the thread's group, which `_RunAdbCmd` asks before every command (`ReadTime`). The
  process is started later (`Spawn`), so that a try given up between the two still starts that one command on each thread. The file of a
  `large_output` repeat is removed by a plain thread, which asks for no time (`removals`, `Remove`).
* `TimeoutRetry` `Retriable`: the errors for which `retry_if_func` holds. Nested decorated calls run in the outermost
  one's group (`decorators.py:49-51`), so that one level of retries is all there is.
* `Forwarder`: an operation holds the file lock for all of it and is one step, but for `Map`, whose pairs are steps: processes and
  daemons may end between them. `Group` stands for a process group's leader, whose pid and start time the lock file names.
* `DeviceCache`: the token is a number of a session. `unguarded` says that two sessions did not take turns, or that one changed the device
  before it loaded a cache (`LoadCacheData` may come at any time of a session) or after it saved its own. `torn` marks the files that
  `RemovePath` or a push by directory changed behind the cached checksums.
* `DeviceBoot`: `stage` goes on by itself, so that a wait that looks too early sees the old boot.
* `BatteryUtils`: `Script` chooses the commands by what the device shows at the begin of every try, as a retried method does. A command of a
  profile is a row itself, the hardware's switch and then the overrides or the reset of `dumpsys battery`, and may fail between the two.
* `FlagChanger`: characters are classes (letters, blank, two quotes, `=`, backslash): the serialiser and the parser tell no more apart.
  `Read` is the parser's loop, as a recursive function of how much of the line was read.
* `Tracing` `Plan`: what an agent does in a call is a row of changes (`On`), of restorations (`Off`) and of steps without effect
  (`At`); a timeout leaves the rest of the row to the background, an exception drops it. The marking passes over all agents, as the
  loop of `_IssueClockSyncMarker` does, and has no steps for those that cannot carry a marker.
* `Tracing` `LeftIsExplained`: an agent like ftrace takes its last change back in `GetResults`; an exception in the `GetResults` of
  an agent before it leaves that change. It is the one clause that names a phase of another agent after the stop.
* `TraceLog`: `flock` belongs to an open file, thus to parent and forked child together.
* `CloudFetch` `Extract`, `RemoveFile`: a file of the archive at a time, `Files` having the one that is looked for and another one.
* `ConfigUpdate` `MaybeObeyed`: what a call of cloud storage does that fails, or whose caller is interrupted, may be done or not.
* `Fleet` `RecoverDevice`: only a device that is to be restarted is restarted and waited for; which ones these are is known before the Reset.
* `DependencyLookup` `Versioned`: of the results of a lookup only `None` is a `NoPathFoundError`; an error of cloud storage goes to the caller.

## Runs: bounds, and what they show

Every passing run explores its whole state space. `CHECK_DEADLOCK FALSE` stands in the configurations of the passing runs: every complaint, photo,
call or failure may be used up, and what a part is when it has nothing left to do is no error.

| run | instance | states | shows |
|---|---|---|---|
| `complaints` | the queue with 2 complaints, 2 holders, 2 retries at once, or the form with 2 photos, 2 submissions and 2 saves, of which 2 are under way at a time (`MCBound`); at most 2 acceptances each; symmetric | 1 044 988 | `NeverLost`, `DuplicatesAreExplained`, `DeletedIsNotPosted`, keys and history (`RecordsConsistent`); `ImplementsDelivery`: the queue implements `ComplaintDelivery`; the form's photo is the one named and exists (`FormPostsItsPhoto`), its duplicates at the server and in the queue and its dead buttons have the named causes (`FormIsExplained`) |
| `complaints_live` | the same with 1 holder, 1 submission, 1 acceptance, no symmetry | 256 353 | an accepted complaint leaves the queue, a deleted row the list, and every submission and offline save ends |
| `requests` | 3 photos and 2 uploads at once with the limit 5 of the code, or 2 numbers and 2 requests of a login | 153 825 | refusals are bounded; an unsent photo has its cause; the token is the number's own; crashes, dead forms, wrong screens have their causes; uploads and requests end, the resend button comes back |
| `app_screens` | 2 complaints, 2 fetches, 2 changes of status in all; tasks of up to 6 activities, 2 timers, 2 requests; the filter over 2 complaints, 2 grievances (one spelled differently), 2 statuses and the one the form writes, 3 days, 2 languages; answers of up to 3 roads at distances 0..3 with limit 1; symmetric | 1 660 580 | complaints and notifications agree, no update is missed and no status falls back without cause; no home without a login but by the two named ways, and no login screen over a login; the list is what the criteria ask for; when verdict and posted road are right |
| `road_verdict_near` | answers of up to 3 roads | violation | see [findings](#findings) |
| `complaint_filter_hindi` | 1 complaint | violation | see [findings](#findings) |
| `timeout_retry` | 1 retry; 2 steps, the first of two checked commands on two threads, the second a `WaitFor`; errors retried, a missing adb not; one command at a time that repeats in large output mode or is left to the device (`MCBound`) | 512 158 | what is reported as done was done in order, by all its threads; a try given up starts the commands of one step at most; a command runs at most twice per try; calls and threads end |
| `forwarder` | 2 processes, 2 groups, 1 device, 2 ports, 2 host ports; symmetric | 1 401 666 | tables and daemon agree but for forwards taken away by others or by a failed `--unmap-all`, or left by a failed call or a dead process; the tables are inverse but for doubled host ports |
| `services` | one device and its host: batteries up to level 2, 3 boots, 2 devices of the fleet with 3 scenes of scripts, 2 flags of quotes and blanks in stacks of 3, 1 preference of 2 values, 3 product models, logs of 2 lines, a ring of 2 for 4 frames, 4 ports | 311 701 | restarts are real and root is known (`BootIsSound`); blacklist entries stay and ports are distinct (`LockedFilesAreSound`); contexts restore (`ContextsRestore`, `FlagsAreRestored`); lines and frames once (`RecordingsAreSound`); charging and stopping end |
| `tools` | nine scenes of agents; 3 processes of a BattOr agent, 2 phones with 2 BattOrs and 2 replugs; a log of 3 processes, one of them forked; 2 writers, 3 callers of 2 hashes; 2 configs; 2 hosts with 3 sessions on one device, as far as they are guarded (`MCGuarded`) | 2 392 513 | traces, recordings of a BattOr, the log, and what configs, fetches and sessions remember are sound (`TraceIsSound`, `BattOrIsSound`, `LogIsSound`, `StoresAreSound`), each but for its named causes; a lookup takes the best file, and falls back from the versioned platform only where that has no place at all (`LookupIsBest`) |
| `stale_cache` | 2 hosts, 2 files, 2 versions | violation | see [findings](#findings) |
| `trace_log` | a process that forks, and another one | violation | see [findings](#findings) |

Why the bounds are enough to meet the interesting cases:

* *Two holders and two retries.* A duplicate needs a card whose retry runs and a second card of the same row: that is
  two of each. Two complaints are needed for keys to collide and for a holder to be recycled. The proofs cover any number.
* *At most 2 acceptances* (`MaxAccepted`): the properties tell apart none, one and more than one.
* *Two photos*: the one that was named and the one taken after it. *Two saves*: the second is queued while the first is. `MCBound` is a
  constraint of the run: beyond two submissions or saves under way nothing new is related.
* *`MCGuarded`* is a constraint of `tools`: what follows an unguarded change of the caches is excused by `LastSessionIsRight` in any case,
  and `stale_cache` shows what it can be.
* *Three photos, two uploads*: the static path can belong to a second or third photo when one is refused; the limit is the code's.
* *Two requests of a session*: a verification, with a resend, an SMS or the request of a form that is gone.
* *Two fetches, two changes* (`MaxUpdates`): an older and a newer answer about one complaint, or answers about two.
  `MaxStatus` bounds the status of one complaint; a status is a number since the code never interprets it beyond
  "pending or not".
* *Six activities* (`MaxTask`): a home, its help or branch, a second home and the login screens of two late timers; every
  action fires. `MaxLate` and `MaxAsked` bound timers and requests whose screen is gone.
* *Three days*: before, in and after a period, with both ends.
* *One retry, two steps*: an abandoned try beside its successor, and a step that depends on an earlier one. `MCBound` is a constraint of
  the run: without it the instance has some ten million states. It lets one thread of one try repeat its command, the left one, since
  the threads of a step differ in their names alone, or one command be left to the device by a killed process. The proofs cover any
  number of tries and steps without it.
* *Two processes in one group or in two, two ports*: a `Map` of two pairs that fails after the first, a host port shared by two device
  ports, a daemon killed by a stranger. One device is enough for what one process does to another, as no operation relates devices.
* *A ring of 2 for 4 frames*: readings that overlap, that fit and that miss frames. *Four ports*: a taken one, and the end of the range.
* *Three boots*: one asked for, one by itself, one after a flash.
* *Two failures or timeouts* (`MaxFails`, `MaxUpdateFails`, `MaxTimeouts`): one in an operation and one in what recovers from it.
* *Three callers, two hashes*: two for one archive and one that wants another hash. *Three sessions*: two hosts, one of
  which comes back.

Symmetry is used in runs without liveness only, over sets whose members no definition tells apart.

## Fairness

Safety is checked without any. Liveness is checked with weak fairness of:

* the callbacks of a request (`Callback(k)`, `Reply`): OkHttp ends every call, with an answer or a timeout. It is the
  disjunction of all outcomes, so that nothing says *which*: no run assumes that a server ever accepts;
* queued Realm transactions and their `onSuccess` (`SaveCommit`, `SaveSuccess`, and steps of `Callback`): Realm runs
  them on its thread pool and delivers the result to the looper;
* `OnChange`, while the list differs from the table: the looper delivers a change to its listener;
* the countdown of the resend button, a framework timer;
* `TimeoutRetry` (`FairSpec`): the caller's thread, the watchdog's expiry, and of every thread of a try its next step, among them
  the killing of a process whose time is over; neither the device's answers nor its obedience. A call without a timeout may
  wait for ever, and the property is about calls with one (`limited`);
* `BatteryUtils`: the thread of the operation goes on, and a battery that charges to a level is polled. A command answers or fails,
  and which of both is open; that is what adb's own timeout, modelled in `TimeoutRetry`, provides;
* `SurfaceStats`: the collecting thread (`Collector`), the caller's reading of the queue (`Gets`) and its `Join`. That the
  thread dies of an error is one of the collector's steps.

Weak fairness is enough, since each of these stays enabled until it is taken or the process ends. Nothing is assumed of
the user. The liveness properties of the application accept that the process ends, as it may at any time: what they exclude is
a button, form, card or upload that waits for ever in a process that lives.

## Proofs

All theorems are about any sets of complaints, holders, calls, files, threads' steps, processes, ports, writers, callers and any bound.
The assumptions are the named assumptions of the modules: "none" values are not members of the sets they stand outside of, bounds
are numbers, steps are numbered, flags are such as the tokeniser can read (`FlagsAssumption`), and, where something is counted, calls at once are finitely many (`CallAssumption`). A proof module extends
the module of the run, so that a theorem states the very property the run checks. Where the run composes parts that share no state, the
property is a conjunction over the parts; each part has an inductive invariant of its own, proved for `[Part!Next]_partVars`, and a
part that does not run keeps its initial state, for which the invariant holds as well (`PartsStep`).

`OfflineQueueProofs`
: `TypeCorrect`, and `DeliveryInvariant`: `DeliveryInv == TypeOK /\ CallsKnow /\ UniqueIds /\ NeverLost` is inductive. `NeverLost` alone is
  not. A row is deleted in `CopySuccess`, and only what the callback knows says that this is safe: its complaint was
  accepted, and its copy was written, or removed by a logout (`CallsKnow`). The row is looked up by its key, so that
  `UniqueIds` decides which row goes (`DeletesOwnRow`); and unique keys in turn rest on `NextIdsFresh`. `NeverLostHolds`
  and `UniqueIdsHolds` follow. `HistoryIsBackedHolds` counts: copies in the Realm and retries on their way to one are together at most
  what the server has created (`CountsOfCalls`, `FewerAcceptances`).

: `QueueImplementsDelivery`, that `Spec` implements `ComplaintDelivery` under the mapping `Status`. `StatusKept` says what a status
  depends on, so that nearly all actions stutter; `SaveOffline` is `Save`, `ServerAccepts` is `Create`, `CopySuccess` is `Deliver` or,
  if a cancel came first, `Withdraw`, and cancel and logout are `Withdraw`. `DeletedIsNotPostedHolds` proves the action
  property from `TypeOK` alone, since `BisagNear` reads the row through the Realm.

: `DuplicatesAreExplainedHolds`. The invariant follows a complaint that no named event has befallen: it has one card (`OneCard`),
  whose button is dead while its retry is in progress (`DeadDuringRetry`), hence one retry and no request given up
  (`OneRetry`), and the server has not created it before that retry is accepted (`AcceptedKnown`).

`ComplaintsProofs`
: The form, `FormInv`. `FormPostsItsPhotoHolds`: a submission in progress uploads the photo its complaint names, or that photo was taken
  again (`ImagesFit`), and what it uploads exists or the crop was aborted; this needs to know whose the form's photo is at any time
  (`PhotoIsOwn`), down to a finished form that keeps it for saves still queued. `FormIsExplainedHolds`: a complaint that no
  named event befell has one submission, and is unknown to the server and to every submission as long as it can still be submitted or is
  saved offline (`SentOnce`); two saves of one photo are told apart by which came second (`SavesFit`); a dead button without a submission was left so by an error nobody answers (`DeadForm`).
  `RecordsStayConsistent` and `NothingIsLost` carry the theorems on the queue over to the composition.

`RequestsProofs`
: Uploads: `UploadInvariant` with `TypeCorrect` and `UnsentIsExplainedHolds`. An upload in progress carries the static path, or another
  complaint has overwritten it and the photo is excused (`PathIsOwnOrExcused`); this is what makes the retry, which sends
  the *current* path, harmless or explained. `TriesBoundedHolds`: a refusal either counts one up within the limit, or
  beyond it gives its call up, so that the sum of counter and calls does not grow.

: The login: `LoginIsSoundHolds` by `AuthInv`. That the token is of the stored number is not inductive: replies store it, and
  they come for a fragment that may be gone. As long as no screen was left during a request, every request is about the stored number and
  of the fragment that is shown (`NumbersAgree`); whether or not one was, a request whose fragment is gone has its named cause
  (`RequestsOfScreen`), which is what the crashes and the dead forms need.

`TimeoutRetryProofs`
: `ControlCorrect`, that `ControlInv` is inductive: besides the types, a thread's work is that of the step its try is at (`WorkIsOfStep`) and of the
  step's crew (`CrewWorks`), an ended try is idle (`EndedIsIdle`), later tries have not begun (`LaterIsUntouched`), and a try that was given up
  either has a result or its watchdog has expired (`GivenIsOver`). The last one is what `AbandonedStartsFew` needs: a try that was
  given up has no further time read (`NoTimeIsRead`), so that what it still starts are the commands whose time it had read, all of the step
  it is at (`LateInv`). `ExecutedInOrder` adds `OrderInv`: whatever try a thread belongs to, a step is reached, and an orphaned or
  executed command of it exists, only after the checked commands of the steps before have run (`TriesInOrder`, `OrphansInOrder`,
  `RunsInOrder`). `DoneInOrder` alone is not inductive, since a killed process's command may still be executed, at any later time.
  `RunsAreBounded` rests on `CountInv`: the runs of a command are at most those
  that the tries so far have used up (`Spent`), of which each has two, the command of a killed process being the second (`OrphanIsOver`); a try gains none, since only a missing status
  has a command sent again, and that only once (`MoveGainsNone`).

`ForwarderProofs`
: `Invariant`, with `TablesAreInverse` and `ForwardsAreListed`. The tables are partial functions whose entries are of the declared sets
  (`TablesAreFunctions`), inverse to each other where no host port was given twice (`AgreeIn`); `VanishKeeps` says what a daemon's end
  costs: all forwards of a device or of all devices go, and each process that lists one is `disturbed`. `TablesMatchDaemon` is part of the
  invariant, since `MapPair` adds to the daemon and both tables, and `Unmap` deletes an entry and its forward.

`AppScreensProofs`
: All six properties of the run, from an invariant for each part. `UpdatesStayShown` (`NotesInv`): the row of a complaint is never ahead of the
  server, and the answer of a fetch that met no other is not behind the row (`NothingAhead`); since fetches that are in progress at
  once have met (`FetchesFit`), a fetch that met none is alone, and its answer is the newest there is (`UpToDate`). That a status
  does not fall back (`ScreensKeepGoingForward`) needs the same.

: `HomeKeepsNeedingLogin` (`NavInv`). The property speaks of the top of the task, and the back key uncovers what lies below. So the invariant
  is about every activity of the task: a branch lies on the home that opened it, and without a login there is no home in the task, or what
  there is was left over.

: `ListKeepsMatching` (`FilterInv`) shows the list right as it was when the filter was applied last: what the query takes is what the criteria
  ask for, but for the rows whose word is spelt otherwise (`Misspelt`).

: `RoadStaysRight` rests on `ScanFinds`, which says what the loop's recursive function gives for an answer of any length: the distance of the
  first road and the number of the last. The library's induction takes a predicate as parameter and cannot be used; instead the
  least place where function and closed form differ (`LeastOf`, from the well-foundedness of the numbers) leads to a contradiction.

`ServicesProofs`
: Nine invariants, one per part, and from them all six invariants of the run; `ServicesTypesHold` are the types.

: `BootStaysSound` (`BootInv`). An operation is a row of commands, of which the flashing's depends on the images, any number of them.
  So the invariant speaks of places in the row: past its reboot command a `Reboot` has a boot of its own or the device
  is still on its way to it (`RebootInv`), what is known of root was forgotten before the device restarts (`RootInv`), and the charging setting
  is back before the last restart of a flashing (`FlashInv`); `RowOfFlash` computes which command is at which place.

: `LockedFilesStaySound`. `FleetInv`: as long as no two processes are at the blacklist, the file holds what was added since the last
  reset, or is just being written with it, and the thread that reads has read that (`FileHolds`); a device without its framework is on the
  list, on its way there, about to be restarted, or its entry was dropped by a Reset (`StoppedIsNoticed`), which needs to know who waits for
  whom (`PhasesFit`).
  `PortsInv`: only the holder of the lock works, and all issued ports lie below the file's.

: `ContextsAreUndone`. What was changed is undone by a command that is still in the row: `BatteryInv` relates the rest of the row to the
  charging, to what `dumpsys battery` shows and to whether that is an override, `TuningInv` does so for governor, clocks and mpdecision, `EnforceInv` for SELinux, and `PrefsInv` says that the file holds the
  commit from its first command on, unless the application wrote it.

: `FlagsComeBack` (`FlagInv`). The heart is a lemma about data, `RoundTrip`: `ParseFlags(SerializeFlags(flags)) = flags` for any finite set
  of flags. What the tokeniser, a recursive function over the line, does is followed word by word: `Read` of two lines joined is `Read` of
  the second from where the first ended; an unquoted word, an escaped one in quotes, and a key with a quoted value are each read back as they
  were; and the tokens of a line of flags are the flags in their order. As the library's induction takes a predicate, each of these looks at
  the least place where it fails. The invariant then says that every level of the stack is a finite set of such flags (`ParseFinite`: what was in
  the file is finite, too), and that the file holds the topmost one or a write failed. `FlagsAssumption` is what makes the
  round trip possible, and names what the code cannot do: no flag is empty or ends in a backslash. `_ParseFlags` drops an empty flag, and
  takes the backslash at a flag's end for an escape of the closing quote. Backslashes elsewhere, before quotes and blanks too, come back: the
  escaping puts one before each quote, and the tokeniser takes one away there, whatever stands before it (`EscapedReads`).

: `RecordingsStaySound`. `LogcatInv`: only the thread of the current recording runs, and it is past every recorded line. `SurfaceInv`: while the
  collector lives it has exactly the frames between the start and the last one it read (`Between`, `BetweenJoins`), hands over once, and
  parks or dies with one item more at most. A `Stop` that raised finds the thread dead, whatever follows.

`ToolsProofs`
: `BattOrsStaySound`. `AgentInv`: the wrapper's shell is the only process, and on the way to a recording it is closed, flashed and started
  again. `PlugsInv`: while nothing was replugged, what the earlier readings saw is what is plugged in, so that the map made of them gives
  each phone the BattOr of its own port (`NothingMoved`). It assumes finitely many BattOrs (`MapAssumption`), for the map is
  made only if there are as many phones as BattOrs, and `PairsFit` counts them.

: `TracesStaySound` (`TraceInv`). The property speaks of the exit only. Before it, a change is excused by what happened to its own agent,
  or is due (`Due`): a step that undoes it lies ahead, in what is left of the call in progress, in the agent's later phases, or in its
  thread. What lies ahead where is computed from the plans of the eleven agents (`Plan`). For the results the lists are followed through
  the phases: those who started, stopped and were collected keep the order of the scene (`KeepsOrder`), and who is missing among them timed
  out, the controller itself not before the last phase (`NotGiven`). `TracingAssumption` says that a front end makes at most one agent of each kind.

: `LogStaysSound` (`LogInv`). Who flushes holds the lock of its process (`LocksHeld`), and while none was left behind by a fork
  (`clash`) one thread is at the file, whose length tells whether a comma is next (`OneAtTheFile`, `ListIsOpen`). The file has no event of a
  buffer but the copies of a fork (`OnceInFile`), and every event is in the file or in its process's buffer, which is empty when the
  process leaves (`NothingMissing`). `TimesOf` relates the number of occurrences to the tokens that have the event.

: `LookupStaysBest` (`LookupInv`). The entry of a platform is what merging the configs gives (`EntriesMerged`). What the recursive
  function of the merge computes, for lists of any length, is `UpdateFollows`, by a least counterexample as in `ScanFinds`: the result begins
  with the first list, has the paths of both, and new paths are in the order of their first groups. Hence the first group with an existing file
  has the file that the configs rank first (`MergedOrder`, `LookupGetsBest`), though the merge drops repeated paths and empty groups; and the answer
  of the versioned platform is none exactly where the configs list no file there is and name no cloud storage (`FetchesBest`).

: `StoresStaySound`. `UpdateInv`: as long as writers did not overlap (`raced`) and no two rollbacks shared the path `None` (`shared`), what
  the file names is in the cloud or was rolled back late (`late`), what a writer's copy names is there or still among its jobs (`DataBacked`), and what its rollback would
  delete nobody relies on (`OwnUnused`). `FetchInv`: under the lock the holder alone fetches, and leaves with the archive it
  wants (`LockInv`), with nothing assumed. Past the lock, where nothing excludes others, `OneUnlocked` has to be assumed (`unsafe` is the
  negation, or an end within a tree that leaves the dependency): then the archive is still the wanted one, and a tree is empty, whole, being removed or extracted,
  or a rest without the dependency (`SafeInv`). It is the place where the code's lock ends too early, made precise. `CacheInv`: while sessions take turns, what a
  session remembers is so as long as no later one changed the device (`changed`), and what was saved with its token too; the token on the device is the last one given out, each session has
  its own (`TokensAreOwn`), and a host without a session remembers nothing (`NothingOutside`). A change of the device
  leaves neither another host nor the saved cache with the token that is on the device then (`ChangeKeepsRight`), which is why comparing
  tokens is enough. It assumes that "unknown" is no version and no truth value.

: `ToolsTypesHold` are the types of the eight parts. Six of them need an invariant of their own, since a bound in a type is a statement about
  all steps so far: no file of the shell is beyond the traces begun (`AgentTypes`), what stands in the USB tree is a device, whatever was replugged (`PlugsTypes`), a process adds no more events than it may,
  and a child's first copies are its parent's (`LogBounds`), a writer's place is one among its jobs (`UpdateBounds`), a tree
  has at most one file of a name (`FetchBounds`), and a lookup's answer is one of the files it looked among (`LookupAnswers`).

*Only model-checked:* liveness, which is out of the prover's reach: `ComplaintsGoOn`, `RequestsEnd`, `EveryCallEnds`, `WaitsEnd`. Every
invariant of the passing runs is stated by a theorem above.

## Findings

* **Near a road and refused** (`road_verdict_near`; `InputActivity2.java:305`, `OfflineComplainListDataAdapter.java:154`). The loop that
  should find the nearest road reads `response.get(0)` in every round. The first road decides, whatever the others
  are. `RoadIsRight` of `app_screens` says how far this is harmless: nobody is let through who is too far from every road, and
  nothing changes if the service lists the nearest road first. The posted road is the last of the list
  (`index = i`), thus the nearest one only if that comes last (`PostedRoadWhenNearestLast`).
* **A filter without selection shows nothing in Hindi** (`complaint_filter_hindi`; `FilterActivity.java:320`). The selected
  words are compared with the English `ALL`, which is not the first item of the Hindi spinners
  (`res/values-hi/strings.xml:6` and `:20`).
* **A stale cache is loaded** (`stale_cache`; `device_utils.py:2446`). The comment at `:2431-2433` says that the token prevents a stale cache
  from being used when devices are shared. But the token changes once per session and not with what the session does: a host that dumps
  its cache and then installs or removes something leaves a device whose previous token still matches the dump. `LastSessionIsRight`,
  a part of `StoresAreSound` of `tools`, says how far this is harmless: while sessions take turns and dump at their end, what the last one remembers is so.
* **A forked child breaks the trace log** (`trace_log`; `log.py:116`). `trace_event.py:163` promises that several processes can write to one log,
  and `:159` that forked ones do so by themselves. The writers exclude one another by `flock`, which belongs to the open file, and a
  child has its parent's: both get the lock at once, and their writes interleave. `LogIsSound` of `tools` says that the log is
  right otherwise.

The history variables hold more that a maintainer may want to act on; each is an event a property needs as its excuse:

* a complaint can be created twice after a timeout, after a restart between the post's reply and the row's deletion, or
  by a second press of retry, since every change of the Realm makes the button clickable again (`OfflineQueue`);
* a photo taken again while the road service is asked is uploaded under the other's name (`ComplaintInput`, `retaken`);
* a crop that is aborted leaves a URI to which nothing was written, and the complaint is posted (`aborted`);
* an HTTP error leaves the upload button and the forms of the session dead (`unanswered`);
* the upload button works while a save is queued, and a second save makes a second row of the same complaint (`resaved`);
* the form and the cards write the status `Pending.`, the spinner has `PENDING`: a filter for it does not find a complaint that the server
  has not answered about (`ComplaintFilter`, `Misspelt`);
* after six refused uploads, of any photos, no photo is sent until the process ends (`ImageUpload`);
* a reply after a rotation ends the application (`AuthSession`, `left`);
* one update of a complaint that has no row ends the application and undoes all other updates (`Notifications`);
* the help's flag survives a logout, and the next introduction opens the home (`AppNavigation`, `leftover`);
* `OtpScreenFragment.java:77` registers the SMS receiver only after `checkAndRequestPermissions`; `onResume` registers it
  unconditionally.

Likewise in the tools:

* the trees of a fetched archive are removed and unzipped outside the lock under which it was downloaded: a caller may return
  a path below a tree that another one removes or has only begun to extract (`CloudFetch`, `unsafe`);
* two writers of a config that overlap, or a rollback after a rollback, whose backups share the path `None`, leave a config that names
  what the cloud does not have (`ConfigUpdate`, `raced`, `shared`); so does an interrupt after the config was written and before
  `_pending_uploads` is emptied, whose uploads are rolled back (`late`; `base_config.py:280-288`);
* a removal of stale trees or of a failed unzipping that ends halfway can leave `path_within_archive` without the rest, which the next
  call takes for the whole tree (`CloudFetch`, `unsafe`; `archive_info.py:50-51`, `dependency_manager_util.py:99-103`);
* `RemovePath` and pushes of whole directories leave the cached checksums as they were, and a later `PushChangedFiles` then leaves out what it
  should push (`DeviceCache`, `torn`);
* threads of one process have a lock for the blacklist, processes none: entries of one are lost when another one writes (`Fleet`, `overlap`);
* a device that provisioning lists between the recovery's survey and its `Reset` is taken off the list, and neither restarted nor listed again
  (`Fleet`, `dropped`; `device_recovery.py:148`);
* a process of another group, whose leader the lock file does not name, kills the host's daemon with everybody's forwards when it
  makes its instance (`Forwarder`, `disturbed`);
* a `--unmap-all` that was obeyed and then timed out, or returned a bad status, leaves the tables with forwards that are gone
  (`Forwarder`, `UnmapAllFails`, `disturbed`; `forwarder.py:214-227`);
* the application may write its own preferences between the commit and the kill, and so undo the commit (`SharedPrefs`, `outdated`, `wrote`);
* a recording thread of logcat that outlives the join goes on when the next one starts, as both share the event (`LogcatMonitor`, `outlived`);
* a `Stop` of the surface statistics that raised keeps its dead thread, and a second `Stop` waits for it without an end (`SurfaceStats`, `again`;
  `surface_stats_collector.py:46`, `:93`);
* between two readings of the USB tree a device may be plugged elsewhere; the line is then of another phone (`BattOrMap`, `moved`);
* a call of an agent that timed out goes on behind the controller, and changes the device after it was restored (`Tracing`, `timedOut`); the controller's own
  results, when they time out, are left out of the output (`tracing_controller.py:207-225`).

## Not modelled

### The application

* **Location** (`Input/MyLocationListener.java`, `Input/SingletonLocationManager.java`): the listener keeps the first position that was accurate enough,
  also for later complaints (`InputActivity2.java:238`). Positions are data to the models: what the road service answers for one is a free
  choice, so that no property could tell a fresh position from an old one.
* **Lists and details** (`AllComplaints/`, `Individual_Detail_Activity`, `FilterDataAdapter`, `NotificationActivity`): they show rows
  and keep none; the bindings that can end the application are in `Notifications`, among them a complaint that left the pending state
  without an estimated time (`linearListDataAdapter.java:61`). `NotificationActivity.onRefreshNotification` is never called.
* **Settings**: a language is a preference; the logout that clears it is in `AuthSession` and `AppNavigation` as far as
  they see it.
* **Permissions, connectivity, keyboard** (`models/StaticMethods`), **setup and REST interface** (`MainApplication`, `Network/Api`),
  **contact screen**, **layouts**: no state of the application.
* **Recreation of a killed form** for the camera's result (`InputActivity2.java:548`): the form ends with its process.
* **The dialog of a refused card** is built and never shown (`OfflineComplainListDataAdapter.java:167`), although the comment above it says "Show
  you are too far away from road"; `CardRefuses` and `BisagFarOrFailed` model what happens, nothing. An empty answer of the road
  service ends the application there (`:150`), which `RoadVerdict` models.
* **Texts and their validation**: an input that is not valid changes nothing.

### The tools

Of modelled parts:

* *Timeouts*: a nested decorated call has no timeout of its own, by the code; a thread's exception is one of two values.
* *Forwarder*: after a map that failed the warning names an unbound `e`, which raises in Python's own way; the model has the failure.
* *Battery*: the check for updates looks for a line that is `UPDATES STOPPED` and no more (`battery_utils.py:421-424`), which `Met` takes for
  one that may be met whatever is shown.  `_DischargeDevice`, `LetBatteryCoolToTemperature`, `GetNetworkData` and `GetPowerData`. A `PowerMeasurement` whose entering failed for good can
  leave overrides behind; `Restored` says nothing of failed ones.
* *Device caches*: finding out which files of a directory differ, split packages, and the many commands of `DeviceUtils` that keep nothing.
  `DumpCacheData` turns the sets of checksums of the live cache into lists on the way.
* *Boot*: the wait for wifi, user builds.
* *Fleet*: a reader of one process may meet a file that another one is writing. `provision_devices.py:145` compares `DeviceUtils` objects with
  serials, so that `NoDevicesError` is never raised there.
* *Flags*: a flag with a backslash at its end, and the empty one, do not survive the line, and `FlagsAssumption` leaves them out. Other
  backslashes are part of the model (`flag_changer_test.py:118-126`).
* *Logcat*: searching the file. *Ports*: the two probes, and a lock file that cannot be opened.
* *Tracing*: the parsing of options and traces. `--timeout` has no default, so that timeouts apply only when asked for; more than three results with
  parts of profile_chrome are never serialised; the logcat monitors of its agents are never stopped.
* *BattOr*: assertions that fail change nothing; descriptors of lsusb are values. A `readline` from an agent that hangs never times out.
* *Trace log*: the decorators of `trace_event.py`, and meta events.
* *Fetching*: listing, inserting and removing objects by hand. The content of a download is not compared with its hash.
* *Lookup*: the environment variables and the prefetching of `devil_env.py`. There `Initialize` puts later configs in front.

Whole parts:

* **Device settings** (`settings.py`, `device_signal.py`, `cache_control.py`): single commands without state between them.
  In `settings.py` `key in self` is always false, so that `__setitem__` always inserts.
* **SDK wrappers and screen tools** (`app_ui.py`, `aapt.py`, `dexdump.py`, `screenshot.py`, `video_recorder.py` and others): command lines
  and the parsing of output.
* **Host utilities** (`markdown.py`, `geometry.py`, `zip_utils.py`, `xvfb.py` and others): text, geometry, archives; nothing that runs beside anything else
  or fails halfway in a way a caller relies on.
* **Vendored libraries, viewer and lint tools** (`third_party/`, `tracing/`, `common/eslint`, `common/node_runner`): third-party code, the trace viewer, which is a web
  page, and wrappers of JavaScript tools.
