# Verification of the Sony hardware HALs

TLA+ models of the concurrent parts of this repository, TLC configurations that
check them on small instances, and TLAPS proofs of their main safety properties
for all instances.

## 1. The system

The repository holds the hardware support of Sony devices for LineageOS. Most of
it is configuration and user interface; the logic is in the parts of this table.

| Part | Where | State | Operations |
| --- | --- | --- | --- |
| Synchronized worker thread | `hidl/fp/SynchronizedWorkerThread.cpp` | `currentState`, `desiredState`, an eventfd, two mutexes, a condition variable, the thread | `Start`, `Stop`, `Pause`, `Resume`, `moveToState`, `waitForState`, `isEventAvailable`; the worker's loop |
| FPC HAL | `hidl/fp/BiometricsFingerprint.cpp` | client callback and its mutex, `gid`, `db_path`, `auth_challenge`, the pointer `fpc` | HIDL calls; authenticate and enroll sessions; navigation; restart of the TZ app |
| FPC library | `fpc_imp_yoshino_nile_tama.c`, `fpc_imp_loire_tone.c`, `common.c`, `QSEEComFunc.c` | cached `auth_id`, the command buffer, open handles, DMA buffers, the sensor's power | `fpc_init`, `fpc_close`, `fpc_capture_image`, `fpc_navi_poll`, one function per command |
| Egistec HAL, legacy | `hidl/fp/egistec/legacy` | `mGid`, `mCurrentChallenge`, `mAuthenticatorId`, client callback and its mutex, the ION buffer and its lock | HIDL calls; two session loops |
| Egistec HAL, current | `hidl/fp/egistec/current`, `EventMultiplexer.cpp` | `mGid`, `mOperationId`, `mNewPrintId`, `mEnrollTimeout`, `mEnrollChallenge`, callback and mutex | HIDL calls; two session state machines; gestures |
| Charger HAL | `interfaces/sony/Charger` | `chgStopReason`, `chgLimit`, two sysfs nodes | AIDL calls; the uevent listener |
| Audio amplifier HAL | `amplifier/audio_amplifier.c` | `handle.state`, `fb_prot_mutex`, calibration data, two threads | `amp_calib`, enable and disable output, close; calibration; failure detection |
| Charger settings app | `XperiaModules/XperiaCharger` | three global settings, a sysfs node, what the battery service remembers | the page, the tile, `BatteryMonitorService`, the boot receiver |
| TZ access of the Egistec HALs | `hidl/fp/QSEE*.cpp`, `DmaBuffer.cpp`, `EGISAPTrustlet.cpp`, `EgisFpDevice.cpp`, `UInput.cpp` | file descriptors, shared buffers | one blocking call per command |
| Other settings apps | `XperiaModules/*`, `Euicc` | preferences | Android callbacks on the UI thread, a service |

### How they interact

The fingerprint service has one binder thread (`configureRpcThreadpool(1, true)`
in `hidl/fp/service.cpp`), so HIDL calls come one at a time. Each HAL runs its
sessions on one worker thread. The two meet in the worker's mailbox, in the
mutexes, in fields that no mutex protects, and in the TZ app. Client callbacks are
oneway: they never block the caller, and a client may react to one at once.

The charger service has one binder thread as well, and a detached thread that
reads uevents and calls the same object directly, because the service it looks up
lives in its own process. Nothing is locked.

The charger settings app writes the same driver's node on the devices where no HAL
does, from callbacks on one main thread; page, tile and service hear of the battery at
different times and share nothing but the settings.

The FPC library keeps one command buffer and its device handles in `fpc_data`, which
the worker, the binder thread and, at start, the main thread use without a lock: that
the worker is paused is all that keeps them apart.

The amplifier is called by the audio HAL under its device lock, and starts a
calibration thread (which plays silence through the same audio HAL and so calls
back into the amplifier) and, at each playback, a failure detection thread.

### What is hard about it, and what makes it correct

*Worker thread.* A request is a state, an event and a wake-up, three things that
three parties handle at different times. Correct: no request is lost or invented,
the last one wins except over one that is waited for, a held pause excludes every
session, and no call blocks for ever.

*FPC HAL.* Calls use the TZ app from the binder thread between `Pause` and
`Resume`, and some do not pause. Correct: exclusive use of the TZ app, every
session answered, about the right group and challenge, every database in its own
file, the authenticator id fresh, the pause given back.

*FPC library.* Any of some thirty commands may be refused at any place, by the driver
or by the TZ app, and a session may restart the TZ app in its middle. Correct: a
command goes to an app that is loaded through a library that is open, the sensor has
power when the TZ app uses it and none when nobody does, buffers come back.

*Egistec HALs.* Calls write fields that a running session reads. Correct: every
accepted session is answered, what it reports is what it was asked for and what
the TZ app did, requests are served in spite of forced retries and held locks,
and two locks are not taken in opposite orders.

*Charger.* Read-modify-write and read-decide-write sequences of two threads.
Correct: the node follows the stop reasons, the stop reasons follow the client and
the comparison of level and limit.

*Charger settings app.* HSPC (suspend charging while plugged in) and the limit are two
reasons for one node, each of which may be dropped in several places. Correct: charging
is suspended only for a reason that holds, HSPC is on only if the user switched it on,
a limit takes effect.

*Amplifier.* Three kinds of threads and two locks over one state. Correct: no
playback during calibration or after its failure, no unlock of a mutex that is not
owned, an error of the DSP is acted upon.

`PROJECT.json` lists the hazards one by one, with the properties that cover them.

## 2. The modules

| Module | Models |
| --- | --- |
| `Mailbox` | What the worker thread promises: a mailbox with one slot. `Post` overrides, `Take` empties the slot and reports the state, `FallBack` reports Idle. |
| `FingerprintSession` | What the framework sees of a fingerprint HAL: sessions that are asked for, begun and answered, and the faults a HAL may have. |
| `SpeakerProtection` | What the amplifier promises the speaker: calibration, protection firmware, playback, in this order. |
| `SyncWorker` | The worker thread and its callers, step by step. Implements `Mailbox`. |
| `FpcHal` | The FPC HAL on top of the mailbox: what its calls and sessions are about. Implements `FingerprintSession` without a fault. |
| `FpcLibrary` | The FPC library, both variants, and its use by the HAL's threads: who holds what when. |
| `EgisLegacy` | The legacy Egistec HAL on top of the mailbox. Implements `FingerprintSession` with its three faults. |
| `EgisCurrent` | The current Egistec HAL on top of the mailbox. Implements `FingerprintSession` with the same faults, for other reasons. |
| `Charger` | The charger HAL. |
| `ChargerApp` | The charger settings app. |
| `Amplifier` | The amplifier HAL: the audio HAL's calls, calibration, failure detection. Implements `SpeakerProtection`. |
| `MCSyncWorker` | Symmetry for TLC. |
| `<module>_proofs`, for each but the three abstract ones and `MCSyncWorker` | Theorems and proofs. |

In all of them an action is what happens between two points where another thread
can interfere. A variable that has the name of a C++ field or local is that field
or local. `pc`, `bpc` and `wpc` say where a thread is; `slot` is the worker's
pending request; variables under "history" in a declaration are read by properties,
by bounds (`restarts`, `failures`) and by each other, not by guards; `RemoveLocked` of
`EgisLegacy` alone reads one, to tell the first finger from a later one. Operators that follow a comment "Mutant" are broken
variants of the definition after them. They show that a property can fail; no
specification uses them.

### FingerprintSession

The three HALs make the same promise to the framework, and break it in different ways.
`FingerprintSession` states the promise once, and `Faults` names the ways of breaking it.
`awaiting` is a framework that waits for a final callback, `phase` the session that is
being served, `answers` how many final callbacks it has had (none, one, or more). `Kept` says
what follows: who awaits has a session that is wanted or still owes its callback, or is
`lost`; and without the fault "twice" no session has more than one. Both Egistec HALs have
all three faults, so what the refinement says of them is where: every exit that is not
among those below tells the client, no callback comes without a session, and no session
begins that was not asked for.

| HAL | `wanted` | `phase` | `lost` | `Faults` | Because |
| --- | --- | --- | --- | --- | --- |
| `FpcHal` | a session in `slot` | by `wpc` | never | none | a request is waited for, so none is overridden; every exit tells once |
| `EgisLegacy` | a session in `slot` | by `wpc` | `lost` | overridden, untold, twice | `moveToState` does not wait; an enrolment is finished by its `enroll_status`, but the client is only told if `rc` is 0 (`:307-318`); `ConvertAndCheckError` tells the error and the cancellation, a time-out likewise, and an enrolment may have told of 0 that remain before that |
| `EgisCurrent` | a session in `slot` | by `wpc` | `lost` | overridden, untold, twice | `moveToState` does not wait; the last branch of both state machines tells nobody; `Identify`'s status 0 is reported in the middle of the loop (`:399`), and so is an enrolment of which 0 of ten steps remain at 0 % (`:720`) |

A callback of a session answers whatever the framework has asked for since: HIDL callbacks
name the device, not the request. `Renew` is a new callback (`setNotify`) or the crash of
the service, after which nothing is awaited. In the FPC HAL only a client that has
registered a callback awaits anything. The module maps to the FPC HAL's code, the one of
the three that has no fault.

### SyncWorker

| Action | Code |
| --- | --- |
| `Request`, `RequestStop` | a call of `moveToState`, `waitForState` (`Pause` and `Resume` among them), `Stop` |
| `LockWriter`, `LockThread`, `UnlockThread`, `UnlockWriter` | the two lock guards |
| `SetDesired`, `PostEvent` | `moveToState` |
| `CheckTrue`, `CheckFalse`, `NotifiedWake`, `SpuriousWake`, `Timeout` | `wait_for` with its predicate |
| `ConsumeLock`, `ReadEvent`, `ApplyState`, `ConsumeUnlock`, `NotifyAll` | `consumeState` |
| `HandlerSeesEvent`, `HandlerEnds`, `FallBackToIdle` | a handler returns; the unlocked assignment after it |

The three-second time-out is modelled as happening only when no further step can
make the predicate true: a slow machine is not a finding. Of the eventfd's counter
only zero and non-zero are told apart, as in the code, so its overflow (after 2^64
unconsumed requests) is out. `currentState` is read and written as one word: the
unlocked write is a data race in C++, on an `int`-sized enum. An EINTR in the poll
of the Pause handler is not modelled.

### FpcHal

Bodies of calls are `Pausing` ... `AwaitPause` ... `*Command` ... `Resume`, or
`EnterSession` and `AwaitSession`. A session is `StartSession`, then `CaptureImage`
and `CheckEvent` in turns, with `AuthStep`, `UpdateTemplate`, `ReportMatch`,
`Reinitialize` or `EnrollStep`, `StoreEnrolled`, `ReportEnrolled`, then `PowerOff`
and `SessionEnd`. `CaptureImage` is atomic: the waits inside it end on an event or a
finger and change nothing; `FpcLibrary` spells them out. Builds with and without `USE_FPC_YOSHINO` are both
covered by the choice in `Reinitialize`. `LOG_ALWAYS_FATAL` inside a restart, and a
call that dereferences the null `fpc` meanwhile, end the process: `FpcLibrary` has them.
`preEnroll` and `postEnroll` are left out here (`Peek` of `FpcLibrary` stands for the
first).

### FpcLibrary

`FpcHal` says what a command is about, `FpcLibrary` what it needs. One module models
both variants of the library: `build` is one of `loire` (with Tone), `yoshino`, `nile`
and `tama`, and the few places where their code differs test it.

| Actions | Code |
| --- | --- |
| `Send`, `Command`, `PausedSend`, `PausedAnswer` | `send_normal_command`, `send_custom_cmd`, `send_buffer_command` over `send_modified_command_to_tz` |
| `FpcInit` (`OpenHandle` ... `Started`, `Deviceless`) | `fpc_init` with `qsee_open_handle`, `qsee_load_trustlet`, the certificate, the key data, the power |
| `WaitFingerLost`, `WaitFingerDown`, `CaptureImage`, `LoireCaptureImage`, `PollFails` | `fpc_capture_image` with its attempts |
| `Navigate`, `NaviPoll` | `IdleAsync` and the `fpc_navi_*` functions |
| `StartSession`, `Captured`, `AuthStep`, `Matched`, `EnrollStep`, `EndSession` | the two sessions of the HAL |
| `Close`, `ReloadGroup` | the restart: `fpc_close`, `fpc_init` again, `__setActiveGroup` |
| `Call`, `AwaitPause`, `PausedEnds`, `AwaitSession`, `TimeOut`, `Cancel` | calls that pause the worker |
| `Peek`, `PeekEnds` | `preEnroll` and `getAuthenticatorId`, which do not |
| `Die`, `Respawn` | `LOG_ALWAYS_FATAL` or a null pointer; `init` starts the service again |

`wpc` is the worker's place, named for the command it sends there or the event it waits
for. A command is two steps, so that the other thread can come in between: `sending`
says that a thread's command is in the TZ app's command area, and in whose buffer.
`Answers` are the outcomes the code tells apart. `held` and `dmabufs` count what the
process has; the kernel takes all of it back at `Die`, all but the sensor's power. After
`fpc_close` a command of the other thread works on freed memory (`bpc = "stale"`): it
returns anything or ends the process.

Choices: a negative `fpc_init` aborts the HAL, so what the labels at its end release is
not modelled. `qsee_open_handle` returns 0 after most failures (where the kernel has ION)
and leaves its caller without a handle; loading an app then fails. A call is one command
or several. The request slot is the mailbox without its history; `FpcHal` shows that the
HAL uses it as one, and so do the proofs for this module (`UsesMailbox`), with a restart of the
TZ app as a part of the session.

### EgisLegacy

`ionLock` is the lock of the ION buffer that `GetLockedAPI` returns: a session owns
it from `LockSession` to `SessionEnd`, calls for one command or a few. `todo` holds
the callbacks that a step must deliver, one at a time under `mClientCallbackMutex`,
before the session goes on. The three command loops of a session (init, step,
finalize) each look for an event, send a command and handle its result; any command
may take more rounds, which change nothing. `Deadlocked` is a stutter in the state
where both threads wait for each other, so that TLC explores beyond finding it once.
`bpc = "ion"` is any call that waits for the buffer. `StepAgain` and `EnrollStep` abstract
`NotifyBadImage` and the counters to which callback follows. In `EnrollStep` the `rc` and
the `enroll_status` are independent, as in the code (`:289-318`): `passed` is `finished`, and
which callback follows depends on the `rc` alone. `EndUntold` records an enrolment that finished
without one; `AuthenticationTells` (proved, not run) says that an authentication never does.
`FingerOff` copies `mCurrentChallenge` into the report, `Notify` makes it, `WipeChallenge` zeroes
the field afterwards: what a call writes there before the last of the three is lost.

### EgisCurrent

`state` is the local state variable of `AuthenticateAsync` and `EnrollAsync`
(`Identify` and `EnrollStep` are both "Step"; "StepDirty" is `Identify` with an `image_result`
of ImagerDirty, which decides what status 0 is told as), `force_retry`, `reImaged` are theirs
too, `failed` is `rc # 0`, `outcome` is which of `done`, `canceled`, `timeout`
holds. The two loops share actions where their code is the same but for names.
Of `Identify`'s status the code tells three cases apart: 1 and 2 end the loop, higher ones do
not, and 0 on a good image makes a callback and does not end it either (`TellIdentified`). That
callback is a success if it has a `match_id`; the loop goes on, so a cancellation, a time-out or
another success of the same session may follow. `reported` is what the last success said; the
head of the loop forgets it, so that each success counts as one. A call between such a success
and the end of its session comes in the middle of a session (`Busy`) for the properties about
contents. `TellMatch` takes every loop that ended with status 1 or 2 for a match.

Between sessions the worker is in `IdleAsync`: `GetNavEvent`, `Gesture` and `IdleEnds` are
its loop, which asks the TZ app for a gesture, waits for the next one, and ends for an event;
without gestures it only waits. A command that fails there aborts the process
(`LOG_ALWAYS_FATAL_IF`); `Die` is that crash with the restart of the service, which loses
what was in memory. The framework hears of it and no longer waits for an answer.

### Charger

One access to a shared variable or a file is one step. `Decide` may use the value
the thread has just stored or the one in memory: compilers may do either. Writes
reach the kernel when the streams are closed (`setChargingEnableInternal` closes
them before it returns, or on its way out), so a refused write is never noticed.
`batCapNow` stays -1 when the file was opened and could not be read; the limit bit is
then cleared. `isChargingEnabled` only reads; it returns whether charging is
*forced off*, the opposite of its name. That `taro` and `lagoon` use the paths of
`kalama`, and that an unknown board leaves `chargerBoard` uninitialized, is outside
the model, which starts with a known board. `Restart` ends the process at any point of either
thread: the fields start anew while the node keeps its value.

### ChargerApp

| Actions | Code |
| --- | --- |
| `ChangeLimit`, `ChangeHSPC`, `MainSwitchOff`, `MainSwitchOn`, `PageReceives` | `ChargerSettingsFragment` and its receiver |
| `TileClicked` | `ChargerTileService` |
| `ServiceReceives` (`PluggedIn`, `Unplugged`, `SamePlug`) | `BatteryMonitorService`'s receiver |
| `SetHSPC`, `DropHSPC`, `UpdateChargingState`, `Write` | `ChargerUtils` |
| `Restart`, `Reboot`, `BootCompleted` | a service that is `START_STICKY`; the boot receiver |
| `BatteryChanges` | external: the battery and who plugs the charger in |

A handler runs to its end on the one main thread, so it is one action; two writes to the
node in one handler, either of which may be refused, are `WriteBoth`.
`ACTION_BATTERY_CHANGED` is sticky: a receiver gets the latest, maybe late, and may never
see one that was replaced. The page sees the battery later than the service or earlier. The
backup of HSPC that the main switch makes is always false, because its switch is not
persistent, and so it is not a variable.

### Amplifier

| Actions | Code |
| --- | --- |
| `AmpCalib`, `AmpCalibFails` | `amp_calib`, which reads the saved calibration and starts the thread, or finds no library for it |
| `StartCalibration` ... `EndCalibration` (`cpc`) | the calibration thread |
| `EnableForCalibration`, `DisableForCalibration`, `DisabledForCalibration` | `enable_output` and `disable_output` when `cirrus_play_silence` calls back |
| `EnableOutput`, `EnableLock` ... `EnableDone`; `DisableOutput` ... `DisableDone` (`hpc`) | the two calls of the audio HAL, under `adev->lock` |
| `Close`, `JoinDetector`, `JoinCalibration`, `DestroyMutex` | `amp_dev_close` |
| `DetectLock` ... `ResetAndAbort`, `LockDestroyed` (`dpc`) | failure detection threads |

`mutex` is `fb_prot_mutex`. It is a normal mutex of bionic: any thread's unlock frees
it, and the calibration thread does unlock it without having locked it
(`audio_amplifier.c:1351`). A lock of a destroyed one aborts the process. `adev->lock`
is taken as long as `device # NoOne`. Its owner and user are the audio HAL, which is
not in the repository: it calls `enable_output` for the first user of a device and
`disable_output` for the last, so a further user of the device makes no call; silence
plays on a device of its own; close comes when nothing is enabled. A closed
amplifier is not opened again. A detector's reset (`ResetAndAbort`) and a lock of the
destroyed mutex abort the audio HAL, and a new process starts from `Init`. `state` is one word, read and written in one step.
`Builds` says where the calibration comes from: a TA, or the file that an earlier
start wrote; one run covers both.

`wake` says that the mixer's force wake control keeps every amplifier awake: of two
amplifiers a refused write may have reached the left one (`Forced`). `firmware` is the set of
amplifiers that run the protection firmware, known to the model only. When `amp_calib` fails before it starts the thread (`AmpCalibFails`,
`:1430-1443`) the state stays `INIT` for good, and every output is `early`. What the DSP says of itself is chosen
freely at each reading. Temperatures, checksums and impedances are data that no
property looks at; the ambient temperature that the stereo calibration writes is among
them. `cirrus_play_silence` fails with `-EAGAIN` when somebody plays (`:462`): `SilenceFails` may
happen at any time, and fails the calibration for good when it comes last.

`SpeakerProtection` has `handle.state` and two facts about the rest: `protected`, that every
amplifier runs the protection firmware, and `hasty`, which is `early`. Between the end of the
calibration and a reset nothing changes the firmware and only `Play` and `Rest` change the
state; a failed calibration is the end of this process' state machine (`ErrorIsFinal`
follows from it). `Collide` is what the exception costs: once an output was enabled in
state `INIT` calibration and playback meet, and only the failure stays final.

## 3. The runs

| Run | Instance | States | Shows |
| --- | --- | --- | --- |
| `sync_worker` | 2 callers | 24 thousand | hand-over, exclusion, time-outs, liveness, refinement of `Mailbox` |
| `egis_legacy` | 2 challenges, 2 groups | 762 thousand | answers, order and contents of a success, authenticator id, refinement of `FingerprintSession`, service of requests |
| `egis_current` | 1 challenge, 1 print id, 2 groups, 2 retries | 898 thousand | answers, what is saved and reported, refinement of `FingerprintSession`, service of requests |
| `fpc_hal` | 1 challenge, 2 groups | 77 thousand | exclusive TZ app, pause given back, answers, files, ids, refinement of `FingerprintSession`, return of calls |
| `fpc_library` | all 4 builds, 2 retries, 2 restarts, 2 refused commands | 54 thousand | commands meet a device, power, buffers, service of requests |
| `charger` | levels 60 and 75, limits 40, 75, 100, listener gives up after 2 errors | 287 thousand | node, reasons, limit, handling of events |
| `charger_app` | levels 1 to 3, limits 2 and 3, 3 is full | 17 thousand | suspended for a reason, HSPC as asked for, a limit takes effect |
| `amplifier` | 1 device, 2 detectors, both builds | 648 thousand | protection of playback, wake, mutual exclusion, refinement of `SpeakerProtection`, the calibration ends |
| `sync_worker_timeout` | 2 callers | violation | the worker aborts the process over a state it did enter |
| `egis_legacy_match` | as above | violation | a match is dropped |
| `egis_legacy_locks` | as above | violation | lock order of `enumerate` and a session |
| `amplifier_error` | 1 device, 1 detector, TA build | violation | an error of the DSP is read and not acted upon |

Why these bounds: two callers contain every pair of roles (one waits, one
overrides; one stops, one had waited), and the proofs cover any number. Two groups
and one challenge beside "none" are enough to tell right from wrong in a report;
the legacy HAL gets two challenges because a later call may replace the first. Two
levels around a limit that equals one of them contain the boundary; 40 is a limit
that is refused, 100 switches the limit off. `ReImageLimit = 1` in place of 6 leaves
two retries, so that both the retry and the limit happen. `kMaxConsecutiveErrors = 2`
in place of 10 leaves an error that is forgiven and one that is not. A second detector is the one that a new playback
starts while the first still runs; a third would do what the second does, and the
proofs cover any number of devices and detectors. `MaxTries = 2` in place of 9 (the retries
of `fpc_capture_image`) has a retry that is not the last. Two restarts and two refused
commands contain a second one, which finds what the first left behind; the bounds cut off
only repetition, and the proofs cover all. Three levels and a limit below the full one
contain a level below, at and above the limit.

### The properties that are conditional, and why

The code shares fields without locks and some sequences of calls do go wrong.
Properties name these cases, so that a run shows they are the only ones:

- `ImplementsSession`: `Faults` are the cases, see `FingerprintSession` above. A session whose
  request is overridden before the worker takes it gets no callback; nor, in the current
  Egistec HAL, does one whose error the finalizer's result replaces (`:449`, `:794`), nor, in
  the legacy one, an enrolment whose last `rc` is not 0. More than one callback comes after an
  error of the legacy HAL, and after a success in the middle of a loop.
- `SuccessNamesItsSession` in the three HALs: a call that arrives in the middle of a
  session may change the group or challenge that the session reports. In the current Egistec
  HAL that middle lasts to the end of the session, beyond a success that its loop reported
  before: the client may well call then, and `ClearChallenge` clears the challenge of its call.
- `PrintSavedAsReported`: calls in the middle of an enrolment, among them the `postEnroll` of a
  client that was told too early that nothing remains (`:720`). The property is about the
  report at the end of the session, where a print is saved.
- `StoredInItsGroup`: `setActiveGroup` during a session, or when loading fails.
- `AuthenticatorIdFresh` of the FPC HAL: an id that was fetched before and cached
  after a change. It is about the group whose id is cached; loading another group's
  database does not drop it (`fpc_imp_yoshino_nile_tama.c:256`).
- `CallsReturn` of the FPC HAL: `setNotify` needs a mutex that a session holds, and waits for
  as long as that session waits for a finger.
- `CommandsOwnTheDevice`: `preEnroll` and `getAuthenticatorId` do not pause the worker.
- `PoweredWhileSensing`: on Yoshino the rest of a session after a restart of the TZ app.
- `UnpoweredAtRest`: the driver refused to switch the power off, or there is no device.
- `BuffersReturned`: a restart loses the buffer of `fpc_data`, and Loire that of each refused
  command. The property counts them, so that nothing else is lost.
- `NodeFollowsReason`, `ForceFollowsClient`, `LimitFollowsLevel`: calls of the two
  threads that overlap, or accesses that the kernel refuses. `met` and `settled`
  record exactly these; a restart starts both anew.
- `SuspendedForAReason`: before the service has run since boot, or after a refused write.
  That a limit was reached is judged when it is applied; after HSPC is switched off the node is
  0, whatever the level, until the next change of the level.
- `HspcIsWanted`: HSPC that is switched on while the service takes the charger for unplugged
  (`unseen`). Switched off by hand at such a time it comes back with the charger.
- `LimitTakesEffect`: while HSPC is on, or the write is refused.
- `PlaybackIsProtected`, `AwakeUntilProtected`, `CriticalSectionsExclude`, `ImplementsProtection`: an output
  that is enabled after the calibration thread was created and before its first step
  (`early`) finds the state `INIT`, which nothing forbids. It then plays while the
  amplifier is calibrated, and the calibration's unlock may free its mutex.

Divergences seen without a run, or that no property covers. After a restart of the TZ app in
the middle of an authentication the FPC library does not set the challenge again; what the
TZ app does without one is not in the repository. The FPC HAL ignores the result of
`fpc_get_hw_auth_obj` and reports the token all the same
(`BiometricsFingerprint.cpp:497`), and reports a new print although storing the database failed
(`:419`). An error of the wait in `EventMultiplexer.cpp:48` is reported as a time-out, with the
comment "Let the current operation continue as if nothing happened"; in the current Egistec
HAL a time-out ends the session. The legacy HAL's `ConvertAndCheckError` reports an error and
then a cancellation (`EgisOperationLoops.cpp:81`), two final callbacks; an `enroll_status` of 0x64 with an `rc` of
0x20, 0x27 or 0x29 finishes its enrolment untold (`:307-318`), and 0 steps that remain with
another status tell the client of an end that has not come. The current Egistec HAL reports
`Identify`'s status 0 in the middle of a session that goes on (`:394-399`), and an enrolment
of which ten images are good and 0 % done as complete, although a comment wants the final
notify delayed until the print is saved (`:717-718`). A call of the
legacy HAL that needs the ION lock waits on the only binder thread while a session waits for a
finger, and the cancel behind it waits too (`:342`). In the charger HAL two overlapping calls
can lose an update and leave charging on with a stop reason set (`Charger.cpp:116-125`), and a
write that the kernel refuses at close goes unnoticed (`:102`). A new playback of the amplifier
overwrites the handle of a detector that may still run (`audio_amplifier.c:1347`), so that close
joins the last one only.

### Fairness

Threads are scheduled and the TZ app answers (weak fairness of the binder and the
worker step). Mutexes that one thread takes and releases for ever are in the end
given to another (strong fairness of lock acquisition in `SyncWorker`, of the worker
in `EgisLegacy`): Linux's futex-based mutexes do not promise this for every
schedule, but a waiter that is never let in would need the other thread to win each
time. `SyncWorker` takes strong fairness of `Timeout` too: spurious wake-ups do not
restart the clock of `wait_for`. `EgisCurrent` assumes that `GetImage` does not return
99, and its reset succeed, for ever, and that gestures do not keep the idle loop from seeing
an event that is there (strong fairness of `ImageTaken` and `IdleEnds`). In `FpcLibrary` the
worker runs except where it waits for a finger with no event pending, and so does the
binder thread; polls need not fail and time limits need not pass. In `ChargerApp` a broadcast
arrives in the end. In the Charger the listener comes back to its
socket. In the Amplifier the calibration thread gets the locks that others take again
and again (strong fairness), the audio HAL's calls and the detectors take their steps
(weak fairness); nobody has to close it. No fairness is assumed of clients, fingers, the battery, or spurious
wake-ups.

## 4. The proofs

Assumptions are those beside the constants: the names "worker" and "none" are not
callers; "no challenge" is not a challenge or print; levels are percentages, limits integers,
the error bound a positive number; no limit is above the full one; builds are the four that
exist. `Charger` and `ChargerApp` are proved for every set of levels and
limits, the fingerprint HALs for all groups, challenges and prints and any limit of retries,
`FpcLibrary` for any number of attempts, restarts and refused commands, `SyncWorker` for any
set of callers, `Amplifier` for any devices and detectors. In every module `IInv` is the
inductive invariant, one lemma per group of actions shows that they preserve it,
`Invariance` collects them, and the properties follow from it.

*SyncWorker.* `IInv` is the type invariant and seven parts: who owns a mutex is
where he is; event and request agree outside the two critical sections, and how they
disagree inside; what the worker reports is the state it runs, except between
handler and fall-back; which call is in progress; a waiter's request is pending or
was taken, and then the state is reported or the session is over; a held pause
means that the worker is in Pause, or is on its way out of it because of a request;
why `fatal` was set. `EventMatchesRequest` alone is not inductive: whether the event
is written after the request depends on the caller's position and on its ownership
of `mThreadMutex`. Each part has a lemma that it is preserved; `Invariance` collects
them, and the properties of the run follow. `MailboxRefinement` maps `desiredState` to
the slot: `SetDesired` is `Post`, `ApplyState` with an event is `Take`, without one or
after the handler it is `FallBack`, everything else stutters.

*FpcHal.* `IInv` has six parts beside the types. `PauseInv`: between `AwaitPause` and the
call's end the worker is paused with an empty slot, while a call waits for the pause its
request is in the slot or taken, and an idle binder with the worker paused means that the
last call failed. `RequestInv`: only a call that has paused the worker asks for a session,
and a session's place fits its kind. `AnswerInv`: until `PowerOff` a session has had no
callback, and after it none only if an error of the sensor ended it, which is told then; whoever
awaits one has a session at such a place. `GroupInv`: outside of `setActiveGroup` the TZ app
holds the group that `db_path` names, or loading it failed. `SessionInv`: what `gid`,
`auth_challenge` and the TZ app hold is what the session was asked for, until
`setActiveGroup` or a restart. `IdInv`: an id that was read or cached and is not that of the
prints as they are was read before they changed. `Answered`, `StoredInItsGroup` and
`SuccessNamesItsSession` are not inductive alone: each is about the end of a session, and
depends on what the call left behind at its beginning. `UsesMailbox` proves that
the HAL's use of the worker is a behaviour that `Mailbox`, and hence `SyncWorker`, has: the two levels fit.

*FpcLibrary.* No property is inductive by itself, because each is about a place that is
reached through many others. `IInv` says for each place what is held (`HeldInv`: the device is
complete where commands are sent, and grows in the order of `fpc_init`) and whether the
sensor has power (`PowerInv`); that a thread's command is out only where it sends one
(`SendingInv`); that a call with its pause has the worker where it cannot send (`PauseInv`); where
a restarted session can be (`RestartInv`); and the balance of the buffers (`BufferInv`).

*EgisLegacy.* The buffer's lock has an owner at each place (`LockInv`), which says that a step
of the TZ app never meets another. `AwaitInv` says that a client that waits has a request in
its slot, a final callback in `todo`, a session that has told nothing and is not past the point where it
may, or has lost (`Due`). `AloneInv` carries the property about contents: a session that
met no call of authenticate, enroll or setActiveGroup since it was asked for was alone from the
start, so what it reads is what its call wrote (`SessionInv`, with `TokenInv` and `GroupInv`
before it is posted). `FinalInv` carries the one about order, for every session and whatever
calls come meanwhile: until its end a session has not told of a failure; a match is told first
and alone, since an authentication has told nothing before; and one that ends has told
something. From the last clause `AuthenticationTells` follows. `IdInv` names who has a new id ahead. `UsesMailbox` shows, as
for `FpcHal`, that the HAL uses the worker as `Mailbox` allows.

*EgisCurrent.* The same argument: `ProgressInv` (a loop that is not left has no outcome, and
between sessions nothing has been told), `AwaitInv` (who waits has a request in the slot, a
session with a final callback to come that has made none yet, or has lost), `AloneInv`,
`SessionInv`, and `SavedInv` for the print between saving and reporting: what a loop reported
before is forgotten when a print is saved.

*Charger.* `IInv` adds to the types who may have met whom (`Meeting`), what the
registers of a thread hold that has met none (`Pending`), and the three properties in
the middle of a call: the node is right or a step that will make it right is ahead,
and so for the two bits.

*ChargerApp.* `SuspendedForAReason` is inductive together with the main switch's grip on the
rest (`MainSwitchInv`). For HSPC the invariant has to speak of what the service remembers: that is
as much asked for as HSPC itself, and only kept while the charger is taken for unplugged
(`ServiceInv`, `HspcInv`).

*Amplifier.* The state is written under `adev->lock` at the end of the calibration and
under the mutex elsewhere, so no single lock explains why a failure is final. `IInv`
says it by phases: while the calibration runs and `early` is false, the state is
`CALIBRATING` and every call of the audio HAL turns back (`PhaseInv`); a failed calibration leaves no thread that is about to write
(`ErrorInv`); a state `IDLE` or `PLAYBACK` means that all firmware is loaded, and each
step of the download adds what the next relies on (`FirmwareInv`); while the calibration
runs, and its unlocks happen, no detector exists, and afterwards whoever is in a
critical section owns the mutex (`MutexInv`); close leaves no detector behind that
could need what it destroys (`CloseInv`). `AwakeUntilProtected` is inductive together with them. `ProtectionRefinement` maps each
write of the state, and each change of the firmware, to a step of `SpeakerProtection`: the phases
give the guards. That only a process that has played resets itself needs one more fact in
`PhaseInv`: without an early output, detectors exist only after a calibration that did not fail.
`PromiseKept` proves `Kept` from the abstract steps.

*FingerprintSession.* In each HAL `SessionRefinement` shows that the initial states and every
step map to those of the abstract module, from `IInv`, which provides the guards: that a
session of the FPC HAL has not been answered before it answers, that one of the others is open
where it does, and at the end of each whether the client has been told or is among the lost. One lemma for the calls and one for each place of a session name the
abstract action. `PromiseKept` then proves `Kept` as an invariant of the HAL, by induction over
the abstract steps alone, so that the reason is the one of the abstract module.

*Mailbox.* `UsesMailbox` of the three HALs and of `FpcLibrary` and `MailboxRefinement` of `SyncWorker` meet at the
module `Mailbox`: what the HALs assume of the worker thread is what the thread does. In
`EgisCurrent` and `FpcLibrary` a crash of the process is the one step that is not the
mailbox's.

Every safety property of every passing run is stated by a theorem. Only model-checked: all
liveness (`CallsReturn` of two modules, `RequestServed` of three, `EventsAreHandled`,
`CalibrationEnds`, `LimitTakesEffect`; the prover does not reason about fairness and
`ENABLED` here), and the fairness part of the refinement of `Mailbox`. The four runs that
expect a violation are counterexamples and have nothing to prove. Proved and in no run,
because the invariants that imply them hold in the runs' instances as well: the type
invariants but `EgisCurrent`'s, `PromiseKept`, what follows from it when both threads rest
(`Answered`, `AnsweredUnlessLost` of two modules, `AuthenticationTells`),
`RequestsValid` (the worker never consumes an event without a request), `ErrorIsFinal` of the
amplifier (it follows from `SpeakerProtection`) and `CloseIsLast`
(no detector outlives the amplifier's mutex).

## 5. Not modelled

- Command encoding and the TZ apps themselves: each command returns any of the outcomes that
  the code tells apart. With it the Egistec trustlet wrappers, but for the lock of the legacy
  one, and the C++ wrappers in `QSEE*.cpp` and `DmaBuffer.cpp`.
- `EgisFpDevice.cpp`, `UInput.cpp`: ioctls and writes that succeed or fail.
- The legacy Egistec HAL's `Prepare` and the constructors of the Egistec HALs, which run before
  the threads exist; their `setNotify`, which stores a pointer; `enumerate`, `remove` and
  `getAuthenticatorId` of the current one, which ask the TZ app and keep nothing.
- `preEnroll` and `postEnroll` of the FPC HAL as to the enrol challenge they hand on.
- Choice of the HAL in `service.cpp`; `amp_module_open`, mixer names and the data of the
  calibration.
- The other settings apps: preferences copied to services on one thread, with no protocol.
- Interface definitions, sepolicy, build files, resources.

## 6. Plan

Done: the seven components of section 2 with their runs; every safety property of a passing
run proved; the worker thread shown to be a mailbox and the three HALs to use it as one; the
three HALs shown to be fingerprint sessions with the faults named; the amplifier shown to
protect its speaker.

Left, in this order:

1. An abstract specification of a charging node with reasons, which `Charger` at rest and
   `ChargerApp` could both implement.
2. `FpcLibrary` as an implementation of the sessions of `FpcHal`: the two share the HAL's
   control, and only the abstract `FingerprintSession` connects them so far.
3. `HighTouchPollingService` and the two writers of the charging node in one composition with
   `Charger`, should a device have both.
4. Pure functions: `ConvertReturnCode` and `NotifyBadImage` of the legacy HAL, the
   step count of `EnrollAsync`, the checksum and string handling of the amplifier,
   checked over bounded inputs.
