------------------------------- MODULE Amplifier -------------------------------
(***************************************************************************)
(* The CS35L41 amplifier HAL (amplifier/audio_amplifier.c).  The audio HAL  *)
(* enables and disables outputs under its device lock.  A calibration       *)
(* thread, started once, loads the speaker protection firmware; it plays    *)
(* silence through the same audio HAL and so calls back into the amplifier. *)
(* Each playback starts a thread that asks the DSP for errors.  All of them *)
(* share handle.state, and a mutex that not all of them take.               *)
(*                                                                          *)
(* External: the audio HAL calls enable_output for the first user of a      *)
(* device and disable_output for the last, with adev->lock held; the mixer  *)
(* may refuse any access; anyone's unlock frees a mutex, as in bionic.      *)
(***************************************************************************)
EXTENDS Naturals

CONSTANTS
  Devices,     \* output devices of the audio HAL
  Detectors,   \* failure detection threads that may exist at a time
  Builds,      \* where the calibration comes from: "TA" or "file"
  NoOne        \* no thread, no device

ASSUME AmplifierAssumption ==
  /\ Builds \subseteq {"TA", "file"} /\ Builds # {}
  /\ NoOne \notin Devices \cup Detectors
  /\ Detectors \cap {"hal", "cal", "destroyed"} = {} /\ NoOne \notin {"hal", "cal", "destroyed"}

VARIABLES
  state,                    \* handle.state
  mutex,                    \* handle.fb_prot_mutex: who locked it
  is_stereo, cal_ok, cal_valid,
  hpc, device, enabled,     \* the audio HAL: its call, about which device; enabled devices
  cpc, ret_ok, silence,     \* the calibration thread: ret >= 0; what follows the silence
  dpc, again, seen,         \* detectors: second check; the check has read an error
  failure_detect_thread,
  wake,                     \* the mixer's force wake control keeps every amplifier awake
  firmware,                 \* amplifiers that run the protection firmware
  early                     \* history: an output was enabled in state INIT

setup == <<is_stereo, cal_ok, cal_valid>>
hal == <<hpc, device, enabled>>
cal == <<cpc, ret_ok, silence>>
det == <<dpc, again, seen, failure_detect_thread>>
dsp == <<wake, firmware>>
vars == <<state, mutex, setup, hal, cal, det, dsp, early>>

\* The amplifiers.  The data of a single one are kept as those of the right one.
Channels == IF is_stereo THEN {"L", "R"} ELSE {"R"}

Flags ==
  /\ is_stereo \in BOOLEAN /\ cal_ok \in BOOLEAN /\ cal_valid \in BOOLEAN
  /\ ret_ok \in BOOLEAN /\ wake \in BOOLEAN /\ early \in BOOLEAN
  /\ again \in [Detectors -> BOOLEAN] /\ seen \in [Detectors -> BOOLEAN]

Places ==
  /\ state \in {"INIT", "CALIBRATING", "CALIBRATION_ERROR", "IDLE", "PLAYBACK"}
  /\ mutex \in {NoOne, "hal", "cal", "destroyed"} \cup Detectors
  /\ hpc \in {"out", "enable", "check", "wake", "create", "play", "disable", "stop", "idle",
              "enabled", "disabled", "close", "join", "destroy", "closed"}
  /\ device \in Devices \cup {NoOne} /\ enabled \in SUBSET Devices
  /\ device = NoOne <=> hpc \in {"out", "close", "join", "destroy", "closed"}
  /\ cpc \in {"none", "absent", "start", "firmware", "wake", "silence", "enable", "disable",
              "unlock", "result", "download", "downloadL", "data", "end", "done"}
  /\ silence \in {"result", "end"}
  /\ dpc \in [Detectors -> {"none", "lock", "wake", "rest", "unlock", "reset"}]
  /\ failure_detect_thread \in Detectors \cup {NoOne}
  /\ firmware \in SUBSET {"L", "R"}

TypeOK == Flags /\ Places

Init ==
  /\ state = "INIT" /\ mutex = NoOne
  /\ is_stereo = FALSE /\ cal_ok = FALSE /\ cal_valid = FALSE
  /\ hpc = "out" /\ device = NoOne /\ enabled = {}
  /\ cpc = "none" /\ ret_ok = TRUE /\ silence = "end"
  /\ dpc = [d \in Detectors |-> "none"]
  /\ again = [d \in Detectors |-> FALSE] /\ seen = [d \in Detectors |-> FALSE]
  /\ failure_detect_thread = NoOne
  /\ wake = FALSE /\ firmware = {}
  /\ early = FALSE

\* The process dies and a new one begins; the amplifiers stay as they are.
Abort ==
  /\ state' = "INIT" /\ mutex' = NoOne
  /\ is_stereo' = FALSE /\ cal_ok' = FALSE /\ cal_valid' = FALSE
  /\ hpc' = "out" /\ device' = NoOne /\ enabled' = {}
  /\ cpc' = "none" /\ ret_ok' = TRUE /\ silence' = "end"
  /\ dpc' = [d \in Detectors |-> "none"]
  /\ again' = [d \in Detectors |-> FALSE] /\ seen' = [d \in Detectors |-> FALSE]
  /\ failure_detect_thread' = NoOne
  /\ early' = FALSE

Lock(t) == mutex = NoOne /\ mutex' = t
Unlock == mutex' = IF mutex = "destroyed" THEN mutex ELSE NoOne

\* What a write of the force wake control leaves of a value before; ok says whether the
\* mixer took it.  Of two amplifiers the left one may have taken it, and the right one not.
Forced(enable, ok, before) ==
  IF ok THEN {enable} ELSE IF is_stereo THEN {enable, before} ELSE {before}

ForceWake(enable, ok) == wake' \in Forced(enable, ok, wake)

HalGoto(from, to) == hpc = from /\ hpc' = to
CalGoto(from, to) == cpc = from /\ cpc' = to
DetGoto(d, from, to) == dpc[d] = from /\ dpc' = [dpc EXCEPT ![d] = to]

\* adev->lock: the audio HAL's for the time of a call.
AdevLocked == device # NoOne

-------------------------------------------------------------------------------
(* amp_calib, which starts the calibration thread.                            *)

\* In the TA build the calibration is always taken to be there, and is_stereo is
\* what the mixer looks like; in the file build all of it comes from the file, which
\* never says that the calibration is valid, or there is none.  Only with two amplifiers
\* is that looked at.
AmpCalib ==
  /\ CalGoto("none", "start")
  /\ \E build \in Builds :
       /\ cal_ok' \in IF build = "TA" THEN {TRUE} ELSE BOOLEAN
       /\ is_stereo' \in IF cal_ok' THEN BOOLEAN ELSE {FALSE}
       /\ cal_valid' \in IF build = "TA" /\ is_stereo' THEN BOOLEAN ELSE {FALSE}
  /\ UNCHANGED <<state, mutex, hal, ret_ok, silence, det, dsp, early>>

\* The library of the calibration data is not there: no thread is started, and the state
\* stays INIT, in which every output is let through.
AmpCalibFails ==
  /\ CalGoto("none", "absent")
  /\ UNCHANGED <<state, mutex, setup, hal, ret_ok, silence, det, dsp, early>>

-------------------------------------------------------------------------------
(* The calibration thread.                                                    *)

StartCalibration ==
  /\ CalGoto("start", IF cal_ok THEN "download" ELSE "firmware")
  /\ state' = "CALIBRATING"
  /\ UNCHANGED <<mutex, setup, hal, ret_ok, silence, det, dsp, early>>

\* The calibration firmware replaces what the amplifiers run: that of a mono
\* amplifier or, if there is no such control, those of both.
CalibrationFirmware ==
  /\ cpc = "firmware"
  /\ \E loaded \in BOOLEAN :
       /\ ret_ok' = loaded
       /\ cpc' = IF loaded THEN "wake" ELSE "end"
       /\ is_stereo' \in IF loaded THEN BOOLEAN ELSE {is_stereo}
  /\ firmware' = {}
  /\ UNCHANGED <<state, mutex, cal_ok, cal_valid, hal, silence, det, wake, early>>

\* Awake, and the ambient temperature written; then two seconds of silence.
WakeForCalibration ==
  /\ cpc = "wake"
  /\ \E woken, written \in BOOLEAN :
       /\ ForceWake(TRUE, woken)
       /\ ret_ok' = (woken /\ written)
  /\ cpc' = IF ret_ok' THEN "silence" ELSE "end"
  /\ silence' = "result"
  /\ UNCHANGED <<state, mutex, setup, hal, det, firmware, early>>

\* cirrus_play_silence: not if somebody plays.  Its failure counts at the end only;
\* during the calibration it is logged.
SilenceFails ==
  /\ CalGoto("silence", silence)
  /\ ret_ok' = (ret_ok /\ silence = "result")
  /\ UNCHANGED <<state, mutex, setup, hal, silence, det, dsp, early>>

PlaySilence ==
  /\ CalGoto("silence", "enable")
  /\ enabled = {}
  /\ UNCHANGED <<state, mutex, setup, hal, ret_ok, silence, det, dsp, early>>

\* enable_output in the calibration thread does nothing but unlock the mutex, which
\* it has not locked.  Then the silence plays, or does not.
EnableForCalibration ==
  /\ CalGoto("enable", "disable")
  /\ Unlock
  /\ ret_ok' \in {ret_ok, ret_ok /\ silence = "result"}
  /\ UNCHANGED <<state, setup, hal, silence, det, dsp, early>>

DisableForCalibration ==
  /\ CalGoto("disable", "unlock")
  /\ Lock("cal")
  /\ UNCHANGED <<state, setup, hal, ret_ok, silence, det, dsp, early>>

DisabledForCalibration ==
  /\ CalGoto("unlock", silence)
  /\ Unlock
  /\ UNCHANGED <<state, setup, hal, ret_ok, silence, det, dsp, early>>

\* The result is read, good and kept, and saved for the next time.
CalibrationResult ==
  /\ cpc = "result"
  /\ \E good, woken \in BOOLEAN :
       /\ IF good THEN ForceWake(TRUE, woken) ELSE UNCHANGED wake
       /\ ret_ok' = (good /\ woken)
       /\ cal_ok' = (cal_ok \/ ret_ok')
  /\ cpc' = IF ret_ok' THEN "download" ELSE "end"
  /\ UNCHANGED <<state, mutex, is_stereo, cal_valid, hal, silence, det, firmware,
                 early>>

\* cirrus_exec_fw_download, as often as it takes or 32 times.  When it fails the
\* amplifier may have been shut down.
Download(c, loaded) ==
  IF loaded THEN firmware' = firmware \cup {c} ELSE firmware' \in {firmware, firmware \ {c}}

\* Mutant: an amplifier whose firmware did not load is passed over.
DownloadFirstOn ==
  /\ cpc = "download"
  /\ \E loaded \in BOOLEAN : Download("R", loaded)
  /\ cpc' = IF is_stereo THEN "downloadL" ELSE "data"
  /\ UNCHANGED <<state, mutex, setup, hal, ret_ok, silence, det, wake, early>>

\* The protection firmware of the right, or the only, amplifier.
DownloadFirst ==
  /\ cpc = "download"
  /\ \E loaded \in BOOLEAN :
       /\ Download("R", loaded)
       /\ ret_ok' = (loaded /\ (is_stereo \/ cal_ok))
  /\ cpc' = IF ~ret_ok' THEN "end" ELSE IF is_stereo THEN "downloadL" ELSE "data"
  /\ UNCHANGED <<state, mutex, setup, hal, silence, det, wake, early>>

\* That of the left one.  Without a valid calibration this is the end, and good.
DownloadLeft ==
  /\ cpc = "downloadL"
  /\ \E loaded \in BOOLEAN : Download("L", loaded) /\ ret_ok' = loaded
  /\ cpc' = IF ret_ok' /\ cal_valid THEN "data" ELSE "end"
  /\ UNCHANGED <<state, mutex, setup, hal, silence, det, wake, early>>

\* The calibration is written to the amplifiers while they are kept awake.
WriteCalibration ==
  /\ CalGoto("data", "silence")
  /\ \E woken, written, rested \in BOOLEAN :
       /\ wake' \in IF woken /\ written THEN Forced(FALSE, rested, TRUE)
                                        ELSE Forced(TRUE, woken, wake)
       /\ ret_ok' = (woken /\ written /\ rested)
  /\ silence' = "end"
  /\ UNCHANGED <<state, mutex, setup, hal, det, firmware, early>>

\* Mutant: the state is set without the device lock.
EndCalibrationUnlocked ==
  /\ CalGoto("end", "done")
  /\ state' = IF ret_ok THEN "IDLE" ELSE "CALIBRATION_ERROR"
  /\ ret_ok' = TRUE /\ silence' = "end"
  /\ UNCHANGED <<mutex, setup, hal, det, dsp, early>>

\* The state is set under adev->lock, and not under the mutex.
EndCalibration ==
  /\ CalGoto("end", "done")
  /\ ~AdevLocked
  /\ state' = IF ret_ok THEN "IDLE" ELSE "CALIBRATION_ERROR"
  /\ ret_ok' = TRUE /\ silence' = "end"
  /\ UNCHANGED <<mutex, setup, hal, det, dsp, early>>

-------------------------------------------------------------------------------
(* The audio HAL: cs35l41_enable_output, cs35l41_disable_output.              *)

EnableOutput(dev) ==
  /\ cpc # "none" /\ dev \notin enabled
  /\ HalGoto("out", "enable")
  /\ device' = dev /\ enabled' = enabled \cup {dev}
  /\ UNCHANGED <<state, mutex, setup, cal, det, dsp, early>>

EnableLock ==
  /\ HalGoto("enable", "check")
  /\ Lock("hal")
  /\ UNCHANGED <<state, setup, device, enabled, cal, det, dsp, early>>

\* Mutant: only a failed calibration forbids playback.
EnableCheckError ==
  /\ HalGoto("check", IF state = "CALIBRATION_ERROR" THEN "enabled" ELSE "wake")
  /\ early' = (early \/ state = "INIT")
  /\ UNCHANGED <<state, mutex, setup, device, enabled, cal, det, dsp>>

\* No playback while calibrating, nor if that has failed.
EnableCheck ==
  /\ HalGoto("check", IF state \in {"CALIBRATING", "CALIBRATION_ERROR"} THEN "enabled"
                                                                       ELSE "wake")
  /\ early' = (early \/ state = "INIT")
  /\ UNCHANGED <<state, mutex, setup, device, enabled, cal, det, dsp>>

EnableWake ==
  /\ HalGoto("wake", "create")
  /\ \E woken \in BOOLEAN : ForceWake(TRUE, woken)
  /\ UNCHANGED <<state, mutex, setup, device, enabled, cal, det, firmware, early>>

\* A detector is started when playback begins; nobody looks whether it was.
EnableCreate ==
  /\ HalGoto("create", "play")
  /\ \/ /\ state = "IDLE"
        /\ \E d \in Detectors :
             /\ DetGoto(d, "none", "lock")
             /\ failure_detect_thread' = d
             /\ again' = [again EXCEPT ![d] = FALSE] /\ seen' = [seen EXCEPT ![d] = FALSE]
     \/ UNCHANGED det
  /\ UNCHANGED <<state, mutex, setup, device, enabled, cal, dsp, early>>

EnablePlay ==
  /\ HalGoto("play", "enabled")
  /\ state' = "PLAYBACK"
  /\ UNCHANGED <<mutex, setup, device, enabled, cal, det, dsp, early>>

\* Mutant: a call that has been refused does not unlock.
EnableDoneLocked ==
  /\ HalGoto("enabled", "out")
  /\ IF state = "PLAYBACK" THEN Unlock ELSE UNCHANGED mutex
  /\ device' = NoOne
  /\ UNCHANGED <<state, setup, enabled, cal, det, dsp, early>>

EnableDone ==
  /\ HalGoto("enabled", "out")
  /\ Unlock
  /\ device' = NoOne
  /\ UNCHANGED <<state, setup, enabled, cal, det, dsp, early>>

DisableOutput(dev) ==
  /\ dev \in enabled
  /\ HalGoto("out", "disable")
  /\ device' = dev
  /\ UNCHANGED <<state, mutex, setup, enabled, cal, det, dsp, early>>

DisableLock ==
  /\ HalGoto("disable", "stop")
  /\ Lock("hal")
  /\ UNCHANGED <<state, setup, device, enabled, cal, det, dsp, early>>

DisableCheck ==
  /\ HalGoto("stop", IF state = "PLAYBACK" THEN "idle" ELSE "disabled")
  /\ UNCHANGED <<state, mutex, setup, device, enabled, cal, det, dsp, early>>

DisableIdle ==
  /\ HalGoto("idle", "disabled")
  /\ state' = "IDLE"
  /\ UNCHANGED <<mutex, setup, device, enabled, cal, det, dsp, early>>

DisableDone ==
  /\ HalGoto("disabled", "out")
  /\ Unlock
  /\ device' = NoOne /\ enabled' = enabled \ {device}
  /\ UNCHANGED <<state, setup, cal, det, dsp, early>>

-------------------------------------------------------------------------------
(* amp_dev_close, when nothing plays any more.                                *)

Close ==
  /\ cpc # "none" /\ enabled = {}
  /\ HalGoto("out", "close")
  /\ UNCHANGED <<state, mutex, setup, device, enabled, cal, det, dsp, early>>

\* The handle is that of the detector started last.
JoinDetector ==
  /\ HalGoto("close", "join")
  /\ \A d \in Detectors : d = failure_detect_thread => dpc[d] = "none"
  /\ UNCHANGED <<state, mutex, setup, device, enabled, cal, det, dsp, early>>

JoinCalibration ==
  /\ HalGoto("join", "destroy")
  /\ cpc \in {"done", "absent"}
  /\ UNCHANGED <<state, mutex, setup, device, enabled, cal, det, dsp, early>>

\* A mutex that somebody holds is not destroyed.
DestroyMutex ==
  /\ HalGoto("destroy", "closed")
  /\ mutex' = IF mutex = NoOne THEN "destroyed" ELSE mutex
  /\ UNCHANGED <<state, setup, device, enabled, cal, det, dsp, early>>

-------------------------------------------------------------------------------
(* cirrus_failure_detect_thread.                                              *)

\* Mutant: the errors are checked for without the mutex.
DetectLockNot(d) ==
  /\ DetGoto(d, "lock", "wake")
  /\ UNCHANGED <<state, mutex, setup, hal, cal, again, seen, failure_detect_thread, dsp,
                 early>>

DetectLock(d) ==
  /\ DetGoto(d, "lock", "wake")
  /\ Lock(d)
  /\ UNCHANGED <<state, setup, hal, cal, again, seen, failure_detect_thread, dsp, early>>

\* Once more after a check that failed, and then the reset.
CheckFailed(d) ==
  /\ dpc' = [dpc EXCEPT ![d] = IF again[d] THEN "reset" ELSE "wake"]
  /\ again' = [again EXCEPT ![d] = TRUE]

DetectWake(d) ==
  /\ dpc[d] = "wake"
  /\ \E woken \in BOOLEAN :
       /\ ForceWake(TRUE, woken)
       /\ IF woken THEN DetGoto(d, "wake", "rest") /\ UNCHANGED again ELSE CheckFailed(d)
  /\ UNCHANGED <<state, mutex, setup, hal, cal, seen, failure_detect_thread, firmware, early>>

\* The error is read, if there is one and it can be read.  What the check returns is
\* whether the amplifier could be allowed to sleep again.
DetectRest(d) ==
  /\ dpc[d] = "rest"
  /\ \E error, rested \in BOOLEAN :
       /\ seen' = [seen EXCEPT ![d] = error /\ rested]
       /\ ForceWake(FALSE, rested)
       /\ IF rested THEN DetGoto(d, "rest", "unlock") /\ UNCHANGED again ELSE CheckFailed(d)
  /\ UNCHANGED <<state, mutex, setup, hal, cal, failure_detect_thread, firmware,
                 early>>

DetectDone(d) ==
  /\ DetGoto(d, "unlock", "none")
  /\ Unlock
  /\ again' = [again EXCEPT ![d] = FALSE] /\ seen' = [seen EXCEPT ![d] = FALSE]
  /\ UNCHANGED <<state, setup, hal, cal, failure_detect_thread, dsp, early>>

\* The amplifiers are reset, if that works, and the firmware is to be loaded again.
ResetAndAbort(d) ==
  /\ dpc[d] = "reset"
  /\ Abort
  /\ firmware' \in {{}, firmware}
  /\ wake' \in {FALSE, wake}

\* So it does when a thread comes for a mutex that is no more.
LockDestroyed(d) ==
  /\ dpc[d] = "lock" /\ mutex = "destroyed"
  /\ Abort
  /\ UNCHANGED dsp

-------------------------------------------------------------------------------
Calibration ==
  \/ StartCalibration \/ CalibrationFirmware \/ WakeForCalibration \/ CalibrationResult
  \/ SilenceFails \/ PlaySilence \/ EnableForCalibration \/ DisableForCalibration
  \/ DisabledForCalibration \/ DownloadFirst \/ DownloadLeft \/ WriteCalibration
  \/ EndCalibration

Request ==
  \/ \E dev \in Devices : EnableOutput(dev) \/ DisableOutput(dev)
  \/ Close

Output ==
  \/ EnableLock \/ EnableCheck \/ EnableWake \/ EnableCreate \/ EnablePlay \/ EnableDone
  \/ DisableLock \/ DisableCheck \/ DisableIdle \/ DisableDone
  \/ JoinDetector \/ JoinCalibration \/ DestroyMutex

Detect(d) ==
  \/ DetectLock(d) \/ DetectWake(d) \/ DetectRest(d) \/ DetectDone(d)
  \/ ResetAndAbort(d) \/ LockDestroyed(d)

Next ==
  \/ AmpCalib \/ AmpCalibFails \/ Calibration \/ Request \/ Output
  \/ \E d \in Detectors : Detect(d)

\* Threads are scheduled, and the calibration thread, when it waits for a lock that
\* others keep taking, gets it in the end.
Spec ==
  /\ Init /\ [][Next]_vars
  /\ SF_vars(Calibration) /\ WF_vars(Output)
  /\ \A d \in Detectors : WF_vars(Detect(d))

-------------------------------------------------------------------------------
(* Properties.                                                                *)

\* Playback means that the protection firmware runs on every amplifier, in spite of
\* loads that fail and processes that die, unless the audio HAL was faster than the
\* calibration thread's first step.
PlaybackIsProtected == state = "PLAYBACK" /\ ~early => Channels \subseteq firmware

\* What a comment in cirrus_mono_calibration says: "It HAS TO stay awake until
\* Protection is loaded!!!"  Calls of the audio HAL and detectors write the same
\* control; with the same exception, they do not come then.
AwakeUntilProtected ==
  cpc \in {"download", "downloadL"} /\ silence = "result" /\ ~early => wake

\* Threads in a critical section of fb_prot_mutex.
Critical == {t \in {"hal"} : hpc \in {"check", "wake", "create", "play", "enabled", "stop",
                                     "idle", "disabled"}}
            \cup {d \in Detectors : dpc[d] \in {"wake", "rest", "unlock", "reset"}}

\* The calibration thread unlocks a mutex that it has not locked.  With the same
\* exception, no two of the threads that protect something with it come together.
CriticalSectionsExclude == ~early => \A t, u \in Critical : t = u

\* Nobody makes a failed calibration look like a good one: the end of the calibration
\* is written under one lock, everything else under another, and only a new
\* process calibrates again.
ErrorIsFinal == [][state = "CALIBRATION_ERROR" => state' \in {state, "INIT"}]_vars

\* The speaker is protected as SpeakerProtection says, although calibration and playback
\* write the state under different locks.  Who was early is hasty.
Promise == INSTANCE SpeakerProtection WITH
  protected <- Channels \subseteq firmware,
  hasty <- early

ImplementsProtection == Promise!Spec

\* The mutex outlives the detector of the last playback.
MutexOutlivesDetector ==
  mutex = "destroyed" => \A d \in Detectors : d = failure_detect_thread => dpc[d] = "none"

\* The calibration comes to an end, in spite of the locks that others hold.
CalibrationEnds == cpc = "start" ~> cpc \in {"done", "none"}

\* What cirrus_check_error_fatal says it does: "Cirrus DSP is in error state:
\* resetting device".
NoErrorIsIgnored == \A d \in Detectors : dpc[d] = "unlock" => ~seen[d]
===============================================================================
