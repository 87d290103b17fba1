--------------------------- MODULE Amplifier_proofs ---------------------------
(***************************************************************************)
(* Proofs about Amplifier, for any devices and any number of detectors:     *)
(* unless the audio HAL comes before the calibration thread's first step,   *)
(* calibration and playback stay apart although they share neither lock,    *)
(* and the speaker is protected as SpeakerProtection says.                  *)
(***************************************************************************)
EXTENDS Amplifier, TLAPS

\* The audio HAL is about to write the state.
Playing == hpc \in {"wake", "create", "play", "idle"}
Calibrating == cpc \notin {"none", "absent", "start", "done"}

\* A failed calibration is over, and no call has seen another state.
ErrorInv == state = "CALIBRATION_ERROR" => cpc = "done" /\ ~Playing

\* Until the calibration is over nothing plays and nothing looks for errors; nor does
\* anything if it has failed.
PhaseInv ==
  ~early =>
    /\ cpc \in {"none", "absent", "start"} => state = "INIT"
    /\ Calibrating => state = "CALIBRATING"
    /\ cpc = "done" => state \in {"IDLE", "PLAYBACK", "CALIBRATION_ERROR"}
    /\ cpc # "done" => ~Playing
    /\ cpc # "done" \/ state = "CALIBRATION_ERROR" => \A d \in Detectors : dpc[d] = "none"

\* What has been loaded when the calibration thread gets there.
FirmwareInv ==
  /\ cpc \in {"none", "absent", "start", "firmware"} => silence = "end"
  /\ cpc = "downloadL" => is_stereo /\ "R" \in firmware
  /\ cpc = "data" => Channels \subseteq firmware
  /\ cpc \in {"silence", "enable", "disable", "unlock"} /\ silence = "end" /\ ret_ok
       => Channels \subseteq firmware
  /\ cpc = "end" /\ ret_ok => Channels \subseteq firmware
  /\ ~early /\ cpc = "done" /\ state # "CALIBRATION_ERROR" => Channels \subseteq firmware

\* After the calibration the mutex works.
MutexInv == ~early /\ cpc = "done" => \A t \in Critical : mutex = t

CloseInv ==
  /\ mutex = "destroyed" => hpc = "closed"
  /\ hpc \in {"join", "destroy", "closed"} =>
       \A d \in Detectors : d = failure_detect_thread => dpc[d] = "none"

IInv == /\ TypeOK /\ ErrorInv /\ PhaseInv /\ FirmwareInv /\ AwakeUntilProtected /\ MutexInv
        /\ CloseInv

USE AmplifierAssumption

\* Every step keeps the types.
LEMMA FlagsStep == TypeOK /\ Next => Flags'
<1> SUFFICES ASSUME TypeOK, Next PROVE Flags'
  OBVIOUS
<1> USE DEF TypeOK, Flags, Places
<1>1. CASE AmpCalib
  BY <1>1 DEF AmpCalib, CalGoto, hal, det, dsp
<1>37. CASE AmpCalibFails
  BY <1>37 DEF AmpCalibFails, CalGoto, setup, hal, det, dsp
<1>2. CASE StartCalibration
  BY <1>2 DEF StartCalibration, CalGoto, setup, hal, det, dsp
<1>3. CASE CalibrationFirmware
  BY <1>3 DEF CalibrationFirmware, hal, det
<1>4. CASE WakeForCalibration
  BY <1>4 DEF WakeForCalibration, ForceWake, Forced, setup, hal, det
<1>5. CASE SilenceFails
  BY <1>5 DEF SilenceFails, CalGoto, setup, hal, det, dsp
<1>6. CASE PlaySilence
  BY <1>6 DEF PlaySilence, CalGoto, setup, hal, det, dsp
<1>7. CASE EnableForCalibration
  BY <1>7 DEF EnableForCalibration, CalGoto, Unlock, setup, hal, det, dsp
<1>8. CASE DisableForCalibration
  BY <1>8 DEF DisableForCalibration, CalGoto, Lock, setup, hal, det, dsp
<1>9. CASE DisabledForCalibration
  BY <1>9 DEF DisabledForCalibration, CalGoto, Unlock, setup, hal, det, dsp
<1>10. CASE CalibrationResult
  BY <1>10 DEF CalibrationResult, ForceWake, Forced, hal, det
<1>11. CASE DownloadFirst
  BY <1>11 DEF DownloadFirst, Download, setup, hal, det
<1>12. CASE DownloadLeft
  BY <1>12 DEF DownloadLeft, Download, setup, hal, det
<1>13. CASE WriteCalibration
  BY <1>13 DEF WriteCalibration, CalGoto, Forced, setup, hal, det
<1>14. CASE EndCalibration
  BY <1>14 DEF EndCalibration, CalGoto, AdevLocked, setup, hal, det, dsp
<1>15. ASSUME NEW dev \in Devices, EnableOutput(dev) PROVE Flags'
  BY <1>15 DEF EnableOutput, HalGoto, setup, cal, det, dsp
<1>16. ASSUME NEW dev \in Devices, DisableOutput(dev) PROVE Flags'
  BY <1>16 DEF DisableOutput, HalGoto, setup, cal, det, dsp
<1>17. CASE Close
  BY <1>17 DEF Close, HalGoto, setup, cal, det, dsp
<1>18. CASE EnableLock
  BY <1>18 DEF EnableLock, HalGoto, Lock, setup, cal, det, dsp
<1>19. CASE EnableCheck
  BY <1>19 DEF EnableCheck, HalGoto, setup, cal, det, dsp
<1>20. CASE EnableWake
  BY <1>20 DEF EnableWake, HalGoto, ForceWake, Forced, setup, cal, det
<1>21. CASE EnableCreate
  BY <1>21 DEF EnableCreate, HalGoto, DetGoto, setup, cal, det, dsp
<1>22. CASE EnablePlay
  BY <1>22 DEF EnablePlay, HalGoto, setup, cal, det, dsp
<1>23. CASE EnableDone
  BY <1>23 DEF EnableDone, HalGoto, Unlock, setup, cal, det, dsp
<1>24. CASE DisableLock
  BY <1>24 DEF DisableLock, HalGoto, Lock, setup, cal, det, dsp
<1>25. CASE DisableCheck
  BY <1>25 DEF DisableCheck, HalGoto, setup, cal, det, dsp
<1>26. CASE DisableIdle
  BY <1>26 DEF DisableIdle, HalGoto, setup, cal, det, dsp
<1>27. CASE DisableDone
  BY <1>27 DEF DisableDone, HalGoto, Unlock, setup, cal, det, dsp
<1>28. CASE JoinDetector
  BY <1>28 DEF JoinDetector, HalGoto, setup, cal, det, dsp
<1>29. CASE JoinCalibration
  BY <1>29 DEF JoinCalibration, HalGoto, setup, cal, det, dsp
<1>30. CASE DestroyMutex
  BY <1>30 DEF DestroyMutex, HalGoto, setup, cal, det, dsp
<1>31. ASSUME NEW d \in Detectors, DetectLock(d) PROVE Flags'
  BY <1>31 DEF DetectLock, DetGoto, Lock, setup, hal, cal, dsp
<1>32. ASSUME NEW d \in Detectors, DetectWake(d) PROVE Flags'
  BY <1>32 DEF DetectWake, DetGoto, ForceWake, Forced, CheckFailed, setup, hal, cal
<1>33. ASSUME NEW d \in Detectors, DetectRest(d) PROVE Flags'
  BY <1>33 DEF DetectRest, DetGoto, ForceWake, Forced, CheckFailed, setup, hal, cal
<1>34. ASSUME NEW d \in Detectors, DetectDone(d) PROVE Flags'
  BY <1>34 DEF DetectDone, DetGoto, Unlock, setup, hal, cal, dsp
<1>35. ASSUME NEW d \in Detectors, ResetAndAbort(d) PROVE Flags'
  BY <1>35 DEF ResetAndAbort, Abort
<1>36. ASSUME NEW d \in Detectors, LockDestroyed(d) PROVE Flags'
  BY <1>36 DEF LockDestroyed, Abort, dsp
<1> QED
  BY <1>1, <1>2, <1>3, <1>4, <1>5, <1>6, <1>7, <1>8, <1>9, <1>10, <1>11, <1>12, <1>13,
      <1>14, <1>15, <1>16, <1>17, <1>18, <1>19, <1>20, <1>21, <1>22, <1>23, <1>24, <1>25,
      <1>26, <1>27, <1>28, <1>29, <1>30, <1>31, <1>32, <1>33, <1>34, <1>35, <1>36, <1>37
     DEF Next, Calibration, Request, Output, Detect

\* And every step leads somewhere.
LEMMA PlacesStep == TypeOK /\ Next => Places'
<1> SUFFICES ASSUME TypeOK, Next PROVE Places'
  OBVIOUS
<1> USE DEF TypeOK, Flags, Places
<1>1. CASE AmpCalib
  BY <1>1 DEF AmpCalib, CalGoto, hal, det, dsp
<1>37. CASE AmpCalibFails
  BY <1>37 DEF AmpCalibFails, CalGoto, setup, hal, det, dsp
<1>2. CASE StartCalibration
  BY <1>2 DEF StartCalibration, CalGoto, setup, hal, det, dsp
<1>3. CASE CalibrationFirmware
  BY <1>3 DEF CalibrationFirmware, hal, det
<1>4. CASE WakeForCalibration
  BY <1>4 DEF WakeForCalibration, ForceWake, Forced, setup, hal, det
<1>5. CASE SilenceFails
  BY <1>5 DEF SilenceFails, CalGoto, setup, hal, det, dsp
<1>6. CASE PlaySilence
  BY <1>6 DEF PlaySilence, CalGoto, setup, hal, det, dsp
<1>7. CASE EnableForCalibration
  BY <1>7 DEF EnableForCalibration, CalGoto, Unlock, setup, hal, det, dsp
<1>8. CASE DisableForCalibration
  BY <1>8 DEF DisableForCalibration, CalGoto, Lock, setup, hal, det, dsp
<1>9. CASE DisabledForCalibration
  BY <1>9 DEF DisabledForCalibration, CalGoto, Unlock, setup, hal, det, dsp
<1>10. CASE CalibrationResult
  BY <1>10 DEF CalibrationResult, ForceWake, Forced, hal, det
<1>11. CASE DownloadFirst
  <2>1. PICK loaded \in BOOLEAN : Download("R", loaded)
    BY <1>11 DEF DownloadFirst
  <2>2. firmware' \in SUBSET {"L", "R"}
    BY <2>1 DEF Download
  <2> HIDE <2>1
  <2> QED
    BY <1>11, <2>2 DEF DownloadFirst, setup, hal, det
<1>12. CASE DownloadLeft
  <2>1. PICK loaded \in BOOLEAN : Download("L", loaded)
    BY <1>12 DEF DownloadLeft
  <2>2. firmware' \in SUBSET {"L", "R"}
    BY <2>1 DEF Download
  <2> HIDE <2>1
  <2> QED
    BY <1>12, <2>2 DEF DownloadLeft, setup, hal, det
<1>13. CASE WriteCalibration
  BY <1>13 DEF WriteCalibration, CalGoto, setup, hal, det
<1>14. CASE EndCalibration
  BY <1>14 DEF EndCalibration, CalGoto, AdevLocked, setup, hal, det, dsp
<1>15. ASSUME NEW dev \in Devices, EnableOutput(dev) PROVE Places'
  BY <1>15 DEF EnableOutput, HalGoto, setup, cal, det, dsp
<1>16. ASSUME NEW dev \in Devices, DisableOutput(dev) PROVE Places'
  BY <1>16 DEF DisableOutput, HalGoto, setup, cal, det, dsp
<1>17. CASE Close
  BY <1>17 DEF Close, HalGoto, setup, cal, det, dsp
<1>18. CASE EnableLock
  BY <1>18 DEF EnableLock, HalGoto, Lock, setup, cal, det, dsp
<1>19. CASE EnableCheck
  BY <1>19 DEF EnableCheck, HalGoto, setup, cal, det, dsp
<1>20. CASE EnableWake
  BY <1>20 DEF EnableWake, HalGoto, ForceWake, Forced, setup, cal, det
<1>21. CASE EnableCreate
  BY <1>21 DEF EnableCreate, HalGoto, DetGoto, setup, cal, det, dsp
<1>22. CASE EnablePlay
  BY <1>22 DEF EnablePlay, HalGoto, setup, cal, det, dsp
<1>23. CASE EnableDone
  BY <1>23 DEF EnableDone, HalGoto, Unlock, setup, cal, det, dsp
<1>24. CASE DisableLock
  BY <1>24 DEF DisableLock, HalGoto, Lock, setup, cal, det, dsp
<1>25. CASE DisableCheck
  BY <1>25 DEF DisableCheck, HalGoto, setup, cal, det, dsp
<1>26. CASE DisableIdle
  BY <1>26 DEF DisableIdle, HalGoto, setup, cal, det, dsp
<1>27. CASE DisableDone
  BY <1>27 DEF DisableDone, HalGoto, Unlock, setup, cal, det, dsp
<1>28. CASE JoinDetector
  BY <1>28 DEF JoinDetector, HalGoto, setup, cal, det, dsp
<1>29. CASE JoinCalibration
  BY <1>29 DEF JoinCalibration, HalGoto, setup, cal, det, dsp
<1>30. CASE DestroyMutex
  BY <1>30 DEF DestroyMutex, HalGoto, setup, cal, det, dsp
<1>31. ASSUME NEW d \in Detectors, DetectLock(d) PROVE Places'
  BY <1>31 DEF DetectLock, DetGoto, Lock, setup, hal, cal, dsp
<1>32. ASSUME NEW d \in Detectors, DetectWake(d) PROVE Places'
  BY <1>32 DEF DetectWake, DetGoto, ForceWake, Forced, CheckFailed, setup, hal, cal
<1>33. ASSUME NEW d \in Detectors, DetectRest(d) PROVE Places'
  BY <1>33 DEF DetectRest, DetGoto, ForceWake, Forced, CheckFailed, setup, hal, cal
<1>34. ASSUME NEW d \in Detectors, DetectDone(d) PROVE Places'
  BY <1>34 DEF DetectDone, DetGoto, Unlock, setup, hal, cal, dsp
<1>35. ASSUME NEW d \in Detectors, ResetAndAbort(d) PROVE Places'
  BY <1>35 DEF ResetAndAbort, Abort
<1>36. ASSUME NEW d \in Detectors, LockDestroyed(d) PROVE Places'
  BY <1>36 DEF LockDestroyed, Abort, dsp
<1> QED
  BY <1>1, <1>2, <1>3, <1>4, <1>5, <1>6, <1>7, <1>8, <1>9, <1>10, <1>11, <1>12, <1>13,
      <1>14, <1>15, <1>16, <1>17, <1>18, <1>19, <1>20, <1>21, <1>22, <1>23, <1>24, <1>25,
      <1>26, <1>27, <1>28, <1>29, <1>30, <1>31, <1>32, <1>33, <1>34, <1>35, <1>36, <1>37
     DEF Next, Calibration, Request, Output, Detect

\* Only the end of the calibration, under adev->lock, makes it fail.
LEMMA ErrorStep == TypeOK /\ ErrorInv /\ Next => ErrorInv'
<1> SUFFICES ASSUME TypeOK, ErrorInv, Next PROVE ErrorInv'
  OBVIOUS
<1> USE DEF TypeOK, Places, ErrorInv, Playing
<1>1. CASE AmpCalib
  BY <1>1 DEF AmpCalib, CalGoto, hal, det, dsp
<1>37. CASE AmpCalibFails
  BY <1>37 DEF AmpCalibFails, CalGoto, setup, hal, det, dsp
<1>2. CASE StartCalibration
  BY <1>2 DEF StartCalibration, CalGoto, setup, hal, det, dsp
<1>3. CASE CalibrationFirmware
  BY <1>3 DEF CalibrationFirmware, hal, det
<1>4. CASE WakeForCalibration
  BY <1>4 DEF WakeForCalibration, ForceWake, Forced, setup, hal, det
<1>5. CASE SilenceFails
  BY <1>5 DEF SilenceFails, CalGoto, setup, hal, det, dsp
<1>6. CASE PlaySilence
  BY <1>6 DEF PlaySilence, CalGoto, setup, hal, det, dsp
<1>7. CASE EnableForCalibration
  BY <1>7 DEF EnableForCalibration, CalGoto, Unlock, setup, hal, det, dsp
<1>8. CASE DisableForCalibration
  BY <1>8 DEF DisableForCalibration, CalGoto, Lock, setup, hal, det, dsp
<1>9. CASE DisabledForCalibration
  BY <1>9 DEF DisabledForCalibration, CalGoto, Unlock, setup, hal, det, dsp
<1>10. CASE CalibrationResult
  BY <1>10 DEF CalibrationResult, ForceWake, Forced, hal, det
<1>11. CASE DownloadFirst
  BY <1>11 DEF DownloadFirst, Download, setup, hal, det
<1>12. CASE DownloadLeft
  BY <1>12 DEF DownloadLeft, Download, setup, hal, det
<1>13. CASE WriteCalibration
  BY <1>13 DEF WriteCalibration, CalGoto, setup, hal, det
<1>14. CASE EndCalibration
  BY <1>14 DEF EndCalibration, CalGoto, AdevLocked, setup, hal, det, dsp
<1>15. ASSUME NEW dev \in Devices, EnableOutput(dev) PROVE ErrorInv'
  BY <1>15 DEF EnableOutput, HalGoto, setup, cal, det, dsp
<1>16. ASSUME NEW dev \in Devices, DisableOutput(dev) PROVE ErrorInv'
  BY <1>16 DEF DisableOutput, HalGoto, setup, cal, det, dsp
<1>17. CASE Close
  BY <1>17 DEF Close, HalGoto, setup, cal, det, dsp
<1>18. CASE EnableLock
  BY <1>18 DEF EnableLock, HalGoto, Lock, setup, cal, det, dsp
<1>19. CASE EnableCheck
  BY <1>19 DEF EnableCheck, HalGoto, setup, cal, det, dsp
<1>20. CASE EnableWake
  BY <1>20 DEF EnableWake, HalGoto, ForceWake, Forced, setup, cal, det
<1>21. CASE EnableCreate
  BY <1>21 DEF EnableCreate, HalGoto, DetGoto, setup, cal, det, dsp
<1>22. CASE EnablePlay
  BY <1>22 DEF EnablePlay, HalGoto, setup, cal, det, dsp
<1>23. CASE EnableDone
  BY <1>23 DEF EnableDone, HalGoto, Unlock, setup, cal, det, dsp
<1>24. CASE DisableLock
  BY <1>24 DEF DisableLock, HalGoto, Lock, setup, cal, det, dsp
<1>25. CASE DisableCheck
  BY <1>25 DEF DisableCheck, HalGoto, setup, cal, det, dsp
<1>26. CASE DisableIdle
  BY <1>26 DEF DisableIdle, HalGoto, setup, cal, det, dsp
<1>27. CASE DisableDone
  BY <1>27 DEF DisableDone, HalGoto, Unlock, setup, cal, det, dsp
<1>28. CASE JoinDetector
  BY <1>28 DEF JoinDetector, HalGoto, setup, cal, det, dsp
<1>29. CASE JoinCalibration
  BY <1>29 DEF JoinCalibration, HalGoto, setup, cal, det, dsp
<1>30. CASE DestroyMutex
  BY <1>30 DEF DestroyMutex, HalGoto, setup, cal, det, dsp
<1>31. ASSUME NEW d \in Detectors, DetectLock(d) PROVE ErrorInv'
  BY <1>31 DEF DetectLock, DetGoto, Lock, setup, hal, cal, dsp
<1>32. ASSUME NEW d \in Detectors, DetectWake(d) PROVE ErrorInv'
  BY <1>32 DEF DetectWake, DetGoto, ForceWake, Forced, CheckFailed, setup, hal, cal
<1>33. ASSUME NEW d \in Detectors, DetectRest(d) PROVE ErrorInv'
  BY <1>33 DEF DetectRest, DetGoto, ForceWake, Forced, CheckFailed, setup, hal, cal
<1>34. ASSUME NEW d \in Detectors, DetectDone(d) PROVE ErrorInv'
  BY <1>34 DEF DetectDone, DetGoto, Unlock, setup, hal, cal, dsp
<1>35. ASSUME NEW d \in Detectors, ResetAndAbort(d) PROVE ErrorInv'
  BY <1>35 DEF ResetAndAbort, Abort
<1>36. ASSUME NEW d \in Detectors, LockDestroyed(d) PROVE ErrorInv'
  BY <1>36 DEF LockDestroyed, Abort, dsp
<1> QED
  BY <1>1, <1>2, <1>3, <1>4, <1>5, <1>6, <1>7, <1>8, <1>9, <1>10, <1>11, <1>12, <1>13,
      <1>14, <1>15, <1>16, <1>17, <1>18, <1>19, <1>20, <1>21, <1>22, <1>23, <1>24, <1>25,
      <1>26, <1>27, <1>28, <1>29, <1>30, <1>31, <1>32, <1>33, <1>34, <1>35, <1>36, <1>37
     DEF Next, Calibration, Request, Output, Detect

\* The calibration thread and the audio HAL take turns.
LEMMA PhaseStep == TypeOK /\ PhaseInv /\ Next => PhaseInv'
<1> SUFFICES ASSUME TypeOK, PhaseInv, Next PROVE PhaseInv'
  OBVIOUS
<1> USE DEF TypeOK, Places, PhaseInv, Playing, Calibrating
<1>1. CASE AmpCalib
  BY <1>1 DEF AmpCalib, CalGoto, hal, det, dsp
<1>37. CASE AmpCalibFails
  BY <1>37 DEF AmpCalibFails, CalGoto, setup, hal, det, dsp
<1>2. CASE StartCalibration
  BY <1>2 DEF StartCalibration, CalGoto, setup, hal, det, dsp
<1>3. CASE CalibrationFirmware
  BY <1>3 DEF CalibrationFirmware, hal, det
<1>4. CASE WakeForCalibration
  BY <1>4 DEF WakeForCalibration, ForceWake, Forced, setup, hal, det
<1>5. CASE SilenceFails
  BY <1>5 DEF SilenceFails, CalGoto, setup, hal, det, dsp
<1>6. CASE PlaySilence
  BY <1>6 DEF PlaySilence, CalGoto, setup, hal, det, dsp
<1>7. CASE EnableForCalibration
  BY <1>7 DEF EnableForCalibration, CalGoto, Unlock, setup, hal, det, dsp
<1>8. CASE DisableForCalibration
  BY <1>8 DEF DisableForCalibration, CalGoto, Lock, setup, hal, det, dsp
<1>9. CASE DisabledForCalibration
  BY <1>9 DEF DisabledForCalibration, CalGoto, Unlock, setup, hal, det, dsp
<1>10. CASE CalibrationResult
  BY <1>10 DEF CalibrationResult, ForceWake, Forced, hal, det
<1>11. CASE DownloadFirst
  BY <1>11 DEF DownloadFirst, Download, setup, hal, det
<1>12. CASE DownloadLeft
  BY <1>12 DEF DownloadLeft, Download, setup, hal, det
<1>13. CASE WriteCalibration
  BY <1>13 DEF WriteCalibration, CalGoto, setup, hal, det
<1>14. CASE EndCalibration
  BY <1>14 DEF EndCalibration, CalGoto, AdevLocked, setup, hal, det, dsp
<1>15. ASSUME NEW dev \in Devices, EnableOutput(dev) PROVE PhaseInv'
  BY <1>15 DEF EnableOutput, HalGoto, setup, cal, det, dsp
<1>16. ASSUME NEW dev \in Devices, DisableOutput(dev) PROVE PhaseInv'
  BY <1>16 DEF DisableOutput, HalGoto, setup, cal, det, dsp
<1>17. CASE Close
  BY <1>17 DEF Close, HalGoto, setup, cal, det, dsp
<1>18. CASE EnableLock
  BY <1>18 DEF EnableLock, HalGoto, Lock, setup, cal, det, dsp
<1>19. CASE EnableCheck
  BY <1>19 DEF EnableCheck, HalGoto, setup, cal, det, dsp
<1>20. CASE EnableWake
  BY <1>20 DEF EnableWake, HalGoto, ForceWake, Forced, setup, cal, det
<1>21. CASE EnableCreate
  BY <1>21 DEF EnableCreate, HalGoto, DetGoto, setup, cal, det, dsp
<1>22. CASE EnablePlay
  BY <1>22 DEF EnablePlay, HalGoto, setup, cal, det, dsp
<1>23. CASE EnableDone
  BY <1>23 DEF EnableDone, HalGoto, Unlock, setup, cal, det, dsp
<1>24. CASE DisableLock
  BY <1>24 DEF DisableLock, HalGoto, Lock, setup, cal, det, dsp
<1>25. CASE DisableCheck
  BY <1>25 DEF DisableCheck, HalGoto, setup, cal, det, dsp
<1>26. CASE DisableIdle
  BY <1>26 DEF DisableIdle, HalGoto, setup, cal, det, dsp
<1>27. CASE DisableDone
  BY <1>27 DEF DisableDone, HalGoto, Unlock, setup, cal, det, dsp
<1>28. CASE JoinDetector
  BY <1>28 DEF JoinDetector, HalGoto, setup, cal, det, dsp
<1>29. CASE JoinCalibration
  BY <1>29 DEF JoinCalibration, HalGoto, setup, cal, det, dsp
<1>30. CASE DestroyMutex
  BY <1>30 DEF DestroyMutex, HalGoto, setup, cal, det, dsp
<1>31. ASSUME NEW d \in Detectors, DetectLock(d) PROVE PhaseInv'
  BY <1>31 DEF DetectLock, DetGoto, Lock, setup, hal, cal, dsp
<1>32. ASSUME NEW d \in Detectors, DetectWake(d) PROVE PhaseInv'
  BY <1>32 DEF DetectWake, DetGoto, ForceWake, Forced, CheckFailed, setup, hal, cal
<1>33. ASSUME NEW d \in Detectors, DetectRest(d) PROVE PhaseInv'
  BY <1>33 DEF DetectRest, DetGoto, ForceWake, Forced, CheckFailed, setup, hal, cal
<1>34. ASSUME NEW d \in Detectors, DetectDone(d) PROVE PhaseInv'
  BY <1>34 DEF DetectDone, DetGoto, Unlock, setup, hal, cal, dsp
<1>35. ASSUME NEW d \in Detectors, ResetAndAbort(d) PROVE PhaseInv'
  BY <1>35 DEF ResetAndAbort, Abort
<1>36. ASSUME NEW d \in Detectors, LockDestroyed(d) PROVE PhaseInv'
  BY <1>36 DEF LockDestroyed, Abort, dsp
<1> QED
  BY <1>1, <1>2, <1>3, <1>4, <1>5, <1>6, <1>7, <1>8, <1>9, <1>10, <1>11, <1>12, <1>13,
      <1>14, <1>15, <1>16, <1>17, <1>18, <1>19, <1>20, <1>21, <1>22, <1>23, <1>24, <1>25,
      <1>26, <1>27, <1>28, <1>29, <1>30, <1>31, <1>32, <1>33, <1>34, <1>35, <1>36, <1>37
     DEF Next, Calibration, Request, Output, Detect

\* The calibration thread goes on with what it has loaded, or fails.
LEMMA FirmwareStep == TypeOK /\ ErrorInv /\ PhaseInv /\ FirmwareInv /\ Next => FirmwareInv'
<1> SUFFICES ASSUME TypeOK, ErrorInv, PhaseInv, FirmwareInv, Next PROVE FirmwareInv'
  OBVIOUS
<1> USE DEF TypeOK, Places, ErrorInv, PhaseInv, FirmwareInv, Playing, Calibrating, Channels
<1>1. CASE AmpCalib
  BY <1>1 DEF AmpCalib, CalGoto, hal, det, dsp
<1>37. CASE AmpCalibFails
  BY <1>37 DEF AmpCalibFails, CalGoto, setup, hal, det, dsp
<1>2. CASE StartCalibration
  BY <1>2 DEF StartCalibration, CalGoto, setup, hal, det, dsp
<1>3. CASE CalibrationFirmware
  BY <1>3 DEF CalibrationFirmware, hal, det
<1>4. CASE WakeForCalibration
  BY <1>4 DEF WakeForCalibration, ForceWake, Forced, setup, hal, det
<1>5. CASE SilenceFails
  BY <1>5 DEF SilenceFails, CalGoto, setup, hal, det, dsp
<1>6. CASE PlaySilence
  BY <1>6 DEF PlaySilence, CalGoto, setup, hal, det, dsp
<1>7. CASE EnableForCalibration
  BY <1>7 DEF EnableForCalibration, CalGoto, Unlock, setup, hal, det, dsp
<1>8. CASE DisableForCalibration
  BY <1>8 DEF DisableForCalibration, CalGoto, Lock, setup, hal, det, dsp
<1>9. CASE DisabledForCalibration
  BY <1>9 DEF DisabledForCalibration, CalGoto, Unlock, setup, hal, det, dsp
<1>10. CASE CalibrationResult
  BY <1>10 DEF CalibrationResult, ForceWake, Forced, hal, det
<1>11. CASE DownloadFirst
  BY <1>11 DEF DownloadFirst, Download, setup, hal, det
<1>12. CASE DownloadLeft
  BY <1>12 DEF DownloadLeft, Download, setup, hal, det
<1>13. CASE WriteCalibration
  BY <1>13 DEF WriteCalibration, CalGoto, setup, hal, det
<1>14. CASE EndCalibration
  BY <1>14 DEF EndCalibration, CalGoto, AdevLocked, setup, hal, det, dsp
<1>15. ASSUME NEW dev \in Devices, EnableOutput(dev) PROVE FirmwareInv'
  BY <1>15 DEF EnableOutput, HalGoto, setup, cal, det, dsp
<1>16. ASSUME NEW dev \in Devices, DisableOutput(dev) PROVE FirmwareInv'
  BY <1>16 DEF DisableOutput, HalGoto, setup, cal, det, dsp
<1>17. CASE Close
  BY <1>17 DEF Close, HalGoto, setup, cal, det, dsp
<1>18. CASE EnableLock
  BY <1>18 DEF EnableLock, HalGoto, Lock, setup, cal, det, dsp
<1>19. CASE EnableCheck
  BY <1>19 DEF EnableCheck, HalGoto, setup, cal, det, dsp
<1>20. CASE EnableWake
  BY <1>20 DEF EnableWake, HalGoto, ForceWake, Forced, setup, cal, det
<1>21. CASE EnableCreate
  BY <1>21 DEF EnableCreate, HalGoto, DetGoto, setup, cal, det, dsp
<1>22. CASE EnablePlay
  BY <1>22 DEF EnablePlay, HalGoto, setup, cal, det, dsp
<1>23. CASE EnableDone
  BY <1>23 DEF EnableDone, HalGoto, Unlock, setup, cal, det, dsp
<1>24. CASE DisableLock
  BY <1>24 DEF DisableLock, HalGoto, Lock, setup, cal, det, dsp
<1>25. CASE DisableCheck
  BY <1>25 DEF DisableCheck, HalGoto, setup, cal, det, dsp
<1>26. CASE DisableIdle
  BY <1>26 DEF DisableIdle, HalGoto, setup, cal, det, dsp
<1>27. CASE DisableDone
  BY <1>27 DEF DisableDone, HalGoto, Unlock, setup, cal, det, dsp
<1>28. CASE JoinDetector
  BY <1>28 DEF JoinDetector, HalGoto, setup, cal, det, dsp
<1>29. CASE JoinCalibration
  BY <1>29 DEF JoinCalibration, HalGoto, setup, cal, det, dsp
<1>30. CASE DestroyMutex
  BY <1>30 DEF DestroyMutex, HalGoto, setup, cal, det, dsp
<1>31. ASSUME NEW d \in Detectors, DetectLock(d) PROVE FirmwareInv'
  BY <1>31 DEF DetectLock, DetGoto, Lock, setup, hal, cal, dsp
<1>32. ASSUME NEW d \in Detectors, DetectWake(d) PROVE FirmwareInv'
  BY <1>32 DEF DetectWake, DetGoto, ForceWake, Forced, CheckFailed, setup, hal, cal
<1>33. ASSUME NEW d \in Detectors, DetectRest(d) PROVE FirmwareInv'
  BY <1>33 DEF DetectRest, DetGoto, ForceWake, Forced, CheckFailed, setup, hal, cal
<1>34. ASSUME NEW d \in Detectors, DetectDone(d) PROVE FirmwareInv'
  BY <1>34 DEF DetectDone, DetGoto, Unlock, setup, hal, cal, dsp
<1>35. ASSUME NEW d \in Detectors, ResetAndAbort(d) PROVE FirmwareInv'
  BY <1>35 DEF ResetAndAbort, Abort
<1>36. ASSUME NEW d \in Detectors, LockDestroyed(d) PROVE FirmwareInv'
  BY <1>36 DEF LockDestroyed, Abort, dsp
<1> QED
  BY <1>1, <1>2, <1>3, <1>4, <1>5, <1>6, <1>7, <1>8, <1>9, <1>10, <1>11, <1>12, <1>13,
      <1>14, <1>15, <1>16, <1>17, <1>18, <1>19, <1>20, <1>21, <1>22, <1>23, <1>24, <1>25,
      <1>26, <1>27, <1>28, <1>29, <1>30, <1>31, <1>32, <1>33, <1>34, <1>35, <1>36, <1>37
     DEF Next, Calibration, Request, Output, Detect

\* Nobody else writes the force wake control before the protection is loaded.
LEMMA AwakeStep ==
  TypeOK /\ PhaseInv /\ FirmwareInv /\ AwakeUntilProtected /\ Next => AwakeUntilProtected'
<1> SUFFICES ASSUME TypeOK, PhaseInv, FirmwareInv, AwakeUntilProtected, Next
             PROVE AwakeUntilProtected'
  OBVIOUS
<1> USE DEF TypeOK, Places, PhaseInv, FirmwareInv, AwakeUntilProtected, Playing,
    Calibrating
<1>1. CASE AmpCalib
  BY <1>1 DEF AmpCalib, CalGoto, hal, det, dsp
<1>37. CASE AmpCalibFails
  BY <1>37 DEF AmpCalibFails, CalGoto, setup, hal, det, dsp
<1>2. CASE StartCalibration
  BY <1>2 DEF StartCalibration, CalGoto, setup, hal, det, dsp
<1>3. CASE CalibrationFirmware
  BY <1>3 DEF CalibrationFirmware, hal, det
<1>4. CASE WakeForCalibration
  BY <1>4 DEF WakeForCalibration, ForceWake, Forced, setup, hal, det
<1>5. CASE SilenceFails
  BY <1>5 DEF SilenceFails, CalGoto, setup, hal, det, dsp
<1>6. CASE PlaySilence
  BY <1>6 DEF PlaySilence, CalGoto, setup, hal, det, dsp
<1>7. CASE EnableForCalibration
  BY <1>7 DEF EnableForCalibration, CalGoto, Unlock, setup, hal, det, dsp
<1>8. CASE DisableForCalibration
  BY <1>8 DEF DisableForCalibration, CalGoto, Lock, setup, hal, det, dsp
<1>9. CASE DisabledForCalibration
  BY <1>9 DEF DisabledForCalibration, CalGoto, Unlock, setup, hal, det, dsp
<1>10. CASE CalibrationResult
  BY <1>10 DEF CalibrationResult, ForceWake, Forced, hal, det
<1>11. CASE DownloadFirst
  BY <1>11 DEF DownloadFirst, Download, setup, hal, det
<1>12. CASE DownloadLeft
  BY <1>12 DEF DownloadLeft, Download, setup, hal, det
<1>13. CASE WriteCalibration
  BY <1>13 DEF WriteCalibration, CalGoto, setup, hal, det
<1>14. CASE EndCalibration
  BY <1>14 DEF EndCalibration, CalGoto, AdevLocked, setup, hal, det, dsp
<1>15. ASSUME NEW dev \in Devices, EnableOutput(dev) PROVE AwakeUntilProtected'
  BY <1>15 DEF EnableOutput, HalGoto, setup, cal, det, dsp
<1>16. ASSUME NEW dev \in Devices, DisableOutput(dev) PROVE AwakeUntilProtected'
  BY <1>16 DEF DisableOutput, HalGoto, setup, cal, det, dsp
<1>17. CASE Close
  BY <1>17 DEF Close, HalGoto, setup, cal, det, dsp
<1>18. CASE EnableLock
  BY <1>18 DEF EnableLock, HalGoto, Lock, setup, cal, det, dsp
<1>19. CASE EnableCheck
  BY <1>19 DEF EnableCheck, HalGoto, setup, cal, det, dsp
<1>20. CASE EnableWake
  BY <1>20 DEF EnableWake, HalGoto, ForceWake, Forced, setup, cal, det
<1>21. CASE EnableCreate
  BY <1>21 DEF EnableCreate, HalGoto, DetGoto, setup, cal, det, dsp
<1>22. CASE EnablePlay
  BY <1>22 DEF EnablePlay, HalGoto, setup, cal, det, dsp
<1>23. CASE EnableDone
  BY <1>23 DEF EnableDone, HalGoto, Unlock, setup, cal, det, dsp
<1>24. CASE DisableLock
  BY <1>24 DEF DisableLock, HalGoto, Lock, setup, cal, det, dsp
<1>25. CASE DisableCheck
  BY <1>25 DEF DisableCheck, HalGoto, setup, cal, det, dsp
<1>26. CASE DisableIdle
  BY <1>26 DEF DisableIdle, HalGoto, setup, cal, det, dsp
<1>27. CASE DisableDone
  BY <1>27 DEF DisableDone, HalGoto, Unlock, setup, cal, det, dsp
<1>28. CASE JoinDetector
  BY <1>28 DEF JoinDetector, HalGoto, setup, cal, det, dsp
<1>29. CASE JoinCalibration
  BY <1>29 DEF JoinCalibration, HalGoto, setup, cal, det, dsp
<1>30. CASE DestroyMutex
  BY <1>30 DEF DestroyMutex, HalGoto, setup, cal, det, dsp
<1>31. ASSUME NEW d \in Detectors, DetectLock(d) PROVE AwakeUntilProtected'
  BY <1>31 DEF DetectLock, DetGoto, Lock, setup, hal, cal, dsp
<1>32. ASSUME NEW d \in Detectors, DetectWake(d) PROVE AwakeUntilProtected'
  BY <1>32 DEF DetectWake, DetGoto, ForceWake, Forced, CheckFailed, setup, hal, cal
<1>33. ASSUME NEW d \in Detectors, DetectRest(d) PROVE AwakeUntilProtected'
  BY <1>33 DEF DetectRest, DetGoto, ForceWake, Forced, CheckFailed, setup, hal, cal
<1>34. ASSUME NEW d \in Detectors, DetectDone(d) PROVE AwakeUntilProtected'
  BY <1>34 DEF DetectDone, DetGoto, Unlock, setup, hal, cal, dsp
<1>35. ASSUME NEW d \in Detectors, ResetAndAbort(d) PROVE AwakeUntilProtected'
  BY <1>35 DEF ResetAndAbort, Abort
<1>36. ASSUME NEW d \in Detectors, LockDestroyed(d) PROVE AwakeUntilProtected'
  BY <1>36 DEF LockDestroyed, Abort, dsp
<1> QED
  BY <1>1, <1>2, <1>3, <1>4, <1>5, <1>6, <1>7, <1>8, <1>9, <1>10, <1>11, <1>12, <1>13,
      <1>14, <1>15, <1>16, <1>17, <1>18, <1>19, <1>20, <1>21, <1>22, <1>23, <1>24, <1>25,
      <1>26, <1>27, <1>28, <1>29, <1>30, <1>31, <1>32, <1>33, <1>34, <1>35, <1>36, <1>37
     DEF Next, Calibration, Request, Output, Detect

\* Whoever is in a critical section holds the mutex.
LEMMA MutexStep == TypeOK /\ PhaseInv /\ MutexInv /\ Next => MutexInv'
<1> SUFFICES ASSUME TypeOK, PhaseInv, MutexInv, Next PROVE MutexInv'
  OBVIOUS
<1> USE DEF TypeOK, Places, PhaseInv, MutexInv, Playing, Calibrating, Critical
<1>1. CASE AmpCalib
  BY <1>1 DEF AmpCalib, CalGoto, hal, det, dsp
<1>37. CASE AmpCalibFails
  BY <1>37 DEF AmpCalibFails, CalGoto, setup, hal, det, dsp
<1>2. CASE StartCalibration
  BY <1>2 DEF StartCalibration, CalGoto, setup, hal, det, dsp
<1>3. CASE CalibrationFirmware
  BY <1>3 DEF CalibrationFirmware, hal, det
<1>4. CASE WakeForCalibration
  BY <1>4 DEF WakeForCalibration, ForceWake, Forced, setup, hal, det
<1>5. CASE SilenceFails
  BY <1>5 DEF SilenceFails, CalGoto, setup, hal, det, dsp
<1>6. CASE PlaySilence
  BY <1>6 DEF PlaySilence, CalGoto, setup, hal, det, dsp
<1>7. CASE EnableForCalibration
  BY <1>7 DEF EnableForCalibration, CalGoto, Unlock, setup, hal, det, dsp
<1>8. CASE DisableForCalibration
  BY <1>8 DEF DisableForCalibration, CalGoto, Lock, setup, hal, det, dsp
<1>9. CASE DisabledForCalibration
  BY <1>9 DEF DisabledForCalibration, CalGoto, Unlock, setup, hal, det, dsp
<1>10. CASE CalibrationResult
  BY <1>10 DEF CalibrationResult, ForceWake, Forced, hal, det
<1>11. CASE DownloadFirst
  BY <1>11 DEF DownloadFirst, Download, setup, hal, det
<1>12. CASE DownloadLeft
  BY <1>12 DEF DownloadLeft, Download, setup, hal, det
<1>13. CASE WriteCalibration
  BY <1>13 DEF WriteCalibration, CalGoto, setup, hal, det
<1>14. CASE EndCalibration
  BY <1>14 DEF EndCalibration, CalGoto, AdevLocked, setup, hal, det, dsp
<1>15. ASSUME NEW dev \in Devices, EnableOutput(dev) PROVE MutexInv'
  BY <1>15 DEF EnableOutput, HalGoto, setup, cal, det, dsp
<1>16. ASSUME NEW dev \in Devices, DisableOutput(dev) PROVE MutexInv'
  BY <1>16 DEF DisableOutput, HalGoto, setup, cal, det, dsp
<1>17. CASE Close
  BY <1>17 DEF Close, HalGoto, setup, cal, det, dsp
<1>18. CASE EnableLock
  BY <1>18 DEF EnableLock, HalGoto, Lock, setup, cal, det, dsp
<1>19. CASE EnableCheck
  BY <1>19 DEF EnableCheck, HalGoto, setup, cal, det, dsp
<1>20. CASE EnableWake
  BY <1>20 DEF EnableWake, HalGoto, ForceWake, Forced, setup, cal, det
<1>21. CASE EnableCreate
  BY <1>21 DEF EnableCreate, HalGoto, DetGoto, setup, cal, det, dsp
<1>22. CASE EnablePlay
  BY <1>22 DEF EnablePlay, HalGoto, setup, cal, det, dsp
<1>23. CASE EnableDone
  BY <1>23 DEF EnableDone, HalGoto, Unlock, setup, cal, det, dsp
<1>24. CASE DisableLock
  BY <1>24 DEF DisableLock, HalGoto, Lock, setup, cal, det, dsp
<1>25. CASE DisableCheck
  BY <1>25 DEF DisableCheck, HalGoto, setup, cal, det, dsp
<1>26. CASE DisableIdle
  BY <1>26 DEF DisableIdle, HalGoto, setup, cal, det, dsp
<1>27. CASE DisableDone
  BY <1>27 DEF DisableDone, HalGoto, Unlock, setup, cal, det, dsp
<1>28. CASE JoinDetector
  BY <1>28 DEF JoinDetector, HalGoto, setup, cal, det, dsp
<1>29. CASE JoinCalibration
  BY <1>29 DEF JoinCalibration, HalGoto, setup, cal, det, dsp
<1>30. CASE DestroyMutex
  BY <1>30 DEF DestroyMutex, HalGoto, setup, cal, det, dsp
<1>31. ASSUME NEW d \in Detectors, DetectLock(d) PROVE MutexInv'
  BY <1>31 DEF DetectLock, DetGoto, Lock, setup, hal, cal, dsp
<1>32. ASSUME NEW d \in Detectors, DetectWake(d) PROVE MutexInv'
  BY <1>32 DEF DetectWake, DetGoto, ForceWake, Forced, CheckFailed, setup, hal, cal
<1>33. ASSUME NEW d \in Detectors, DetectRest(d) PROVE MutexInv'
  BY <1>33 DEF DetectRest, DetGoto, ForceWake, Forced, CheckFailed, setup, hal, cal
<1>34. ASSUME NEW d \in Detectors, DetectDone(d) PROVE MutexInv'
  BY <1>34 DEF DetectDone, DetGoto, Unlock, setup, hal, cal, dsp
<1>35. ASSUME NEW d \in Detectors, ResetAndAbort(d) PROVE MutexInv'
  BY <1>35 DEF ResetAndAbort, Abort
<1>36. ASSUME NEW d \in Detectors, LockDestroyed(d) PROVE MutexInv'
  BY <1>36 DEF LockDestroyed, Abort, dsp
<1> QED
  BY <1>1, <1>2, <1>3, <1>4, <1>5, <1>6, <1>7, <1>8, <1>9, <1>10, <1>11, <1>12, <1>13,
      <1>14, <1>15, <1>16, <1>17, <1>18, <1>19, <1>20, <1>21, <1>22, <1>23, <1>24, <1>25,
      <1>26, <1>27, <1>28, <1>29, <1>30, <1>31, <1>32, <1>33, <1>34, <1>35, <1>36, <1>37
     DEF Next, Calibration, Request, Output, Detect

\* Close waits for the last detector, and no other is started.
LEMMA CloseStep == TypeOK /\ CloseInv /\ Next => CloseInv'
<1> SUFFICES ASSUME TypeOK, CloseInv, Next PROVE CloseInv'
  OBVIOUS
<1> USE DEF TypeOK, Places, CloseInv
<1>1. CASE AmpCalib
  BY <1>1 DEF AmpCalib, CalGoto, hal, det, dsp
<1>37. CASE AmpCalibFails
  BY <1>37 DEF AmpCalibFails, CalGoto, setup, hal, det, dsp
<1>2. CASE StartCalibration
  BY <1>2 DEF StartCalibration, CalGoto, setup, hal, det, dsp
<1>3. CASE CalibrationFirmware
  BY <1>3 DEF CalibrationFirmware, hal, det
<1>4. CASE WakeForCalibration
  BY <1>4 DEF WakeForCalibration, ForceWake, Forced, setup, hal, det
<1>5. CASE SilenceFails
  BY <1>5 DEF SilenceFails, CalGoto, setup, hal, det, dsp
<1>6. CASE PlaySilence
  BY <1>6 DEF PlaySilence, CalGoto, setup, hal, det, dsp
<1>7. CASE EnableForCalibration
  BY <1>7 DEF EnableForCalibration, CalGoto, Unlock, setup, hal, det, dsp
<1>8. CASE DisableForCalibration
  BY <1>8 DEF DisableForCalibration, CalGoto, Lock, setup, hal, det, dsp
<1>9. CASE DisabledForCalibration
  BY <1>9 DEF DisabledForCalibration, CalGoto, Unlock, setup, hal, det, dsp
<1>10. CASE CalibrationResult
  BY <1>10 DEF CalibrationResult, ForceWake, Forced, hal, det
<1>11. CASE DownloadFirst
  BY <1>11 DEF DownloadFirst, Download, setup, hal, det
<1>12. CASE DownloadLeft
  BY <1>12 DEF DownloadLeft, Download, setup, hal, det
<1>13. CASE WriteCalibration
  BY <1>13 DEF WriteCalibration, CalGoto, setup, hal, det
<1>14. CASE EndCalibration
  BY <1>14 DEF EndCalibration, CalGoto, AdevLocked, setup, hal, det, dsp
<1>15. ASSUME NEW dev \in Devices, EnableOutput(dev) PROVE CloseInv'
  BY <1>15 DEF EnableOutput, HalGoto, setup, cal, det, dsp
<1>16. ASSUME NEW dev \in Devices, DisableOutput(dev) PROVE CloseInv'
  BY <1>16 DEF DisableOutput, HalGoto, setup, cal, det, dsp
<1>17. CASE Close
  BY <1>17 DEF Close, HalGoto, setup, cal, det, dsp
<1>18. CASE EnableLock
  BY <1>18 DEF EnableLock, HalGoto, Lock, setup, cal, det, dsp
<1>19. CASE EnableCheck
  BY <1>19 DEF EnableCheck, HalGoto, setup, cal, det, dsp
<1>20. CASE EnableWake
  BY <1>20 DEF EnableWake, HalGoto, ForceWake, Forced, setup, cal, det
<1>21. CASE EnableCreate
  BY <1>21 DEF EnableCreate, HalGoto, DetGoto, setup, cal, det, dsp
<1>22. CASE EnablePlay
  BY <1>22 DEF EnablePlay, HalGoto, setup, cal, det, dsp
<1>23. CASE EnableDone
  BY <1>23 DEF EnableDone, HalGoto, Unlock, setup, cal, det, dsp
<1>24. CASE DisableLock
  BY <1>24 DEF DisableLock, HalGoto, Lock, setup, cal, det, dsp
<1>25. CASE DisableCheck
  BY <1>25 DEF DisableCheck, HalGoto, setup, cal, det, dsp
<1>26. CASE DisableIdle
  BY <1>26 DEF DisableIdle, HalGoto, setup, cal, det, dsp
<1>27. CASE DisableDone
  BY <1>27 DEF DisableDone, HalGoto, Unlock, setup, cal, det, dsp
<1>28. CASE JoinDetector
  BY <1>28 DEF JoinDetector, HalGoto, setup, cal, det, dsp
<1>29. CASE JoinCalibration
  BY <1>29 DEF JoinCalibration, HalGoto, setup, cal, det, dsp
<1>30. CASE DestroyMutex
  BY <1>30 DEF DestroyMutex, HalGoto, setup, cal, det, dsp
<1>31. ASSUME NEW d \in Detectors, DetectLock(d) PROVE CloseInv'
  BY <1>31 DEF DetectLock, DetGoto, Lock, setup, hal, cal, dsp
<1>32. ASSUME NEW d \in Detectors, DetectWake(d) PROVE CloseInv'
  BY <1>32 DEF DetectWake, DetGoto, ForceWake, Forced, CheckFailed, setup, hal, cal
<1>33. ASSUME NEW d \in Detectors, DetectRest(d) PROVE CloseInv'
  BY <1>33 DEF DetectRest, DetGoto, ForceWake, Forced, CheckFailed, setup, hal, cal
<1>34. ASSUME NEW d \in Detectors, DetectDone(d) PROVE CloseInv'
  BY <1>34 DEF DetectDone, DetGoto, Unlock, setup, hal, cal, dsp
<1>35. ASSUME NEW d \in Detectors, ResetAndAbort(d) PROVE CloseInv'
  BY <1>35 DEF ResetAndAbort, Abort
<1>36. ASSUME NEW d \in Detectors, LockDestroyed(d) PROVE CloseInv'
  BY <1>36 DEF LockDestroyed, Abort, dsp
<1> QED
  BY <1>1, <1>2, <1>3, <1>4, <1>5, <1>6, <1>7, <1>8, <1>9, <1>10, <1>11, <1>12, <1>13,
      <1>14, <1>15, <1>16, <1>17, <1>18, <1>19, <1>20, <1>21, <1>22, <1>23, <1>24, <1>25,
      <1>26, <1>27, <1>28, <1>29, <1>30, <1>31, <1>32, <1>33, <1>34, <1>35, <1>36, <1>37
     DEF Next, Calibration, Request, Output, Detect

\* The invariant: what the two locks do not give, the phases do.
THEOREM Invariance == Spec => []IInv
<1>1. Init => IInv
  BY DEF Init, IInv, TypeOK, Flags, Places, ErrorInv, PhaseInv, FirmwareInv, AwakeUntilProtected,
         MutexInv, CloseInv, Playing, Calibrating
<1>2. IInv /\ [Next]_vars => IInv'
  <2>1. CASE Next
    BY <2>1, FlagsStep, PlacesStep, ErrorStep, PhaseStep, FirmwareStep, AwakeStep, MutexStep,
       CloseStep DEF IInv, TypeOK
  <2>2. CASE UNCHANGED vars
    BY <2>2 DEF IInv, TypeOK, Flags, Places, ErrorInv, PhaseInv, FirmwareInv,
                AwakeUntilProtected, MutexInv, CloseInv, Playing, Calibrating, Channels,
                Critical, vars, setup, hal, cal, det, dsp
  <2> QED
    BY <2>1, <2>2
<1> QED
  BY <1>1, <1>2, PTL DEF Spec

\* Type correctness; among others the device lock is held exactly during a call.
THEOREM TypeCorrect == Spec => []TypeOK
<1>1. IInv => TypeOK
  BY DEF IInv
<1> QED
  BY Invariance, <1>1, PTL

\* Playback implies the protection firmware (PlaybackIsProtected), after any number of
\* failed loads and restarts.
THEOREM PlaybackProtected == Spec => []PlaybackIsProtected
<1>1. IInv => PlaybackIsProtected
  BY DEF IInv, PhaseInv, FirmwareInv, PlaybackIsProtected, Calibrating, TypeOK, Places
<1> QED
  BY Invariance, <1>1, PTL

\* The amplifiers are awake from the calibration to the load of the protection
\* (AwakeUntilProtected), for any number of devices and detectors.
THEOREM StaysAwake == Spec => []AwakeUntilProtected
<1>1. IInv => AwakeUntilProtected
  BY DEF IInv
<1> QED
  BY Invariance, <1>1, PTL

\* The unlock of the calibration thread does not bring two threads together
\* (CriticalSectionsExclude), for any number of detectors.
THEOREM Exclusion == Spec => []CriticalSectionsExclude
<1>1. IInv => CriticalSectionsExclude
  <2> SUFFICES ASSUME IInv, ~early, NEW t \in Critical, NEW u \in Critical PROVE t = u
    BY DEF CriticalSectionsExclude
  <2>1. CASE cpc = "done"
    BY <2>1 DEF IInv, MutexInv
  <2>2. CASE cpc # "done"
    BY <2>2 DEF IInv, PhaseInv, Critical
  <2> QED
    BY <2>1, <2>2
<1> QED
  BY Invariance, <1>1, PTL

\* Close leaves no detector of the last playback behind (MutexOutlivesDetector).
THEOREM CloseIsLast == Spec => []MutexOutlivesDetector
<1>1. IInv => MutexOutlivesDetector
  BY DEF IInv, CloseInv, MutexOutlivesDetector
<1> QED
  BY Invariance, <1>1, PTL

\* A failed calibration stays failed in its process (ErrorIsFinal), whatever calls were
\* in progress when it failed.
THEOREM ErrorStays == Spec => ErrorIsFinal
<1>1. IInv /\ [Next]_vars => [state = "CALIBRATION_ERROR" => state' \in {state, "INIT"}]_vars
  <2> SUFFICES ASSUME IInv, Next, state = "CALIBRATION_ERROR"
               PROVE  state' \in {state, "INIT"}
    BY DEF vars
  <2> cpc = "done" /\ ~Playing
    BY DEF IInv, ErrorInv
  <2> QED
    BY DEF Next, Calibration, Request, Output, Detect, Playing, AmpCalib, AmpCalibFails,
        StartCalibration, CalibrationFirmware, WakeForCalibration, SilenceFails, PlaySilence,
        EnableForCalibration, DisableForCalibration, DisabledForCalibration,
        CalibrationResult, DownloadFirst, DownloadLeft, WriteCalibration, EndCalibration,
        EnableOutput, DisableOutput, Close, EnableLock, EnableCheck, EnableWake,
        EnableCreate, EnablePlay, EnableDone, DisableLock, DisableCheck, DisableIdle,
        DisableDone, JoinDetector, JoinCalibration, DestroyMutex, DetectLock, DetectWake,
        DetectRest, DetectDone, ResetAndAbort, LockDestroyed, CalGoto, HalGoto, Abort
<1> QED
  BY Invariance, <1>1, PTL DEF Spec, ErrorIsFinal

-------------------------------------------------------------------------------
(* The amplifier as a SpeakerProtection.                                      *)

\* Nothing that SpeakerProtection knows changes.
LEMMA StutterProtection ==
  ASSUME UNCHANGED <<state, is_stereo, firmware, early>>
  PROVE  UNCHANGED Promise!vars
BY DEF Promise!vars, Channels

\* The calibration thread begins, loads and ends the calibration.
LEMMA CalibrationRefines ==
  ASSUME IInv, AmpCalib \/ AmpCalibFails \/ Calibration
  PROVE  Promise!Next \/ UNCHANGED Promise!vars
<1> USE DEF IInv, Promise!Next
<1>1. /\ cpc # "done" /\ state # "CALIBRATION_ERROR" /\ early' = early /\ early \in BOOLEAN
      /\ state \in Promise!States
  BY DEF AmpCalib, AmpCalibFails, Calibration, StartCalibration, CalibrationFirmware,
         WakeForCalibration, CalibrationResult, SilenceFails, PlaySilence, EnableForCalibration,
         DisableForCalibration, DisabledForCalibration, DownloadFirst, DownloadLeft,
         WriteCalibration, EndCalibration, CalGoto, ErrorInv, TypeOK, Flags, Places,
         Promise!States
<1>2. CASE AmpCalib \/ CalibrationFirmware \/ DownloadFirst \/ DownloadLeft
  <2>1. state' = state
    BY <1>2 DEF AmpCalib, CalibrationFirmware, DownloadFirst, DownloadLeft
  <2>2. early \/ state \in {"INIT", "CALIBRATING"}
    BY <1>1, <1>2 DEF AmpCalib, CalibrationFirmware, DownloadFirst, DownloadLeft, CalGoto,
                      PhaseInv, Calibrating
  <2>3. (Channels \subseteq firmware)' \in BOOLEAN
    OBVIOUS
  <2> QED
    BY <1>1, <2>1, <2>2, <2>3 DEF Promise!Load, Promise!Collide
<1>3. CASE StartCalibration
  <2>1. UNCHANGED (Channels \subseteq firmware)
    BY <1>3 DEF StartCalibration, Channels, setup, dsp
  <2>2. state' = "CALIBRATING" /\ (early \/ state = "INIT")
    BY <1>3, <1>1 DEF StartCalibration, CalGoto, PhaseInv
  <2> QED
    BY <1>1, <2>1, <2>2 DEF Promise!Begin, Promise!Collide, Promise!States
<1>4. CASE EndCalibration
  <2>1. UNCHANGED (Channels \subseteq firmware)
    BY <1>4 DEF EndCalibration, Channels, setup, dsp
  <2>2. state' \in {"IDLE", "CALIBRATION_ERROR"} /\ (early \/ state = "CALIBRATING")
    BY <1>4, <1>1 DEF EndCalibration, CalGoto, PhaseInv, Calibrating
  <2>3. state' = "IDLE" => Channels \subseteq firmware
    BY <1>4 DEF EndCalibration, CalGoto, FirmwareInv
  <2> QED
    BY <1>1, <2>1, <2>2, <2>3 DEF Promise!Succeed, Promise!Fail, Promise!Collide, Promise!States
<1>5. CASE \/ WakeForCalibration \/ CalibrationResult \/ SilenceFails \/ PlaySilence
           \/ EnableForCalibration \/ DisableForCalibration \/ DisabledForCalibration
           \/ WriteCalibration \/ AmpCalibFails
  <2>1. UNCHANGED <<state, is_stereo, firmware, early>>
    BY <1>5 DEF WakeForCalibration, CalibrationResult, SilenceFails, PlaySilence,
                EnableForCalibration, DisableForCalibration, DisabledForCalibration,
                WriteCalibration, AmpCalibFails, setup, dsp
  <2> QED
    BY <2>1, StutterProtection
<1> QED
  BY <1>2, <1>3, <1>4, <1>5 DEF Calibration

\* The audio HAL plays and rests, or is too early.
LEMMA OutputRefines ==
  ASSUME IInv, Request \/ Output
  PROVE  Promise!Next \/ UNCHANGED Promise!vars
<1> USE DEF IInv, Promise!Next
<1>1. early \in BOOLEAN /\ state \in Promise!States
  BY DEF TypeOK, Flags, Places, Promise!States
<1>2. CASE EnableCheck
  <2>1. UNCHANGED <<state, Channels \subseteq firmware>>
    BY <1>2 DEF EnableCheck, Channels, setup, dsp
  <2>2. early' = (early \/ state = "INIT")
    BY <1>2 DEF EnableCheck
  <2> QED
    BY <1>1, <2>1, <2>2 DEF Promise!Hurry, Promise!vars
<1>3. CASE EnablePlay \/ DisableIdle
  <2>1. UNCHANGED <<early, Channels \subseteq firmware>>
    BY <1>3 DEF EnablePlay, DisableIdle, Channels, setup, dsp
  <2>2. Playing /\ state' \in {"PLAYBACK", "IDLE"}
    BY <1>3 DEF EnablePlay, DisableIdle, HalGoto, Playing
  <2>3. state # "CALIBRATION_ERROR" /\ (early \/ state \in {"PLAYBACK", "IDLE"})
    BY <2>2 DEF ErrorInv, PhaseInv
  <2> QED
    BY <1>1, <2>1, <2>2, <2>3 DEF Promise!Play, Promise!Rest, Promise!Collide, Promise!vars,
                                  Promise!States
<1>4. CASE ~(EnableCheck \/ EnablePlay \/ DisableIdle)
  <2>1. UNCHANGED <<state, is_stereo, firmware, early>>
    BY <1>4 DEF Request, Output, EnableOutput, DisableOutput, Close, EnableLock, EnableWake,
                EnableCreate, EnableDone, DisableLock, DisableCheck, DisableDone,
                JoinDetector, JoinCalibration, DestroyMutex, setup, dsp
  <2> QED
    BY <2>1, StutterProtection
<1> QED
  BY <1>2, <1>3, <1>4

\* A detector only ends the process, and only after a playback.
LEMMA DetectRefines ==
  ASSUME IInv, NEW d \in Detectors, Detect(d)
  PROVE  Promise!Next \/ UNCHANGED Promise!vars
<1> USE DEF IInv, Promise!Next
<1>1. CASE ResetAndAbort(d) \/ LockDestroyed(d)
  <2>1. state' = "INIT" /\ early' = FALSE /\ (Channels \subseteq firmware)' \in BOOLEAN
    BY <1>1 DEF ResetAndAbort, LockDestroyed, Abort
  <2>2. early \/ state \in {"IDLE", "PLAYBACK"}
    BY <1>1 DEF ResetAndAbort, LockDestroyed, PhaseInv
  <2> QED
    BY <2>1, <2>2 DEF Promise!Reset
<1>2. CASE DetectLock(d) \/ DetectWake(d) \/ DetectRest(d) \/ DetectDone(d)
  <2>1. UNCHANGED <<state, is_stereo, firmware, early>>
    BY <1>2 DEF DetectLock, DetectWake, DetectRest, DetectDone, setup, dsp
  <2> QED
    BY <2>1, StutterProtection
<1> QED
  BY <1>1, <1>2 DEF Detect

\* The amplifier HAL implements SpeakerProtection: calibration, load, playback and reset
\* come in its order, for any devices and detectors, unless an output came too early.
THEOREM ProtectionRefinement == Spec => ImplementsProtection
<1>1. Init => Promise!Init
  <2> SUFFICES ASSUME Init PROVE Promise!Init
    OBVIOUS
  <2>1. ~(Channels \subseteq firmware)
    BY DEF Init, Channels
  <2> QED
    BY <2>1 DEF Init, Promise!Init
<1>2. IInv /\ [Next]_vars => [Promise!Next]_(Promise!vars)
  <2> SUFFICES ASSUME IInv, [Next]_vars PROVE Promise!Next \/ UNCHANGED Promise!vars
    OBVIOUS
  <2>1. CASE Next
    BY <2>1, CalibrationRefines, OutputRefines, DetectRefines DEF Next
  <2>2. CASE UNCHANGED vars
    BY <2>2, StutterProtection DEF vars, setup, dsp
  <2> QED
    BY <2>1, <2>2
<1> QED
  BY <1>1, <1>2, Invariance, PTL DEF Spec, ImplementsProtection, Promise!Spec

\* What SpeakerProtection promises: an amplifier that is ready to play, or plays, runs the
\* protection firmware, unless an output came too early.
THEOREM PromiseKept == Spec => []Promise!Kept
<1>1. Promise!Init => Promise!Kept
  BY DEF Promise!Init, Promise!Kept
<1>2. Promise!Kept /\ [Promise!Next]_(Promise!vars) => Promise!Kept'
  <2> SUFFICES ASSUME Promise!Kept, [Promise!Next]_(Promise!vars) PROVE Promise!Kept'
    OBVIOUS
  <2> USE DEF Promise!Kept
  <2>1. CASE Promise!Hurry \/ Promise!Load \/ Promise!Begin
    BY <2>1 DEF Promise!Hurry, Promise!Load, Promise!Begin
  <2>2. CASE Promise!Succeed \/ Promise!Fail \/ Promise!Play \/ Promise!Rest
    BY <2>2 DEF Promise!Succeed, Promise!Fail, Promise!Play, Promise!Rest
  <2>3. CASE Promise!Reset \/ Promise!Collide
    BY <2>3 DEF Promise!Reset, Promise!Collide
  <2>4. CASE UNCHANGED Promise!vars
    BY <2>4 DEF Promise!vars
  <2> QED
    BY <2>1, <2>2, <2>3, <2>4 DEF Promise!Next
<1> QED
  BY <1>1, <1>2, ProtectionRefinement, PTL DEF ImplementsProtection, Promise!Spec
===============================================================================
