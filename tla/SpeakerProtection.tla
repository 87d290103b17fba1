--------------------------- MODULE SpeakerProtection ---------------------------
(***************************************************************************)
(* What the amplifier HAL promises the speaker: it sounds only after a      *)
(* calibration that succeeded, with the protection firmware running, which  *)
(* stays as long as the process does.  A failed calibration silences the    *)
(* speaker for good.                                                        *)
(*                                                                          *)
(* All of it but the last is off once somebody was hasty: an output that is *)
(* enabled before the calibration has begun meets nothing that forbids it.  *)
(***************************************************************************)
VARIABLES
  state,       \* handle.state
  protected,   \* every amplifier runs the protection firmware
  hasty        \* an output was enabled in state INIT

vars == <<state, protected, hasty>>

States == {"INIT", "CALIBRATING", "CALIBRATION_ERROR", "IDLE", "PLAYBACK"}

Init == state = "INIT" /\ protected = FALSE /\ hasty = FALSE

Hurry == /\ state = "INIT" /\ hasty' = TRUE
         /\ UNCHANGED <<state, protected>>

\* Amplifiers are found and firmware is exchanged, until the calibration is over.
Load == /\ state \in {"INIT", "CALIBRATING"} /\ protected' \in BOOLEAN
        /\ UNCHANGED <<state, hasty>>

Begin == /\ state = "INIT" /\ state' = "CALIBRATING"
         /\ UNCHANGED <<protected, hasty>>

Succeed == /\ state = "CALIBRATING" /\ protected /\ state' = "IDLE"
           /\ UNCHANGED <<protected, hasty>>

Fail == /\ state = "CALIBRATING" /\ state' = "CALIBRATION_ERROR"
        /\ UNCHANGED <<protected, hasty>>

Play == /\ state = "IDLE" /\ state' = "PLAYBACK"
        /\ UNCHANGED <<protected, hasty>>

Rest == /\ state = "PLAYBACK" /\ state' = "IDLE"
        /\ UNCHANGED <<protected, hasty>>

\* The process gives up and another one begins; only one that has played does so.
Reset == /\ state \in {"IDLE", "PLAYBACK"} \/ hasty
         /\ state' = "INIT" /\ protected' \in BOOLEAN /\ hasty' = FALSE

\* Calibration and playback meet.
Collide == /\ hasty /\ state # "CALIBRATION_ERROR"
           /\ state' \in States /\ protected' \in BOOLEAN
           /\ UNCHANGED hasty

Next == Hurry \/ Load \/ Begin \/ Succeed \/ Fail \/ Play \/ Rest \/ Reset \/ Collide

Spec == Init /\ [][Next]_vars

\* What is ready to play is protected.
Kept == state \in {"IDLE", "PLAYBACK"} /\ ~hasty => protected
===============================================================================
