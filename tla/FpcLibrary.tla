------------------------------ MODULE FpcLibrary ------------------------------
(***************************************************************************)
(* The device behind the FPC HAL: who holds which resource when.            *)
(* fpc_imp_loire_tone.c and fpc_imp_yoshino_nile_tama.c implement fpc_imp.h *)
(* over common.c (the driver) and QSEEComFunc.c (the TZ app); fpc_init runs *)
(* in the HAL's constructor and again when a session restarts the TZ app.   *)
(*                                                                          *)
(* Two threads send commands: the worker, and the binder thread while the   *)
(* worker is paused, or, in two calls, at any time.  What module FpcHal     *)
(* takes as one step (CaptureImage, Reinitialize) is spelled out here; what *)
(* the commands are about is left to that module.                           *)
(***************************************************************************)
EXTENDS Integers

CONSTANTS Builds,        \* the variants of the library that are looked at
          MaxTries,      \* attempts at an image before ACQUIRED_INSUFFICIENT
          MaxRestarts,   \* bound: restarts of the TZ app in one process
          MaxFailures    \* bound: refused commands, counted on Loire, in one process

ASSUME FpcLibraryAssumption ==
  /\ Builds \subseteq {"loire", "yoshino", "nile", "tama"}
  /\ MaxTries \in Nat /\ MaxRestarts \in Nat /\ MaxFailures \in Nat

VARIABLES
  build,      \* which of the builds this is
  wpc,        \* worker thread; in start-up, the main thread
  bpc, bop,   \* binder thread: position, call
  request,    \* what the worker is to do next, "none" if nothing (the event)
  kind,       \* AuthenticateAsync or EnrollAsync
  status,     \* of the last fpc_capture_image: good, other, error
  tries,      \* in fpc_capture_image
  fpc,        \* the HAL's pointer is not null
  held,       \* what fpc_init acquired and nobody released
  dmabufs,    \* DMA buffers of the process
  sending,    \* per thread: between filling the TZ app's command area and reading it,
              \* with the command in fpc_data's buffer or in one of its own
  power,      \* of the sensor; survives the process
  refused,    \* history: the driver refused the last power-off
  restarted,  \* the TZ app was restarted in this session, to which fpc_init returns
  restarts,   \* history: how often in this process
  failures    \* history: on Loire, commands with an own buffer that were refused

place == <<wpc, kind, status, tries>>
binderVars == <<bpc, bop, request>>
device == <<fpc, held>>
commands == <<dmabufs, sending, failures>>
powerVars == <<power, refused>>
restartVars == <<restarted, restarts>>
vars == <<build, place, binderVars, device, commands, powerVars, restartVars>>

Threads == {"worker", "binder"}
Resources == {"qsee", "keymaster", "app", "dhandle"}

\* Where the worker sends a command in fpc_data's own buffer (send_normal_command).
Normal == {"initCmd", "initSleep", "enrolStart", "lost", "wake", "down", "image",
           "sleep", "closeSleep", "loadEmpty"}

\* Where it allocates a buffer for the command (send_custom_cmd, send_buffer_command).
Custom == {"keydata", "naviEnter", "naviPoll", "naviExit", "step", "update", "store",
           "token", "enrolEnd", "load", "gid", "gidNew", "storeNew", "loadNew"}

\* fpc_init.
Starting == {"open", "powerOn", "keymaster", "app", "dhandle", "initCmd", "cert",
             "keydata", "initSleep", "initOff"}

WorkerPCs == Normal \cup Custom \cup Starting \cup
  {"idle", "pause", "naviWait", "naviOn", "naviEvent", "naviOff", "start", "lostEvent",
   "downEvent", "captured", "closeApp", "closeOff", "off", "dead"}

TypeOK ==
  /\ build \in Builds /\ wpc \in WorkerPCs
  /\ bpc \in {"out", "peek", "stale", "pausing", "command", "entering"}
  /\ bop \in {"none", "authenticate", "enroll", "prints", "group"}
  /\ request \in {"none", "Idle", "Pause", "Authenticate", "Enroll"}
  /\ kind \in {"Authenticate", "Enroll"} /\ status \in {"good", "other", "error"}
  /\ tries \in 0 .. MaxTries
  /\ fpc \in BOOLEAN /\ held \subseteq Resources
  /\ dmabufs \in Int /\ sending \in [Threads -> {"no", "handle", "buffer"}]
  /\ power \in {"on", "off"} /\ refused \in BOOLEAN
  /\ restarted \in BOOLEAN /\ restarts \in 0 .. MaxRestarts
  /\ failures \in 0 .. MaxFailures

NoneSends == [t \in Threads |-> "no"]

Init ==
  /\ build \in Builds
  /\ wpc = "open" /\ bpc = "out" /\ bop = "none" /\ request = "none"
  /\ kind = "Authenticate" /\ status = "other" /\ tries = 0
  /\ fpc = FALSE /\ held = {} /\ dmabufs = 0 /\ sending = NoneSends
  /\ power = "off" /\ refused = FALSE
  /\ restarted = FALSE /\ restarts = 0 /\ failures = 0

Loire == build = "loire"
Yoshino == build = "yoshino"
Tama == build = "tama"

\* LOG_ALWAYS_FATAL or a null dereference: the kernel takes back all but the power.
Die ==
  /\ wpc' = "dead" /\ bpc' = "out" /\ bop' = "none" /\ request' = "none"
  /\ kind' = "Authenticate" /\ status' = "other" /\ tries' = 0
  /\ fpc' = FALSE /\ held' = {} /\ dmabufs' = 0 /\ sending' = NoneSends
  /\ restarted' = FALSE /\ restarts' = 0 /\ failures' = 0
  /\ UNCHANGED <<build, powerVars>>

\* init starts the service again.
Respawn ==
  /\ wpc = "dead" /\ wpc' = "open"
  /\ UNCHANGED <<build, kind, status, tries, binderVars, device, commands, powerVars,
                 restartVars>>

-------------------------------------------------------------------------------
(* Commands.                                                                  *)

\* "unsent": no buffer for it; "failed": QSEECom or the TZ app refused the command;
\* otherwise the sign of the answer.  "three" is FPC_CAPTURE_IMAGE's: try again.
Answers == {"unsent", "failed", "negative", "zero", "positive", "three"}
Bad == {"unsent", "failed", "negative"}

\* send_modified_command_to_tz fills the command area of the TZ app, one for all
\* threads, and waits.
BeginCommand(t, own) ==
  /\ sending[t] = "no"
  /\ sending' = [sending EXCEPT ![t] = IF own THEN "buffer" ELSE "handle"]
  /\ dmabufs' = IF own THEN dmabufs + 1 ELSE dmabufs
  /\ UNCHANGED failures

\* Mutant: the buffer of a refused command is lost on every build.
EndCommandKeeps(t, answer) ==
  /\ sending[t] # "no" /\ sending' = [sending EXCEPT ![t] = "no"]
  /\ dmabufs' = IF sending[t] = "buffer" /\ answer # "failed" THEN dmabufs - 1 ELSE dmabufs
  /\ UNCHANGED failures

\* Whatever the answer, the buffer is freed.
EndCommandModern(t, answer) ==
  /\ sending[t] # "no" /\ sending' = [sending EXCEPT ![t] = "no"]
  /\ dmabufs' = IF sending[t] = "buffer" THEN dmabufs - 1 ELSE dmabufs
  /\ UNCHANGED failures

\* Loire keeps the buffer of a refused command.
EndCommandLoire(t, answer) ==
  /\ sending[t] # "no" /\ sending' = [sending EXCEPT ![t] = "no"]
  /\ IF sending[t] = "buffer" /\ answer = "failed"
     THEN failures < MaxFailures /\ failures' = failures + 1 /\ UNCHANGED dmabufs
     ELSE /\ dmabufs' = IF sending[t] = "buffer" THEN dmabufs - 1 ELSE dmabufs
          /\ UNCHANGED failures

\* Thread t gets its answer, or there was no buffer to begin with.
EndCommand(t, own, answer) ==
  IF answer = "unsent"
  THEN own /\ sending[t] = "no" /\ UNCHANGED commands
  ELSE IF Loire THEN EndCommandLoire(t, answer) ELSE EndCommandModern(t, answer)

\* Polling for gestures looks for an event before each command.
Send ==
  /\ wpc \in Normal \cup Custom
  /\ wpc = "naviPoll" => request = "none"
  /\ BeginCommand("worker", wpc \in Custom)
  /\ UNCHANGED <<build, place, binderVars, device, powerVars, restartVars>>

\* The worker at from has its answer.
Answered(from, answer) == wpc = from /\ EndCommand("worker", from \in Custom, answer)

\* What a step of the worker leaves alone that only moves it on.
Quiet == UNCHANGED <<build, kind, binderVars, device, powerVars, restartVars>>

\* A command that decides only where to go on.
Command(from, answers, to) ==
  /\ \E a \in answers : Answered(from, a)
  /\ wpc' = to /\ UNCHANGED <<status, tries>> /\ Quiet

\* A step of the worker without a command.
Goto(from, to) ==
  /\ wpc = from /\ wpc' = to
  /\ UNCHANGED <<status, tries, commands>> /\ Quiet

-------------------------------------------------------------------------------
(* fpc_init.  When it returns a negative value the HAL aborts, so that what    *)
(* the labels at its end release makes no difference.                          *)

InitStep(from, to) ==
  /\ wpc = from /\ wpc' = to
  /\ UNCHANGED <<build, kind, status, tries, binderVars, restartVars>>

\* Every step of it may fail so, but for the sensor's sleep, which is not looked at,
\* and on the modern builds switching off.
InitFails ==
  /\ wpc \in Starting \ {"initSleep"}
  /\ wpc = "initOff" => Loire
  /\ Die

\* qsee_open_handle.  Where the kernel has ION, it returns 0 after most failures and
\* leaves its caller without a handle.
OpenHandle ==
  /\ InitStep("open", "powerOn")
  /\ held' \in {{"qsee"}, {}}
  /\ UNCHANGED <<fpc, commands, powerVars>>

InitPowerOn ==
  /\ InitStep("powerOn", "keymaster")
  /\ power' = "on" /\ UNCHANGED <<refused, device, commands>>

\* qsee_load_trustlet: of the keymaster's app and of the sensor's.
LoadTrustlet(from, app, to) ==
  /\ InitStep(from, to)
  /\ "qsee" \in held /\ held' = held \cup {app}
  /\ UNCHANGED <<fpc, commands, powerVars>>

LoadTrustlets ==
  \/ LoadTrustlet("keymaster", "keymaster", "app")
  \/ LoadTrustlet("app", "app", IF Loire THEN "dhandle" ELSE "cert")

\* dmabuf_alloc for the commands without a buffer of their own.
AllocHandle ==
  /\ InitStep("dhandle", IF Loire THEN "initCmd" ELSE "keydata")
  /\ held' = held \cup {"dhandle"} /\ dmabufs' = dmabufs + 1
  /\ UNCHANGED <<fpc, sending, failures, powerVars>>

\* The certificate from the keymaster's app, which is no longer needed then.
Certificate ==
  /\ InitStep("cert", IF Loire THEN "keydata" ELSE "dhandle")
  /\ held' = held \ {"keymaster"}
  /\ UNCHANGED <<fpc, commands, powerVars>>

\* Mutant: the session goes on after the restart on every build.
StartedGoesOn ==
  /\ \E to \in IF ~restarted THEN {"idle"} ELSE {"load", "loadEmpty"} :
       InitStep("initOff", to)
  /\ power' = "off" /\ refused' = FALSE /\ fpc' = TRUE
  /\ UNCHANGED <<held, commands>>

\* fpc_init succeeds: into the worker's loop, or back to the session.  On Yoshino
\* that one goes on with its group loaded again; elsewhere it ends.
Started ==
  /\ \E to \in IF ~restarted THEN {"idle"}
               ELSE IF Yoshino THEN {"load", "loadEmpty"} ELSE {"off"} :
       InitStep("initOff", to)
  /\ power' = "off" /\ refused' = FALSE /\ fpc' = TRUE
  /\ UNCHANGED <<held, commands>>

\* Neither a device nor a negative value: at start-up the HAL goes on without, after
\* a restart the next use of the device ends it.
Deviceless(from, buffers) ==
  IF restarted THEN wpc = from /\ Die
  ELSE /\ InitStep(from, "idle")
       /\ held' = {"app"} /\ dmabufs' = dmabufs - buffers
       /\ sending' = NoneSends /\ UNCHANGED <<fpc, failures, power>>

\* A positive answer to FPC_SET_KEY_DATA is passed on.
KeyData ==
  /\ ~Loire
  /\ \/ Command("keydata", {"zero"}, "initSleep")
     \/ sending["worker"] = "buffer" /\ Deviceless("keydata", 2) /\ UNCHANGED refused

InitSleep == Command("initSleep", Answers, "initOff")

\* When switching off fails, the result is still the 0 of FPC_SET_KEY_DATA.
InitOff ==
  \/ Started
  \/ ~Loire /\ Deviceless("initOff", 1) /\ refused' = IF restarted THEN refused ELSE TRUE

\* Loire initialises the TZ app and looks at the answer.
LoireInit ==
  /\ Loire
  /\ \/ Command("initCmd", {"zero"}, "cert")
     \/ Command("keydata", {"zero"}, "initOff")
     \/ ~restarted /\ Command("keydata", {"positive"}, "idle")
     \/ restarted /\ wpc = "keydata" /\ sending["worker"] = "buffer" /\ Die

FpcInit ==
  InitFails \/ OpenHandle \/ InitPowerOn \/ LoadTrustlets \/ AllocHandle \/ Certificate
    \/ KeyData \/ InitSleep \/ InitOff \/ LoireInit

-------------------------------------------------------------------------------
(* The worker between sessions.                                               *)

\* consumeState.
Take ==
  /\ wpc \in {"idle", "pause"} /\ request # "none"
  /\ request' = "none"
  /\ IF request \in {"Authenticate", "Enroll"}
     THEN wpc' = "start" /\ kind' = request
     ELSE wpc' = (IF request = "Pause" THEN "pause" ELSE "idle") /\ UNCHANGED kind
  /\ UNCHANGED <<build, status, tries, bpc, bop, device, commands, powerVars, restartVars>>

PowerOn(from, to) ==
  /\ wpc = from /\ wpc' = to
  /\ power' = "on"
  /\ UNCHANGED <<build, kind, status, tries, binderVars, device, commands, refused,
                 restartVars>>

\* fpc_set_power(FPC_PWROFF), which the driver may refuse.
PowerOff(from, to) ==
  /\ wpc = from /\ wpc' = to
  /\ \/ power' = "off" /\ refused' = FALSE
     \/ refused' = TRUE /\ UNCHANGED power

\* fpc_poll_event at from: there is a finger, or an event.
Finger(from, to) == Goto(from, to) /\ request = "none"
Event(from) == wpc = from /\ request # "none" /\ UNCHANGED commands

\* fpc_navi_poll, until there is an event or the TZ app fails.
NaviPoll ==
  \/ Goto("naviPoll", "naviExit") /\ request # "none" /\ sending["worker"] = "no"
  \/ Command("naviPoll", {"zero"}, "naviPoll")
  \/ Command("naviPoll", {"zero"}, "naviEvent")
  \/ Command("naviPoll", Answers \ {"zero"}, "naviExit")
  \/ Goto("naviEvent", "naviExit") /\ request # "none"
  \/ Finger("naviEvent", "naviPoll")

\* IdleAsync on Tama; on the other builds it only waits for an event.
Navigate ==
  /\ Tama
  /\ \/ Goto("idle", "naviWait") /\ request = "none"
     \/ Goto("naviWait", IF request = "none" THEN "naviOn" ELSE "idle")
     \/ fpc /\ (PowerOn("naviOn", "naviEnter") \/ Goto("naviOn", "idle"))
     \/ ~fpc /\ wpc = "naviOn" /\ Die
     \/ Command("naviEnter", {"zero"}, "naviPoll")
     \/ Command("naviEnter", Answers \ {"zero"}, "naviOff")
     \/ NaviPoll
     \/ Command("naviExit", Answers, "naviOff")
     \/ /\ PowerOff("naviOff", "idle")
        /\ UNCHANGED <<build, kind, status, tries, binderVars, device, commands,
                       restartVars>>

-------------------------------------------------------------------------------
(* AuthenticateAsync and EnrollAsync.                                         *)

\* Without a client, or when the driver refuses the power, the session is over.  There
\* is a device: without one no call gets as far as a session.
StartSession ==
  \/ Goto("start", "idle")
  \/ PowerOn("start", IF kind = "Enroll" THEN "enrolStart" ELSE "lost")

EnrollStart == Command("enrolStart", Answers, "lost")

\* fpc_capture_image returns r.
Returns(r) ==
  /\ status' = r /\ wpc' = IF r = "error" THEN "off" ELSE "captured"
  /\ tries' = 0 /\ Quiet

\* It has r; on Tama the sensor sleeps before it returns that.
Has(r) ==
  IF Tama THEN status' = r /\ wpc' = "sleep" /\ tries' = 0 /\ Quiet ELSE Returns(r)

Result(answer) ==
  CASE answer = "zero" -> "good" [] answer \in Bad -> "error" [] OTHER -> "other"

Positive == {"positive", "three"}

\* fpc_wait_finger_lost, and fpc_sensor_wake if the finger is.  On Tama the TZ app
\* only starts to wait.
WaitFingerLost ==
  \/ \E a \in Bad : Answered("lost", a) /\ Returns("error")
  \/ Tama /\ Command("lost", {"zero"}, "lostEvent")
  \/ Tama /\ Command("lost", Positive, "wake")
  \/ Finger("lostEvent", "wake")
  \/ Event("lostEvent") /\ Returns("other")
  \/ ~Tama /\ Answered("lost", "zero") /\ Returns("other")
  \/ ~Tama /\ Command("lost", Positive, "down")
  \/ \E a \in Bad : Answered("wake", a) /\ Returns("error")
  \/ Command("wake", Answers \ Bad, "down")

\* fpc_wait_finger_down.
WaitFingerDown ==
  \/ \E a \in Bad : Answered("down", a) /\ Returns("error")
  \/ Command("down", Positive, "image")
  \/ Command("down", {"zero"}, "downEvent")
  \/ Finger("downEvent", "image")

\* Mutant: waiting for a finger does not look at the event.
CaptureImageDeaf ==
  /\ ~Loire
  /\ \/ WaitFingerLost \/ WaitFingerDown
     \/ \E a \in Answers \ {"three"} : Answered("image", a) /\ Has(Result(a))
     \/ /\ Answered("image", "three")
        /\ IF tries = MaxTries THEN Has("other")
           ELSE tries' = tries + 1 /\ wpc' = "down" /\ UNCHANGED status /\ Quiet
     \/ \E a \in Answers : Answered("sleep", a) /\ Returns(status)

\* fpc_capture_image: a few attempts per finger.
CaptureImage ==
  /\ ~Loire
  /\ \/ WaitFingerLost \/ WaitFingerDown
     \/ Event("downEvent") /\ Has("other")
     \/ \E a \in Answers \ {"three"} : Answered("image", a) /\ Has(Result(a))
     \/ /\ Answered("image", "three")
        /\ IF tries = MaxTries THEN Has("other")
           ELSE tries' = tries + 1 /\ wpc' = "down" /\ UNCHANGED status /\ Quiet
     \/ \E a \in Answers : Answered("sleep", a) /\ Returns(status)

\* On Loire there is one attempt.
LoireCaptureImage ==
  /\ Loire
  /\ \/ WaitFingerLost \/ WaitFingerDown
     \/ Event("downEvent") /\ Returns("other")
     \/ \E a \in Answers : Answered("image", a) /\ Returns(Result(a))

\* fpc_poll_event fails.
PollFails ==
  \/ Goto("naviEvent", "naviExit")
  \/ wpc \in {"lostEvent", "downEvent"} /\ UNCHANGED commands /\ Returns("error")

\* The session sees what fpc_capture_image returned, or that it has to end.
Captured ==
  /\ wpc = "captured"
  /\ wpc' = IF request # "none" THEN "off" ELSE IF status = "good" THEN "step" ELSE "lost"
  /\ UNCHANGED <<status, tries, commands>> /\ Quiet

\* fpc_auth_step.  A failure other than -EAGAIN, which the TZ app has to return for
\* that, is taken for a sign to restart it.
AuthStep ==
  /\ kind = "Authenticate"
  /\ \/ Command("step", {"negative"}, "lost")
     \/ Command("step", Bad, IF Loire THEN "closeApp" ELSE "closeSleep")
        /\ restarts < MaxRestarts
     \/ Command("step", Answers \ Bad, IF Loire THEN "store" ELSE "update")

\* fpc_update_template, fpc_store_user_db and fpc_get_hw_auth_obj, whose results the
\* session does not depend on.
Matched ==
  /\ kind = "Authenticate"
  /\ \/ Command("update", Positive, "store")
     \/ \E to \in {"token", "off", "lost"} :
          Command("update", Answers \ Positive, to) \/ Command("store", Answers, to)
     \/ Command("token", Answers, "off")

\* fpc_enroll_step and fpc_enroll_end.
EnrollStep ==
  /\ kind = "Enroll"
  /\ \/ Command("step", Bad, "off")
     \/ Command("step", Positive, "lost")
     \/ Command("step", {"zero"}, "enrolEnd")
     \/ Command("enrolEnd", {"zero"}, "store")
     \/ Command("enrolEnd", Answers \ {"zero"}, "off")
     \/ Command("store", Answers, "off")

\* Mutant: after an error the session returns at once.
EndSessionAtOnce ==
  /\ wpc = "off" /\ wpc' = "idle"
  /\ IF status = "error" THEN UNCHANGED powerVars ELSE power' = "off" /\ refused' = FALSE
  /\ restarted' = FALSE
  /\ UNCHANGED <<build, kind, status, tries, binderVars, device, commands, restarts>>

\* The end of a session.
EndSession ==
  /\ PowerOff("off", "idle")
  /\ restarted' = FALSE
  /\ UNCHANGED <<build, kind, status, tries, binderVars, device, commands, restarts>>

-------------------------------------------------------------------------------
(* The restart of the TZ app in a session.                                    *)

\* shutdown_app.
CloseApp ==
  /\ wpc = "closeApp" /\ wpc' = "closeOff"
  /\ held' = held \ {"app"}
  /\ UNCHANGED <<build, kind, status, tries, fpc, binderVars, commands, powerVars,
                 restartVars>>

\* The rest of fpc_close.  The buffer of fpc_data stays; a command of the other
\* thread is left without fpc_data and without the library it runs in.
CloseOff ==
  \/ /\ wpc = "closeOff" /\ wpc' = "open"
     /\ power' = "off" /\ refused' = FALSE
     /\ fpc' = FALSE /\ held' = {}
     /\ bpc' = IF bpc = "peek" THEN "stale" ELSE bpc
     /\ restarted' = TRUE /\ restarts' = restarts + 1
     /\ UNCHANGED <<build, kind, status, tries, bop, request, commands>>
  \/ wpc = "closeOff" /\ Die

Close ==
  \/ Command("closeSleep", Answers, "closeApp")
  \/ CloseApp
  \/ CloseOff

\* __setActiveGroup, on Yoshino after the restart.  Its result is ignored.
ReloadGroup ==
  \/ Command("load", {"zero"}, "gid")
  \/ Command("load", Answers \ {"zero"}, "lost")
  \/ Command("gid", Answers, "lost")
  \/ Command("loadEmpty", {"zero"}, "gidNew")
  \/ Command("loadEmpty", Answers \ {"zero"}, "lost")
  \/ Command("gidNew", Answers, "storeNew")
  \/ Command("storeNew", {"zero"}, "loadNew")
  \/ Command("storeNew", Answers \ {"zero"}, "lost")
  \/ Command("loadNew", Answers, "lost")

-------------------------------------------------------------------------------
(* The binder thread.                                                         *)

\* The service is registered once the HAL is constructed.
Serving == wpc # "dead" /\ (restarted \/ wpc \notin Starting)

BinderSends(own) ==
  /\ BeginCommand("binder", own)
  /\ UNCHANGED <<build, place, request, device, powerVars, restartVars>>

\* preEnroll and getAuthenticatorId do not look where the worker is.
Peek ==
  /\ Serving /\ bpc = "out"
  /\ \/ fpc /\ bpc' = "peek" /\ UNCHANGED bop /\ BinderSends(TRUE)
     \/ ~fpc /\ Die

\* Their answer.  Without its fpc_data the command works on freed memory, if the
\* process survives that.
PeekEnds ==
  \/ /\ bpc \in {"peek", "stale"} /\ bpc' = "out"
     /\ \E a \in Answers \ {"unsent"} : EndCommand("binder", TRUE, a)
     /\ UNCHANGED <<build, place, bop, request, device, powerVars, restartVars>>
  \/ bpc = "stale" /\ Die

\* authenticate, enroll, remove and enumerate, setActiveGroup: Pause() first.
Call(op) ==
  /\ Serving /\ bpc = "out"
  /\ bpc' = "pausing" /\ bop' = op /\ request' = "Pause"
  /\ UNCHANGED <<build, place, device, commands, powerVars, restartVars>>

BinderStep == UNCHANGED <<build, place, device, commands, powerVars, restartVars>>

\* Mutant: the commands do not wait for the pause.
AwaitPauseNot ==
  /\ bpc = "pausing"
  /\ bpc' = "command" /\ UNCHANGED <<bop, request>> /\ BinderStep

\* A worker that an earlier call left paused still counts.
AwaitPause ==
  /\ bpc = "pausing" /\ wpc = "pause"
  /\ bpc' = "command" /\ UNCHANGED <<bop, request>> /\ BinderStep

\* One command, or more; setActiveGroup may start with FPC_LOAD_EMPTY_DB.  Without a
\* device this is the end, but for commands that look for one.
PausedSend ==
  /\ bpc = "command"
  /\ \/ /\ fpc /\ UNCHANGED <<bpc, bop>>
        /\ \E own \in IF bop = "group" THEN BOOLEAN ELSE {TRUE} : BinderSends(own)
     \/ ~fpc /\ Die

PausedAnswer ==
  /\ bpc = "command" /\ UNCHANGED binderVars
  /\ \E a \in Answers \ {"unsent"} : EndCommand("binder", TRUE, a)
  /\ UNCHANGED <<build, place, device, powerVars, restartVars>>

\* The call is over: Resume(), after authenticate and enroll a session or, when the
\* TZ app refused, neither.
PausedEnds ==
  /\ bpc = "command" /\ sending["binder"] = "no"
  /\ ~fpc => ~Loire /\ bop \in {"enroll", "group"}
  /\ \/ /\ bop \in {"prints", "group"}
        /\ bpc' = "out" /\ bop' = "none" /\ request' = "Idle"
     \/ /\ bop \in {"authenticate", "enroll"}
        /\ bpc' = "out" /\ bop' = "none" /\ UNCHANGED request
     \/ /\ bop \in {"authenticate", "enroll"} /\ fpc
        /\ bpc' = "entering" /\ UNCHANGED bop
        /\ request' = IF bop = "enroll" THEN "Enroll" ELSE "Authenticate"
  /\ BinderStep

AwaitSession ==
  /\ bpc = "entering" /\ request = "none" /\ wpc # "idle"
  /\ bpc' = "out" /\ bop' = "none" /\ UNCHANGED request /\ BinderStep

\* waitForState aborts after three seconds.
TimeOut ==
  \/ bpc = "pausing" /\ wpc # "pause" /\ Die
  \/ bpc = "entering" /\ (request # "none" \/ wpc = "idle") /\ Die

Cancel ==
  /\ Serving /\ bpc = "out"
  /\ request' = "Idle" /\ UNCHANGED <<bpc, bop>> /\ BinderStep

-------------------------------------------------------------------------------

Worker ==
  Send \/ FpcInit \/ Take \/ Navigate \/ StartSession \/ EnrollStart \/ CaptureImage
    \/ LoireCaptureImage \/ Captured \/ AuthStep \/ Matched \/ EnrollStep \/ EndSession
    \/ Close \/ ReloadGroup

Binder == PeekEnds \/ AwaitPause \/ PausedSend \/ PausedAnswer \/ PausedEnds \/ AwaitSession

Client == Peek \/ Cancel \/ \E op \in {"authenticate", "enroll", "prints", "group"} : Call(op)

Next == Worker \/ Binder \/ Client \/ PollFails \/ TimeOut \/ Respawn

\* Waiting for a finger, which need not come.
AwaitsFinger == wpc \in {"lostEvent", "downEvent", "naviEvent"} /\ request = "none"

\* The threads run and the TZ app answers.  Nothing is assumed of clients, of fingers,
\* of polls that fail and of the time limits.
Fairness == WF_vars(~AwaitsFinger /\ Worker) /\ WF_vars(Binder)

Spec == Init /\ [][Next]_vars /\ Fairness

-------------------------------------------------------------------------------
(* Properties.                                                                *)

Sends(t) == sending[t] # "no"

\* Commands (send_modified_command_to_tz) go to an app that is loaded, through a
\* library that is open, from a buffer that is allocated, and no two are in the app's
\* only command area at a time, unless the binder's is one of preEnroll and
\* getAuthenticatorId, which do not pause the worker.
CommandsOwnTheDevice ==
  /\ Sends("worker") => {"qsee", "app", "dhandle"} \subseteq held
  /\ bpc = "command" /\ Sends("binder") => {"qsee", "app", "dhandle"} \subseteq held
  /\ Sends("worker") /\ Sends("binder") => bpc \in {"peek", "stale"}

Sensing == {"initSleep", "naviEnter", "naviPoll", "naviExit", "enrolStart", "lost", "wake",
            "down", "image", "sleep", "step", "closeSleep"}

\* The sensor has power while the TZ app uses it, except in the rest of a session on
\* Yoshino in which the TZ app was restarted: fpc_init leaves the power off.
PoweredWhileSensing ==
  Sends("worker") /\ wpc \in Sensing => power = "on" \/ (Yoshino /\ restarted)

\* Between sessions, and when another thread was let to the TZ app, the sensor has no
\* power, unless the driver refused to switch it off or there is no device.
UnpoweredAtRest ==
  wpc \in {"idle", "pause", "naviWait"} /\ fpc => power = "off" \/ refused

\* Every DMA buffer is either in use or lost where the code is known to lose it: that
\* of fpc_data at a restart, and on Loire that of a refused command.
BuffersReturned ==
  LET Use(t) == IF sending[t] = "buffer" THEN 1 ELSE 0 IN
  dmabufs = Use("worker") + Use("binder") + (IF "dhandle" \in held THEN 1 ELSE 0)
              + restarts + failures

\* A request to the worker is taken up, whatever the TZ app answers, also by a session
\* that waits for a finger that does not come.
RequestServed == request # "none" ~> request = "none"

===============================================================================
