--------------------------- MODULE FpcLibrary_proofs ---------------------------
(***************************************************************************)
(* Proofs about FpcLibrary: what the worker holds at each place, whether    *)
(* the sensor has power there, and what becomes of the buffers, for every   *)
(* build and any number of attempts, restarts and refused commands; and     *)
(* that the worker is the mailbox that SynchronizedWorkerThread promises.   *)
(***************************************************************************)
EXTENDS FpcLibrary, TLAPS

Device == {"qsee", "app", "dhandle"}
Sessions == {"Authenticate", "Enroll"}

(* Places of the worker.                                                      *)

\* Without a session.
Resting == {"idle", "pause", "naviWait", "naviOn"}

Navigating == {"naviEnter", "naviPoll", "naviEvent", "naviExit", "naviOff"}

Reloading == {"load", "loadEmpty", "gid", "gidNew", "storeNew", "loadNew"}

\* In a session, with the sensor switched on.
AtSensor == {"enrolStart", "lost", "lostEvent", "wake", "down", "downEvent", "image",
             "sleep", "captured", "step", "update", "store", "token", "enrolEnd"}

\* On the way to a restart of the TZ app.
Closing == {"closeSleep", "closeApp"}

\* With a device to send commands to.
Active == Navigating \cup Reloading \cup AtSensor \cup Closing \cup {"off"}

\* With power.
Powered == (Navigating \ {"naviOff"}) \cup AtSensor \cup {"closeSleep"}
             \cup (Starting \ {"open", "powerOn"})

(* The inductive invariant.                                                   *)

HeldInv ==
  /\ wpc \in Starting \cup {"dead"} => ~fpc
  /\ wpc \in Active \cup {"start", "closeOff"} => fpc
  /\ fpc /\ wpc # "closeOff" => Device \subseteq held
  /\ wpc = "closeOff" => "dhandle" \in held
  /\ wpc \in {"dead", "open"} => held = {}
  /\ wpc \in {"powerOn", "keymaster"} => held \subseteq {"qsee"}
  /\ wpc = "app" => held = {"qsee", "keymaster"}
  /\ wpc \in {"dhandle", "cert"} => {"qsee", "app"} \subseteq held
  /\ wpc = "dhandle" => "dhandle" \notin held
  /\ wpc = "cert" => ("dhandle" \in held <=> Loire)
  /\ wpc \in {"initCmd", "keydata", "initSleep", "initOff"} => Device \subseteq held

\* The worker sends only where there is a command, the binder thread only in a call.
SendingInv ==
  /\ sending["worker"] # "no" =>
       /\ wpc \in Normal \cup Custom
       /\ sending["worker"] = "buffer" <=> wpc \in Custom
  /\ sending["binder"] # "no" => bpc \in {"peek", "stale", "command"}
  /\ sending["binder"] # "no" /\ bpc = "command" => fpc

\* A call that paused the worker keeps it paused, and a session is asked for only then.
PauseInv ==
  /\ bpc = "command" => wpc = "pause" /\ request \in {"none", "Pause"}
  /\ bpc = "pausing" => request = "Pause" \/ (request = "none" /\ wpc = "pause")
  /\ request \in Sessions => bpc = "entering" /\ wpc = "pause" /\ fpc

\* The TZ app is restarted in a session, and nobody calls before the first start.
RestartInv ==
  /\ restarted =>
       wpc \in Starting \cup Reloading \cup AtSensor \cup Closing \cup {"closeOff", "off"}
  /\ wpc \in Closing \cup {"closeOff"} => restarts < MaxRestarts
  /\ wpc \in Starting \cup {"dead"} /\ ~restarted => bpc = "out"

Lit == power = "on" \/ (Yoshino /\ restarted)

PowerInv ==
  /\ wpc \in Powered => Lit
  /\ wpc \in Reloading => Yoshino /\ restarted
  /\ wpc \in Resting \cup {"start"} /\ fpc => power = "off" \/ refused

Buffered(t) == IF sending[t] = "buffer" THEN 1 ELSE 0
Handle == IF "dhandle" \in held THEN 1 ELSE 0

BufferInv == dmabufs = Buffered("worker") + Buffered("binder") + Handle + restarts + failures

IInv == TypeOK /\ HeldInv /\ SendingInv /\ PauseInv /\ RestartInv /\ PowerInv /\ BufferInv

USE FpcLibraryAssumption DEF Threads

LEMMA Places ==
  /\ Active \subseteq WorkerPCs
  /\ Active \cap (Starting \cup Resting \cup {"start", "closeOff", "dead"}) = {}
  /\ Starting \cap (Resting \cup {"start", "closeOff", "dead"}) = {}
BY DEF Active, Navigating, Reloading, AtSensor, Closing, WorkerPCs, Normal, Custom, Starting, Resting

-------------------------------------------------------------------------------
(* Commands.                                                                  *)

\* The buffers in use but for those of the commands themselves, and what is lost.
Balance == dmabufs - Buffered("worker") - Buffered("binder") - failures

CommandsOK ==
  /\ dmabufs \in Int /\ failures \in 0 .. MaxFailures
  /\ sending \in [Threads -> {"no", "handle", "buffer"}]

\* Thread t ends a command or has none to end; the other one does not notice.
Ended(t) ==
  /\ CommandsOK' /\ Balance' = Balance
  /\ sending'[t] = "no"
  /\ \A u \in Threads \ {t} : sending'[u] = sending[u]

LEMMA EndEffect ==
  ASSUME TypeOK, NEW t \in Threads, NEW own, NEW a, EndCommand(t, own, a)
  PROVE  Ended(t)
<1>1. CASE a = "unsent"
  BY <1>1 DEF EndCommand, commands, Ended, CommandsOK, Balance, Buffered, TypeOK
<1>2. CASE a # "unsent"
  <2>1. EndCommandLoire(t, a) \/ EndCommandModern(t, a)
    BY <1>2 DEF EndCommand
  <2>2. CASE EndCommandModern(t, a)
    BY <2>2 DEF EndCommandModern, Ended, CommandsOK, Balance, Buffered, TypeOK
  <2>3. CASE EndCommandLoire(t, a)
    BY <2>3 DEF EndCommandLoire, Ended, CommandsOK, Balance, Buffered, TypeOK
  <2> QED
    BY <2>1, <2>2, <2>3
<1> QED
  BY <1>1, <1>2

LEMMA BeginEffect ==
  ASSUME TypeOK, NEW t \in Threads, NEW own \in BOOLEAN, BeginCommand(t, own)
  PROVE  /\ CommandsOK' /\ Balance' = Balance
         /\ sending'[t] = IF own THEN "buffer" ELSE "handle"
         /\ \A u \in Threads \ {t} : sending'[u] = sending[u]
BY DEF BeginCommand, CommandsOK, Balance, Buffered, TypeOK

LEMMA NoEffect ==
  ASSUME TypeOK, NEW t \in Threads, UNCHANGED commands, sending[t] = "no"
  PROVE  Ended(t)
BY DEF commands, Ended, CommandsOK, Balance, Buffered, TypeOK

\* Where the worker has no command it does not send.
LEMMA NotSending ==
  ASSUME SendingInv, wpc \notin Normal \cup Custom
  PROVE  sending["worker"] = "no"
BY DEF SendingInv

LEMMA BufferStep ==
  ASSUME TypeOK, BufferInv, CommandsOK', Balance' = Balance,
         UNCHANGED <<held, restarts>>
  PROVE  BufferInv'
<1>1. /\ Buffered("worker") \in Int /\ Buffered("binder") \in Int /\ Handle \in Int
      /\ Buffered("worker")' \in Int /\ Buffered("binder")' \in Int
  BY DEF Buffered, Handle
<1>2. Handle' = Handle
  BY DEF Handle
<1>3. /\ dmabufs \in Int /\ failures \in Int /\ restarts \in Int
      /\ dmabufs' \in Int /\ failures' \in Int
  BY DEF CommandsOK, TypeOK
<1> QED
  BY <1>1, <1>2, <1>3 DEF BufferInv, Balance

-------------------------------------------------------------------------------
(* The worker moves from one active place to another.                         *)

LEMMA ActiveMove ==
  ASSUME IInv, wpc \in Active, wpc' \in Active, Quiet, Ended("worker"),
         status' \in {"good", "other", "error"}, tries' \in 0 .. MaxTries,
         wpc' \in Navigating => wpc \in Navigating,
         wpc' \in Reloading => wpc \in Reloading,
         wpc' \in Powered => wpc \in Powered \cup Reloading,
         wpc' \in Closing => wpc \in Closing \/ restarts < MaxRestarts
  PROVE  IInv'
<1> USE DEF Quiet, binderVars, device, powerVars, restartVars
<1>1. TypeOK'
  BY Places DEF IInv, TypeOK, Ended, CommandsOK
<1>2. HeldInv'
  <2>1. fpc /\ Device \subseteq held
    BY Places DEF IInv, HeldInv
  <2>2. wpc' \notin Starting \cup {"dead", "closeOff"}
    BY Places
  <2> QED
    BY <2>1, <2>2 DEF HeldInv, Starting
<1>3. SendingInv'
  BY DEF IInv, SendingInv, Ended
<1>4. PauseInv'
  BY Places DEF IInv, PauseInv, Resting
<1>5. RestartInv'
  BY Places DEF IInv, RestartInv, Active, Navigating, Reloading, AtSensor, Closing, Starting
<1>6. PowerInv'
  <2>1. (Lit /\ (wpc \in Reloading => Yoshino /\ restarted)) \/ wpc \notin Powered \cup Reloading
    BY DEF IInv, PowerInv, Lit
  <2>2. wpc' \notin Resting \cup {"start"}
    BY Places
  <2> QED
    BY <2>1, <2>2 DEF IInv, PowerInv, Lit, Yoshino
<1>7. BufferInv'
  BY BufferStep DEF IInv, Ended
<1> QED
  BY <1>1, <1>2, <1>3, <1>4, <1>5, <1>6, <1>7 DEF IInv

\* Which places follow on which.
Follows(from, to) ==
  /\ from \in Active /\ to \in Active
  /\ to \in Navigating => from \in Navigating
  /\ to \in Reloading => from \in Reloading
  /\ to \in Powered => from \in Powered \cup Reloading
  /\ to \in Closing => from \in Closing \/ restarts < MaxRestarts

LEMMA CommandMove ==
  ASSUME IInv, NEW from, NEW answers, NEW to, Command(from, answers, to), Follows(from, to)
  PROVE  IInv'
<1>1. PICK a \in answers : EndCommand("worker", from \in Custom, a)
  BY DEF Command, Answered
<1>2. Ended("worker")
  BY <1>1, EndEffect DEF IInv
<1>3. /\ wpc = from /\ wpc' = to /\ Quiet
      /\ status' \in {"good", "other", "error"} /\ tries' \in 0 .. MaxTries
  BY DEF Command, Answered, IInv, TypeOK
<1> QED
  BY <1>2, <1>3, ActiveMove DEF Follows

LEMMA GotoMove ==
  ASSUME IInv, NEW from, NEW to, Goto(from, to), Follows(from, to),
         sending["worker"] = "no"
  PROVE  IInv'
<1>1. Ended("worker")
  BY NoEffect DEF Goto, IInv
<1>2. /\ wpc = from /\ wpc' = to /\ Quiet
      /\ status' \in {"good", "other", "error"} /\ tries' \in 0 .. MaxTries
  BY DEF Goto, IInv, TypeOK
<1> QED
  BY <1>1, <1>2, ActiveMove DEF Follows

\* fpc_capture_image returns.
LEMMA ReturnMove ==
  ASSUME IInv, wpc \in AtSensor, Ended("worker"),
         NEW r \in {"good", "other", "error"}, Returns(r) \/ Has(r)
  PROVE  IInv'
<1>1. /\ wpc' \in {"sleep", "captured", "off"} /\ Quiet
      /\ status' \in {"good", "other", "error"} /\ tries' \in 0 .. MaxTries
  BY DEF Returns, Has
<1>2. Follows(wpc, wpc')
  BY <1>1 DEF Follows, Active, Navigating, Reloading, AtSensor, Closing, Powered
<1> QED
  BY <1>1, <1>2, ActiveMove DEF Follows

-------------------------------------------------------------------------------
(* The worker's steps.                                                        *)

\* A crash leaves nothing that the invariant speaks of.
LEMMA DieStep ==
  ASSUME IInv, Die
  PROVE  IInv'
<1> USE DEF Die, powerVars
<1>1. TypeOK'
  <2>1. {fpc', restarted', refused'} \subseteq BOOLEAN
    BY Zenon DEF IInv, TypeOK
  <2>2. sending' \in [Threads -> {"no", "handle", "buffer"}]
    BY DEF NoneSends
  <2> QED
    BY <2>1, <2>2 DEF IInv, TypeOK, WorkerPCs
<1>2. HeldInv' /\ SendingInv' /\ PauseInv' /\ RestartInv'
  BY DEF HeldInv, SendingInv, PauseInv, RestartInv, NoneSends, Starting, Active, Navigating,
         Reloading, AtSensor, Closing, Sessions
<1>3. PowerInv'
  BY DEF PowerInv, Powered, Navigating, Reloading, AtSensor, Closing, Starting, Resting
<1>4. BufferInv'
  BY DEF BufferInv, Buffered, Handle, NoneSends
<1> QED
  BY <1>1, <1>2, <1>3, <1>4 DEF IInv

LEMMA SendStep ==
  ASSUME IInv, Send
  PROVE  IInv'
<1> USE DEF Send, place, binderVars, device, powerVars, restartVars
<1>1. /\ CommandsOK' /\ Balance' = Balance
      /\ sending'["worker"] = IF wpc \in Custom THEN "buffer" ELSE "handle"
      /\ sending'["binder"] = sending["binder"]
  <2>1. (wpc \in Custom) \in BOOLEAN /\ BeginCommand("worker", wpc \in Custom)
    OBVIOUS
  <2> QED
    BY <2>1, BeginEffect DEF IInv
<1>2. TypeOK'
  BY <1>1 DEF IInv, TypeOK, CommandsOK
<1>3. HeldInv' /\ PauseInv' /\ RestartInv'
  BY DEF IInv, HeldInv, PauseInv, RestartInv, Loire
<1>4. SendingInv'
  BY <1>1 DEF IInv, SendingInv
<1>5. PowerInv'
  BY DEF IInv, PowerInv, Lit, Yoshino
<1>6. BufferInv'
  BY <1>1, BufferStep DEF IInv
<1> QED
  BY <1>2, <1>3, <1>4, <1>5, <1>6 DEF IInv

\* The worker takes a request: a session only with a device.
LEMMA TakeStep ==
  ASSUME IInv, Take
  PROVE  IInv'
<1> USE DEF Take, device, commands, powerVars, restartVars
<1>1. wpc \in {"idle", "pause"} /\ wpc' \in {"idle", "pause", "start"}
  OBVIOUS
<1>2. sending["worker"] = "no"
  BY <1>1, NotSending DEF IInv, Normal, Custom
<1>3. wpc' = "start" => fpc
  BY DEF IInv, PauseInv, Sessions
<1>4. TypeOK'
  BY <1>1 DEF IInv, TypeOK, WorkerPCs
<1>5. HeldInv'
  BY <1>1, <1>3 DEF IInv, HeldInv, Starting, Active, Navigating, Reloading, AtSensor, Closing
<1>6. SendingInv'
  BY <1>2 DEF IInv, SendingInv
<1>7. PauseInv'
  BY DEF IInv, PauseInv, Sessions
<1>8. RestartInv'
  BY <1>1 DEF IInv, RestartInv, Starting, Reloading, AtSensor, Closing
<1>9. PowerInv'
  BY <1>1 DEF IInv, PowerInv, Powered, Navigating, Reloading, AtSensor, Closing, Starting, Resting
<1>10. BufferInv'
  BY <1>2, NoEffect, BufferStep DEF IInv, Ended
<1> QED
  BY <1>4, <1>5, <1>6, <1>7, <1>8, <1>9, <1>10 DEF IInv

\* Between two places without a session.
LEMMA RestingMove ==
  ASSUME IInv, NEW from \in {"idle", "naviWait", "naviOn", "start"},
         NEW to \in Resting \ {"pause"}, Goto(from, to)
  PROVE  IInv'
<1> USE DEF Goto, Quiet, binderVars, device, commands, powerVars, restartVars
<1>1. sending["worker"] = "no"
  BY NotSending DEF IInv, Normal, Custom
<1>2. TypeOK'
  BY DEF IInv, TypeOK, WorkerPCs, Resting
<1>3. HeldInv'
  BY DEF IInv, HeldInv, Starting, Active, Navigating, Reloading, AtSensor, Closing, Resting
<1>4. SendingInv'
  BY <1>1 DEF IInv, SendingInv
<1>5. PauseInv'
  BY DEF IInv, PauseInv
<1>6. RestartInv'
  BY DEF IInv, RestartInv, Starting, Reloading, AtSensor, Closing, Resting
<1>7. PowerInv'
  BY DEF IInv, PowerInv, Powered, Navigating, Reloading, AtSensor, Closing, Starting, Resting
<1>8. BufferInv'
  BY <1>1, NoEffect, BufferStep DEF IInv, Ended
<1> QED
  BY <1>2, <1>3, <1>4, <1>5, <1>6, <1>7, <1>8 DEF IInv

\* Switching on, for gestures or a session.
LEMMA PowerOnStep ==
  ASSUME IInv, fpc, NEW from \in {"naviOn", "start"}, NEW to \in {"naviEnter", "enrolStart", "lost"},
         to = "naviEnter" => from = "naviOn", PowerOn(from, to)
  PROVE  IInv'
<1> USE DEF PowerOn, binderVars, device, commands, restartVars
<1>1. sending["worker"] = "no"
  BY NotSending DEF IInv, Normal, Custom
<1>2. TypeOK'
  BY DEF IInv, TypeOK, WorkerPCs, Normal, Custom
<1>3. HeldInv'
  BY DEF IInv, HeldInv, Starting, Active, Navigating, Reloading, AtSensor, Closing
<1>4. SendingInv'
  BY <1>1 DEF IInv, SendingInv
<1>5. PauseInv'
  BY DEF IInv, PauseInv
<1>6. RestartInv'
  BY DEF IInv, RestartInv, Starting, Reloading, AtSensor, Closing
<1>7. PowerInv'
  BY DEF PowerInv, Lit, Reloading, Resting
<1>8. BufferInv'
  BY <1>1, NoEffect, BufferStep DEF IInv, Ended
<1> QED
  BY <1>2, <1>3, <1>4, <1>5, <1>6, <1>7, <1>8 DEF IInv

\* Switching off, after gestures or a session.
LEMMA PowerOffStep ==
  ASSUME IInv, NEW from \in {"naviOff", "off"}, PowerOff(from, "idle"),
         restarted' = FALSE \/ (from = "naviOff" /\ restarted' = restarted),
         UNCHANGED <<build, kind, status, tries, binderVars, device, commands, restarts>>
  PROVE  IInv'
<1> USE DEF PowerOff, binderVars, device, commands
<1>1. sending["worker"] = "no"
  BY NotSending DEF IInv, Normal, Custom
<1>2. restarted' = FALSE
  BY DEF IInv, RestartInv, Starting, Reloading, AtSensor, Closing, TypeOK
<1>3. TypeOK'
  <2>1. {restarted', refused'} \subseteq BOOLEAN
    BY <1>2, Zenon DEF IInv, TypeOK
  <2> QED
    BY <2>1 DEF IInv, TypeOK, WorkerPCs
<1>4. HeldInv'
  BY DEF IInv, HeldInv, Starting, Active, Navigating, Reloading, AtSensor, Closing
<1>5. SendingInv'
  BY <1>1 DEF IInv, SendingInv
<1>6. PauseInv'
  BY DEF IInv, PauseInv
<1>7. RestartInv'
  BY <1>2 DEF RestartInv, Starting, Closing
<1>8. PowerInv'
  BY DEF PowerInv, Powered, Navigating, Reloading, AtSensor, Closing, Starting
<1>9. BufferInv'
  BY <1>1, NoEffect, BufferStep DEF IInv, Ended
<1> QED
  BY <1>3, <1>4, <1>5, <1>6, <1>7, <1>8, <1>9 DEF IInv

LEMMA NavigateStep ==
  ASSUME IInv, Navigate
  PROVE  IInv'
<1> USE DEF Follows, Active, Navigating, Reloading, AtSensor, Closing, Powered, Starting
<1>1. CASE Goto("idle", "naviWait") \/ Goto("naviWait", "naviOn") \/ Goto("naviWait", "idle")
             \/ Goto("naviOn", "idle")
  BY <1>1, RestingMove DEF Resting
<1>2. CASE fpc /\ PowerOn("naviOn", "naviEnter")
  BY <1>2, PowerOnStep
<1>3. CASE Die
  BY <1>3, DieStep
<1>4. CASE \/ Command("naviEnter", {"zero"}, "naviPoll")
           \/ Command("naviEnter", Answers \ {"zero"}, "naviOff")
           \/ Command("naviExit", Answers, "naviOff")
  BY <1>4, CommandMove
<1>5. CASE NaviPoll
  <2>1. CASE \/ Command("naviPoll", {"zero"}, "naviPoll")
             \/ Command("naviPoll", {"zero"}, "naviEvent")
             \/ Command("naviPoll", Answers \ {"zero"}, "naviExit")
    BY <2>1, CommandMove
  <2>2. CASE Goto("naviPoll", "naviExit") /\ sending["worker"] = "no"
    BY <2>2, GotoMove
  <2>3. CASE Goto("naviEvent", "naviExit") \/ Goto("naviEvent", "naviPoll")
    <3>1. wpc \notin Normal \cup Custom
      BY <2>3 DEF Goto, Normal, Custom
    <3>2. sending["worker"] = "no"
      BY <3>1, NotSending DEF IInv
    <3> QED
      BY <2>3, <3>2, GotoMove
  <2> QED
    BY <1>5, <2>1, <2>2, <2>3 DEF NaviPoll, Finger
<1>6. CASE /\ PowerOff("naviOff", "idle")
           /\ UNCHANGED <<build, kind, status, tries, binderVars, device, commands,
                          restartVars>>
  BY <1>6, PowerOffStep DEF restartVars
<1> QED
  BY <1>1, <1>2, <1>3, <1>4, <1>5, <1>6 DEF Navigate

LEMMA StartStep ==
  ASSUME IInv, StartSession \/ EnrollStart
  PROVE  IInv'
<1>1. CASE Goto("start", "idle")
  BY <1>1, RestingMove DEF Resting
<1>2. CASE PowerOn("start", IF kind = "Enroll" THEN "enrolStart" ELSE "lost")
  <2>1. fpc
    BY <1>2 DEF IInv, HeldInv, PowerOn
  <2> QED
    BY <1>2, <2>1, PowerOnStep
<1>3. CASE EnrollStart
  BY <1>3, CommandMove DEF EnrollStart, Follows, Active, Navigating, Reloading, AtSensor, Closing,
                           Powered
<1> QED
  BY <1>1, <1>2, <1>3 DEF StartSession

\* What a step of fpc_capture_image is, whatever the build.
Captures ==
  \/ \E from, to \in AtSensor, answers \in SUBSET Answers : Command(from, answers, to)
  \/ \E from \in {"lostEvent", "downEvent"}, to \in AtSensor : Goto(from, to)
  \/ \E a \in Answers, r \in {"good", "other", "error"} :
       wpc \in AtSensor /\ Answered(wpc, a) /\ (Returns(r) \/ Has(r))
  \/ \E r \in {"good", "other", "error"} :
       /\ wpc \in {"lostEvent", "downEvent"} /\ UNCHANGED commands
       /\ Returns(r) \/ Has(r)
  \/ \E a \in Answers :
       /\ Answered("image", a) /\ wpc' = "down" /\ tries < MaxTries /\ tries' = tries + 1
       /\ UNCHANGED status /\ Quiet

LEMMA CapturesStep ==
  ASSUME IInv, Captures
  PROVE  IInv'
<1> USE DEF Follows, Active, Powered
<1>0. AtSensor \cap (Navigating \cup Reloading \cup Closing) = {}
  BY DEF AtSensor, Navigating, Reloading, Closing
<1>1. ASSUME NEW from \in AtSensor, NEW to \in AtSensor, NEW answers, Command(from, answers, to)
      PROVE  IInv'
  BY <1>0, <1>1, CommandMove
<1>2. ASSUME NEW from \in {"lostEvent", "downEvent"}, NEW to \in AtSensor, Goto(from, to)
      PROVE  IInv'
  <2>1. sending["worker"] = "no"
    BY <1>2, NotSending DEF IInv, Goto, Normal, Custom
  <2>2. from \in AtSensor
    BY DEF AtSensor
  <2> QED
    BY <1>0, <1>2, <2>1, <2>2, GotoMove
<1>3. ASSUME NEW a \in Answers, NEW r \in {"good", "other", "error"}, wpc \in AtSensor,
             Answered(wpc, a), Returns(r) \/ Has(r)
      PROVE  IInv'
  <2>1. Ended("worker")
    BY <1>3, EndEffect DEF Answered, IInv
  <2> QED
    BY <1>3, <2>1, ReturnMove
<1>4. ASSUME NEW r \in {"good", "other", "error"}, wpc \in {"lostEvent", "downEvent"},
             UNCHANGED commands, Returns(r) \/ Has(r)
      PROVE  IInv'
  <2>1. sending["worker"] = "no"
    BY <1>4, NotSending DEF IInv, Normal, Custom
  <2>2. Ended("worker")
    BY <1>4, <2>1, NoEffect DEF IInv
  <2> QED
    BY <1>4, <2>2, ReturnMove DEF AtSensor
<1>5. ASSUME NEW a \in Answers, Answered("image", a), wpc' = "down", tries < MaxTries,
             tries' = tries + 1, UNCHANGED status, Quiet
      PROVE  IInv'
  <2>1. Ended("worker")
    BY <1>5, EndEffect DEF Answered, IInv
  <2>2. /\ tries' \in 0 .. MaxTries /\ status' \in {"good", "other", "error"}
        /\ wpc \in AtSensor /\ wpc' \in AtSensor
    BY <1>5 DEF IInv, TypeOK, Answered, AtSensor
  <2> QED
    BY <1>0, <1>5, <2>1, <2>2, ActiveMove
<1> QED
  BY <1>1, <1>2, <1>3, <1>4, <1>5 DEF Captures

LEMMA WaitsCapture ==
  ASSUME WaitFingerLost \/ WaitFingerDown
  PROVE  Captures
<1> USE DEF AtSensor, Answers, Bad, Positive
<1>1. CASE \/ \E a \in Bad : Answered("lost", a) /\ Returns("error")
           \/ Answered("lost", "zero") /\ Returns("other")
           \/ \E a \in Bad : Answered("wake", a) /\ Returns("error")
           \/ \E a \in Bad : Answered("down", a) /\ Returns("error")
  BY <1>1 DEF Captures, Answered
<1>2. CASE \/ Command("lost", {"zero"}, "lostEvent") \/ Command("lost", Positive, "wake")
           \/ Command("lost", Positive, "down") \/ Command("wake", Answers \ Bad, "down")
           \/ Command("down", Positive, "image") \/ Command("down", {"zero"}, "downEvent")
  BY <1>2 DEF Captures
<1>3. CASE Goto("lostEvent", "wake") \/ Goto("downEvent", "image")
  BY <1>3 DEF Captures
<1>4. CASE Event("lostEvent") /\ Returns("other")
  BY <1>4 DEF Captures, Event
<1> QED
  BY <1>1, <1>2, <1>3, <1>4 DEF WaitFingerLost, WaitFingerDown, Finger

LEMMA CaptureStep ==
  ASSUME IInv, CaptureImage \/ LoireCaptureImage \/ PollFails
  PROVE  IInv'
<1> USE DEF AtSensor, Answers, Bad, Positive
<1>1. CASE WaitFingerLost \/ WaitFingerDown
  BY <1>1, WaitsCapture, CapturesStep
<1>2. CASE Event("downEvent") /\ (Has("other") \/ Returns("other"))
  <2>1. Captures
    BY <1>2 DEF Captures, Event
  <2> QED
    BY <2>1, CapturesStep
<1>3. CASE \E a \in Answers : Answered("image", a) /\ (Has(Result(a)) \/ Returns(Result(a)))
  <2>1. \A a \in Answers : Result(a) \in {"good", "other", "error"}
    BY DEF Result
  <2>2. Captures
    BY <1>3, <2>1 DEF Captures, Answered
  <2> QED
    BY <2>2, CapturesStep
<1>4. CASE /\ Answered("image", "three")
           /\ IF tries = MaxTries THEN Has("other")
              ELSE tries' = tries + 1 /\ wpc' = "down" /\ UNCHANGED status /\ Quiet
  <2>1. tries \in 0 .. MaxTries
    BY DEF IInv, TypeOK
  <2>2. Captures
    BY <1>4, <2>1 DEF Captures, Answered
  <2> QED
    BY <2>2, CapturesStep
<1>5. CASE \E a \in Answers : Answered("sleep", a) /\ Returns(status)
  <2>1. Captures
    BY <1>5 DEF Captures, Answered, IInv, TypeOK
  <2> QED
    BY <2>1, CapturesStep
<1>6. CASE wpc \in {"lostEvent", "downEvent"} /\ UNCHANGED commands /\ Returns("error")
  <2>1. Captures
    BY <1>6 DEF Captures
  <2> QED
    BY <2>1, CapturesStep
<1>7. CASE Goto("naviEvent", "naviExit")
  <2>1. sending["worker"] = "no"
    BY <1>7, NotSending DEF IInv, Goto, Normal, Custom
  <2> QED
    BY <1>7, <2>1, GotoMove DEF Follows, Active, Navigating, Reloading, Powered, Closing
<1> QED
  BY <1>1, <1>2, <1>3, <1>4, <1>5, <1>6, <1>7 DEF CaptureImage, LoireCaptureImage, PollFails

LEMMA SessionStep ==
  ASSUME IInv, Captured \/ AuthStep \/ Matched \/ EnrollStep \/ EndSession
  PROVE  IInv'
<1> USE DEF Follows, Active, Navigating, Reloading, AtSensor, Closing, Powered
<1>1. CASE Captured
  <2>1. /\ wpc = "captured" /\ wpc' \in {"off", "step", "lost"} /\ UNCHANGED commands /\ Quiet
        /\ UNCHANGED <<status, tries>>
    BY <1>1 DEF Captured
  <2>2. Ended("worker")
    BY <2>1, NotSending, NoEffect DEF IInv, Normal, Custom
  <2>3. status' \in {"good", "other", "error"} /\ tries' \in 0 .. MaxTries
    BY <2>1 DEF IInv, TypeOK
  <2> QED
    BY <2>1, <2>2, <2>3, ActiveMove
<1>2. CASE AuthStep
  <2>1. \E answers : \E to \in {"lost", "closeApp", "closeSleep", "store", "update"} :
          Command("step", answers, to) /\ (to \in Closing => restarts < MaxRestarts)
    BY <1>2 DEF AuthStep, Closing
  <2> QED
    BY <2>1, CommandMove
<1>3. CASE Matched
  <2>1. \E answers : \E from \in {"update", "store", "token"},
                       to \in {"store", "token", "off", "lost"} : Command(from, answers, to)
    BY <1>3 DEF Matched
  <2> QED
    BY <2>1, CommandMove
<1>4. CASE EnrollStep
  <2>1. \E answers : \E from \in {"step", "enrolEnd", "store"},
                       to \in {"off", "lost", "enrolEnd", "store"} : Command(from, answers, to)
    BY <1>4 DEF EnrollStep
  <2> QED
    BY <2>1, CommandMove
<1>5. CASE EndSession
  BY <1>5, PowerOffStep DEF EndSession
<1> QED
  BY <1>1, <1>2, <1>3, <1>4, <1>5

\* Reloading the group goes on in the same places, or back to the sensor.
LEMMA ReloadStep ==
  ASSUME IInv, ReloadGroup
  PROVE  IInv'
<1>1. \E answers : \E from \in Reloading, to \in Reloading \cup {"lost"} :
        Command(from, answers, to)
  BY DEF ReloadGroup, Reloading
<1>2. \A from \in Reloading, to \in Reloading \cup {"lost"} : Follows(from, to)
  BY DEF Follows, Active, Navigating, Reloading, AtSensor, Closing, Powered
<1> QED
  BY <1>1, <1>2, CommandMove

\* fpc_close: the TZ app goes first, then the rest but for fpc_data's buffer.
LEMMA CloseStep ==
  ASSUME IInv, Close
  PROVE  IInv'
<1>1. CASE Command("closeSleep", Answers, "closeApp")
  BY <1>1, CommandMove DEF Follows, Active, Navigating, Reloading, AtSensor, Closing, Powered, Starting
<1>2. CASE CloseApp
  <2> USE DEF CloseApp, binderVars, commands, powerVars, restartVars
  <2>1. wpc = "closeApp" /\ wpc' = "closeOff"
    BY <1>2
  <2>2. sending["worker"] = "no"
    BY <2>1, NotSending DEF IInv, Normal, Custom
  <2>3. fpc /\ Device \subseteq held
    BY <2>1 DEF IInv, HeldInv, Active, Closing
  <2>4. TypeOK'
    BY <1>2 DEF IInv, TypeOK, WorkerPCs, Resources
  <2>5. HeldInv'
    BY <1>2, <2>3 DEF HeldInv, Starting, Device
  <2>6. SendingInv' /\ PauseInv'
    BY <1>2, <2>2 DEF IInv, SendingInv, PauseInv
  <2>7. RestartInv' /\ PowerInv'
    BY <1>2 DEF IInv, RestartInv, PowerInv, Starting, Powered, Navigating, AtSensor, Closing,
                Reloading, Resting
  <2>8. BufferInv'
    BY <1>2 DEF IInv, BufferInv, Buffered, Handle
  <2> QED
    BY <2>4, <2>5, <2>6, <2>7, <2>8 DEF IInv
<1>3. CASE CloseOff /\ ~Die
  <2> USE DEF CloseOff, commands
  <2>1. /\ wpc = "closeOff" /\ wpc' = "open" /\ fpc' = FALSE /\ held' = {}
        /\ restarted' = TRUE /\ restarts' = restarts + 1 /\ UNCHANGED <<request, sending>>
    BY <1>3
  <2>2. "dhandle" \in held /\ sending["worker"] = "no"
    BY <2>1, NotSending DEF IInv, HeldInv, Normal, Custom
  <2>3. TypeOK'
    <3>1. {fpc', restarted', refused'} \subseteq BOOLEAN
      BY <1>3, Zenon DEF TypeOK
    <3>2. restarts' \in 0 .. MaxRestarts
      BY <1>3, <2>1 DEF IInv, TypeOK, RestartInv
    <3> QED
      BY <1>3, <3>1, <3>2 DEF IInv, TypeOK, WorkerPCs, Starting
  <2>4. HeldInv'
    BY <2>1 DEF HeldInv, Active, Navigating, Reloading, AtSensor, Closing, Starting
  <2>5. bpc \notin {"command"}
    BY <2>1 DEF IInv, PauseInv
  <2>6. SendingInv' /\ PauseInv'
    BY <1>3, <2>1, <2>2, <2>5 DEF IInv, SendingInv, PauseInv
  <2>7. RestartInv' /\ PowerInv'
    BY <2>1 DEF RestartInv, PowerInv, Starting, Powered, Navigating, AtSensor, Closing,
                Reloading, Resting
  <2>8. BufferInv'
    BY <1>3, <2>1, <2>2 DEF IInv, TypeOK, BufferInv, Buffered, Handle
  <2> QED
    BY <2>3, <2>4, <2>6, <2>7, <2>8 DEF IInv
<1> QED
  BY <1>1, <1>2, <1>3, DieStep DEF Close, CloseOff

-------------------------------------------------------------------------------
(* fpc_init.                                                                  *)

\* A step of it that touches neither the commands nor what is told to others.
LEMMA InitMove ==
  ASSUME IInv, NEW from \in Starting, NEW to \in Starting, InitStep(from, to), UNCHANGED fpc
  PROVE  /\ wpc = from /\ wpc' = to
         /\ RestartInv' /\ PauseInv'
         /\ wpc' \in WorkerPCs /\ UNCHANGED <<build, kind, status, tries, bpc, bop, request, restarts,
                                              restarted>>
<1> USE DEF InitStep, binderVars, restartVars
<1>1. RestartInv'
  BY DEF IInv, RestartInv, Closing, Starting
<1>2. PauseInv'
  BY DEF IInv, PauseInv, Starting, Sessions
<1> QED
  BY <1>1, <1>2 DEF WorkerPCs

LEMMA FpcInitStep ==
  ASSUME IInv, FpcInit
  PROVE  IInv'
<1> DEFINE Silent == {"open", "powerOn", "keymaster", "app", "dhandle", "cert", "initOff"}
<1>0. wpc \in Silent => sending["worker"] = "no"
  BY NotSending DEF IInv, Normal, Custom
<1>1. CASE InitFails
  BY <1>1, DieStep DEF InitFails
<1>2. CASE OpenHandle \/ InitPowerOn \/ LoadTrustlets \/ Certificate
  <2>1. PICK from \in Silent, to \in {"powerOn", "keymaster", "app", "cert", "dhandle", "keydata"} :
          InitStep(from, to)
    BY <1>2 DEF OpenHandle, InitPowerOn, LoadTrustlets, LoadTrustlet, Certificate
  <2>2. UNCHANGED fpc /\ UNCHANGED commands
    BY <1>2 DEF OpenHandle, InitPowerOn, LoadTrustlets, LoadTrustlet, Certificate, device
  <2>3. /\ wpc = from /\ wpc' = to /\ RestartInv' /\ PauseInv' /\ wpc' \in WorkerPCs
        /\ UNCHANGED <<build, kind, status, tries, bpc, bop, request, restarts, restarted>>
    BY <2>1, <2>2, InitMove DEF Starting
  <2>4. sending["worker"] = "no" /\ UNCHANGED <<sending, dmabufs, failures>>
    BY <1>0, <2>2, <2>3 DEF commands
  <2>5. TypeOK'
    <3>1. held' \subseteq Resources
      BY <1>2 DEF IInv, TypeOK, OpenHandle, InitPowerOn, LoadTrustlets, LoadTrustlet,
                  Certificate, Resources, device
    <3>2. power' \in {"on", "off"} /\ refused' = refused
      BY <1>2 DEF IInv, TypeOK, OpenHandle, InitPowerOn, LoadTrustlets, LoadTrustlet,
                  Certificate, powerVars
    <3> QED
      BY <2>2, <2>3, <2>4, <3>1, <3>2 DEF IInv, TypeOK
  <2>6. HeldInv'
    BY <1>2, <2>2, <2>3
       DEF IInv, HeldInv, OpenHandle, InitPowerOn, LoadTrustlets, LoadTrustlet, Certificate,
           InitStep, Starting, Active, Navigating, Reloading, AtSensor, Closing, Device, device,
           Loire
  <2>7. SendingInv'
    BY <2>2, <2>3, <2>4 DEF IInv, SendingInv
  <2>8. PowerInv'
    BY <1>2, <2>3 DEF IInv, PowerInv, Lit, Yoshino, OpenHandle, InitPowerOn, LoadTrustlets,
                      LoadTrustlet, Certificate, InitStep, Powered, Navigating, Reloading,
                      AtSensor, Starting, Resting, powerVars
  <2>9. BufferInv'
    <3>1. ("dhandle" \in held') = ("dhandle" \in held)
      BY <1>2, <2>3 DEF IInv, HeldInv, OpenHandle, InitPowerOn, LoadTrustlets, LoadTrustlet,
                        Certificate, InitStep, device
    <3> QED
      BY <2>3, <2>4, <3>1 DEF IInv, BufferInv, Buffered, Handle
  <2> QED
    BY <2>3, <2>5, <2>6, <2>7, <2>8, <2>9 DEF IInv
<1>3. CASE AllocHandle
  <2> USE DEF AllocHandle
  <2>1. /\ wpc = "dhandle" /\ wpc' \in {"initCmd", "keydata"} /\ RestartInv' /\ PauseInv'
        /\ wpc' \in WorkerPCs
        /\ UNCHANGED <<build, kind, status, tries, bpc, bop, request, restarts, restarted>>
    BY <1>3, InitMove DEF Starting
  <2>2. sending["worker"] = "no" /\ "dhandle" \notin held
    BY <1>0, <2>1 DEF IInv, HeldInv
  <2>3. TypeOK'
    BY <1>3, <2>1 DEF IInv, TypeOK, Resources, powerVars
  <2>4. HeldInv'
    BY <1>3, <2>1 DEF IInv, HeldInv, Starting, Active, Navigating, Reloading, AtSensor,
                      Closing, Device
  <2>5. SendingInv'
    BY <1>3, <2>1, <2>2 DEF IInv, SendingInv
  <2>6. PowerInv'
    BY <1>3, <2>1 DEF IInv, PowerInv, Lit, Yoshino, Powered, Navigating, Reloading, AtSensor,
                      Starting, Resting, powerVars
  <2>7. BufferInv'
    BY <1>3, <2>1, <2>2 DEF IInv, TypeOK, BufferInv, Buffered, Handle
  <2> QED
    BY <2>1, <2>3, <2>4, <2>5, <2>6, <2>7 DEF IInv
<1>4. ASSUME NEW from \in {"initCmd", "keydata", "initSleep"}, NEW answers,
             NEW to \in {"cert", "initSleep", "initOff"}, Command(from, answers, to),
             to = "cert" => Loire
      PROVE  IInv'
  <2> USE DEF Quiet, binderVars, device, powerVars, restartVars
  <2>1. PICK a \in answers : EndCommand("worker", from \in Custom, a)
    BY <1>4 DEF Command, Answered
  <2>2. Ended("worker")
    BY <2>1, EndEffect DEF IInv
  <2>3. wpc = from /\ wpc' = to /\ UNCHANGED <<status, tries>> /\ Quiet
    BY <1>4 DEF Command, Answered
  <2>4. TypeOK'
    BY <2>2, <2>3 DEF IInv, TypeOK, Ended, CommandsOK, WorkerPCs, Starting
  <2>5. HeldInv'
    BY <1>4, <2>3 DEF IInv, HeldInv, Starting, Active, Navigating, Reloading, AtSensor,
                      Closing, Device, Loire
  <2>6. SendingInv'
    BY <2>2, <2>3 DEF IInv, SendingInv, Ended
  <2>7. PauseInv' /\ RestartInv'
    BY <2>3 DEF IInv, PauseInv, RestartInv, Starting, Closing
  <2>8. PowerInv'
    BY <2>3 DEF IInv, PowerInv, Lit, Yoshino, Powered, Reloading, Starting, Resting
  <2>9. BufferInv'
    BY <2>2, <2>3, BufferStep DEF IInv, Ended
  <2> QED
    BY <2>4, <2>5, <2>6, <2>7, <2>8, <2>9 DEF IInv
<1>5. CASE \/ Command("keydata", {"zero"}, "initSleep")
           \/ Command("initSleep", Answers, "initOff")
           \/ Loire /\ Command("initCmd", {"zero"}, "cert")
           \/ Command("keydata", {"zero"}, "initOff")
  BY <1>4, <1>5
<1>6. CASE Loire /\ ~restarted /\ Command("keydata", {"positive"}, "idle")
  <2> USE DEF Quiet, binderVars, device, powerVars, restartVars
  <2>1. PICK a \in {"positive"} : EndCommand("worker", "keydata" \in Custom, a)
    BY <1>6 DEF Command, Answered
  <2>2. Ended("worker")
    BY <2>1, EndEffect DEF IInv
  <2>3. wpc = "keydata" /\ wpc' = "idle" /\ UNCHANGED <<status, tries>> /\ Quiet
    BY <1>6 DEF Command, Answered
  <2>4. bpc = "out" /\ ~fpc /\ ~restarted
    BY <1>6, <2>3 DEF IInv, RestartInv, HeldInv, Starting
  <2>5. TypeOK'
    BY <2>2, <2>3 DEF IInv, TypeOK, Ended, CommandsOK, WorkerPCs
  <2>6. HeldInv' /\ RestartInv' /\ PowerInv'
    BY <2>3, <2>4 DEF HeldInv, RestartInv, PowerInv, Starting, Active, Navigating, Reloading,
                      AtSensor, Closing, Powered
  <2>7. SendingInv' /\ PauseInv'
    BY <2>2, <2>3, <2>4 DEF IInv, SendingInv, PauseInv, Ended
  <2>8. BufferInv'
    BY <2>2, <2>3, BufferStep DEF IInv, Ended
  <2> QED
    BY <2>5, <2>6, <2>7, <2>8 DEF IInv
<1>7. ASSUME NEW from \in {"keydata", "initOff"}, NEW buffers \in {1, 2},
             Deviceless(from, buffers), ~restarted, refused' \in BOOLEAN,
             buffers = 2 <=> sending["worker"] = "buffer", sending["worker"] # "handle"
      PROVE  IInv'
  <2> USE DEF Deviceless, InitStep, binderVars, restartVars
  <2>1. /\ wpc = from /\ wpc' = "idle" /\ held' = {"app"} /\ dmabufs' = dmabufs - buffers
        /\ sending' = NoneSends
        /\ UNCHANGED <<fpc, failures, power, bpc, bop, request, restarted, restarts, build, kind,
                       status, tries>>
    BY <1>7
  <2>2. bpc = "out" /\ ~fpc /\ "dhandle" \in held
    BY <1>7, <2>1 DEF IInv, RestartInv, HeldInv, Starting, Device
  <2>3. sending["binder"] = "no" /\ sending["worker"] \in {"no", "handle", "buffer"}
    BY <2>2 DEF IInv, SendingInv, TypeOK
  <2>4. TypeOK'
    <3>1. sending' \in [Threads -> {"no", "handle", "buffer"}]
      BY <2>1 DEF NoneSends
    <3> QED
      BY <1>7, <2>1, <3>1 DEF IInv, TypeOK, WorkerPCs, Resources
  <2>5. HeldInv' /\ RestartInv' /\ PowerInv'
    BY <1>7, <2>1, <2>2 DEF HeldInv, RestartInv, PowerInv, Starting, Active, Navigating,
                            Reloading, AtSensor, Closing, Powered
  <2>6. SendingInv' /\ PauseInv'
    BY <2>1, <2>2 DEF IInv, SendingInv, PauseInv, NoneSends
  <2>7. BufferInv'
    BY <1>7, <2>1, <2>2, <2>3 DEF IInv, TypeOK, BufferInv, Buffered, Handle, NoneSends
  <2> QED
    BY <2>4, <2>5, <2>6, <2>7 DEF IInv
<1>8. CASE sending["worker"] = "buffer" /\ Deviceless("keydata", 2) /\ UNCHANGED refused
  BY <1>7, <1>8, DieStep DEF Deviceless, IInv, TypeOK
<1>9. CASE Deviceless("initOff", 1) /\ refused' = IF restarted THEN refused ELSE TRUE
  <2>1. CASE restarted
    BY <1>9, <2>1, DieStep DEF Deviceless
  <2>2. CASE ~restarted
    <3>1. wpc = "initOff"
      BY <1>9, <2>2 DEF Deviceless, InitStep
    <3>2. refused' \in BOOLEAN /\ sending["worker"] = "no"
      BY <1>0, <1>9, <2>2, <3>1
    <3> QED
      BY <1>7, <1>9, <2>2, <3>2
  <2> QED
    BY <2>1, <2>2
<1>10. CASE Started
  <2> USE DEF InitStep, binderVars, restartVars, commands
  <2>1. /\ wpc = "initOff" /\ wpc' \in {"idle", "off", "load", "loadEmpty"}
        /\ wpc' = "idle" <=> ~restarted
        /\ wpc' \in {"load", "loadEmpty"} => Yoshino /\ restarted
        /\ power' = "off" /\ refused' = FALSE /\ fpc' = TRUE
        /\ UNCHANGED <<held, sending, dmabufs, failures, build, kind, status, tries, bpc, bop,
                       request, restarted, restarts>>
    BY <1>10 DEF Started
  <2>2. Device \subseteq held /\ sending["worker"] = "no"
    BY <1>0, <2>1 DEF IInv, HeldInv
  <2>3. TypeOK'
    <3>1. {fpc', refused'} \subseteq BOOLEAN
      BY <2>1, Zenon
    <3> QED
      BY <2>1, <3>1 DEF IInv, TypeOK, WorkerPCs, Normal, Custom
  <2>4. HeldInv'
    BY <2>1, <2>2 DEF HeldInv, Starting
  <2>5. SendingInv' /\ PauseInv'
    BY <2>1, <2>2 DEF IInv, SendingInv, PauseInv, Starting
  <2>6. RestartInv'
    BY <2>1 DEF IInv, RestartInv, Starting, Reloading, AtSensor, Closing
  <2>7. PowerInv'
    BY <2>1 DEF PowerInv, Yoshino, Powered, Navigating, Reloading, AtSensor, Starting, Resting
  <2>8. BufferInv'
    BY <2>1 DEF IInv, BufferInv, Buffered, Handle
  <2> QED
    BY <2>3, <2>4, <2>5, <2>6, <2>7, <2>8 DEF IInv
<1> QED
  BY <1>1, <1>2, <1>3, <1>5, <1>6, <1>8, <1>9, <1>10, DieStep
     DEF FpcInit, KeyData, InitSleep, InitOff, LoireInit

LEMMA RespawnStep ==
  ASSUME IInv, Respawn
  PROVE  IInv'
<1> USE DEF Respawn, binderVars, device, commands, powerVars, restartVars
<1>1. sending["worker"] = "no"
  BY NotSending DEF IInv, Normal, Custom
<1>2. TypeOK'
  BY DEF IInv, TypeOK, WorkerPCs, Starting
<1>3. HeldInv' /\ PauseInv' /\ RestartInv' /\ PowerInv'
  BY DEF IInv, HeldInv, PauseInv, RestartInv, PowerInv, Starting, Active, Navigating, Reloading,
         AtSensor, Closing, Sessions, Powered, Resting
<1>4. SendingInv' /\ BufferInv'
  BY <1>1 DEF IInv, SendingInv, BufferInv, Buffered, Handle
<1> QED
  BY <1>2, <1>3, <1>4 DEF IInv

-------------------------------------------------------------------------------
(* The binder thread and its clients.                                         *)

LEMMA BinderMove ==
  ASSUME IInv, UNCHANGED <<build, place, device, powerVars, restartVars>>,
         CommandsOK', Balance' = Balance, sending'["worker"] = sending["worker"],
         bpc' \in {"out", "peek", "stale", "pausing", "command", "entering"},
         bop' \in {"none", "authenticate", "enroll", "prints", "group"},
         request' \in {"none", "Idle", "Pause", "Authenticate", "Enroll"},
         sending'["binder"] # "no" => bpc' \in {"peek", "stale", "command"},
         sending'["binder"] # "no" /\ bpc' = "command" => fpc,
         PauseInv',
         wpc \in Starting \cup {"dead"} /\ ~restarted => bpc' = "out"
  PROVE  IInv'
<1> USE DEF place, device, powerVars, restartVars
<1>1. TypeOK'
  BY DEF IInv, TypeOK, CommandsOK
<1>2. HeldInv' /\ RestartInv'
  BY DEF IInv, HeldInv, RestartInv, Loire
<1>3. SendingInv'
  BY DEF IInv, SendingInv
<1>4. PowerInv'
  BY DEF IInv, PowerInv, Lit, Yoshino
<1>5. BufferInv'
  BY BufferStep DEF IInv
<1> QED
  BY <1>1, <1>2, <1>3, <1>4, <1>5 DEF IInv

\* A step that sends nothing: the calls' own control.
LEMMA CallMove ==
  ASSUME IInv, BinderStep,
         bpc' \in {"out", "pausing", "command", "entering"},
         bop' \in {"none", "authenticate", "enroll", "prints", "group"},
         request' \in {"none", "Idle", "Pause", "Authenticate", "Enroll"},
         sending["binder"] = "no", PauseInv',
         wpc \in Starting \cup {"dead"} /\ ~restarted => bpc' = "out"
  PROVE  IInv'
<1>1. CommandsOK' /\ Balance' = Balance /\ sending' = sending
  BY DEF BinderStep, commands, CommandsOK, Balance, Buffered, IInv, TypeOK
<1> QED
  BY <1>1, BinderMove DEF BinderStep

LEMMA CallStep ==
  ASSUME IInv, \/ AwaitPause \/ PausedEnds \/ AwaitSession \/ Cancel
               \/ \E op \in {"authenticate", "enroll", "prints", "group"} : Call(op)
  PROVE  IInv'
<1>1. BinderStep
  BY DEF AwaitPause, PausedEnds, AwaitSession, Cancel, Call, BinderStep
<1>2. sending["binder"] = "no"
  BY DEF AwaitPause, PausedEnds, AwaitSession, Cancel, Call, IInv, SendingInv
<1>3. /\ bpc' \in {"out", "pausing", "command", "entering"}
      /\ bop' \in {"none", "authenticate", "enroll", "prints", "group"}
      /\ request' \in {"none", "Idle", "Pause", "Authenticate", "Enroll"}
  BY DEF AwaitPause, PausedEnds, AwaitSession, Cancel, Call, IInv, TypeOK
<1>4. PauseInv'
  <2>1. wpc' = wpc /\ fpc' = fpc
    BY <1>1 DEF BinderStep, place, device
  <2> QED
    BY <2>1 DEF AwaitPause, PausedEnds, AwaitSession, Cancel, Call, IInv, PauseInv, Sessions
<1>5. wpc \in Starting \cup {"dead"} /\ ~restarted => bpc' = "out"
  BY DEF AwaitPause, PausedEnds, AwaitSession, Cancel, Call, Serving, IInv, RestartInv, Starting
<1> QED
  BY <1>1, <1>2, <1>3, <1>4, <1>5, CallMove

LEMMA BinderSendStep ==
  ASSUME IInv, Peek \/ PausedSend
  PROVE  IInv'
<1>1. CASE Die
  BY <1>1, DieStep
<1>2. CASE ~Die
  <2>1. PICK own \in BOOLEAN : BinderSends(own)
    BY <1>2, Zenon DEF Peek, PausedSend
  <2>2. /\ CommandsOK' /\ Balance' = Balance /\ sending'["worker"] = sending["worker"]
        /\ UNCHANGED <<build, place, request, device, powerVars, restartVars>>
    BY <2>1, BeginEffect DEF BinderSends, IInv
  <2>3. /\ fpc /\ bop' = bop
        /\ \/ bpc = "out" /\ bpc' = "peek" /\ Serving
           \/ bpc = "command" /\ bpc' = "command"
    BY <1>2 DEF Peek, PausedSend
  <2>4. PauseInv'
    BY <2>2, <2>3 DEF IInv, PauseInv, place, device
  <2>5. wpc \in Starting \cup {"dead"} /\ ~restarted => bpc' = "out"
    BY <2>3 DEF Serving, IInv, RestartInv
  <2>6. UNCHANGED <<build, place, device, powerVars, restartVars>>
    BY <2>2
  <2> QED
    BY <2>2, <2>3, <2>4, <2>5, <2>6, BinderMove DEF IInv, TypeOK
<1> QED
  BY <1>1, <1>2

LEMMA BinderAnswerStep ==
  ASSUME IInv, PeekEnds \/ PausedAnswer
  PROVE  IInv'
<1>1. CASE Die
  BY <1>1, DieStep
<1>2. CASE ~Die
  <2>1. \E a \in Answers : EndCommand("binder", TRUE, a)
    BY <1>2 DEF PeekEnds, PausedAnswer
  <2>2. Ended("binder")
    BY <2>1, EndEffect DEF IInv
  <2>3. /\ UNCHANGED <<build, place, bop, request, device, powerVars, restartVars>>
        /\ \/ bpc \in {"peek", "stale"} /\ bpc' = "out"
           \/ bpc = "command" /\ bpc' = "command"
    BY <1>2 DEF PeekEnds, PausedAnswer, binderVars
  <2>4. PauseInv'
    BY <2>3 DEF IInv, PauseInv, place, device
  <2>5. UNCHANGED <<build, place, device, powerVars, restartVars>>
    BY <2>3
  <2> QED
    BY <2>2, <2>3, <2>4, <2>5, BinderMove DEF Ended, IInv, TypeOK, RestartInv
<1> QED
  BY <1>1, <1>2

-------------------------------------------------------------------------------
(* The invariant.                                                             *)

LEMMA Initially == Init => IInv
<1> SUFFICES ASSUME Init PROVE IInv
  OBVIOUS
<1>1. TypeOK
  <2>1. {fpc, restarted, refused} \subseteq BOOLEAN
    BY Zenon DEF Init
  <2>2. sending \in [Threads -> {"no", "handle", "buffer"}]
    BY DEF Init, NoneSends
  <2> QED
    BY <2>1, <2>2 DEF Init, TypeOK, WorkerPCs, Starting
<1>2. HeldInv /\ SendingInv /\ PauseInv /\ RestartInv /\ PowerInv /\ BufferInv
  BY DEF Init, NoneSends, HeldInv, SendingInv, PauseInv, RestartInv, PowerInv, BufferInv, Buffered,
         Handle, Starting, Active, Navigating, Reloading, AtSensor, Closing, Sessions, Powered,
         Resting
<1> QED
  BY <1>1, <1>2 DEF IInv

LEMMA WorkerStep ==
  ASSUME IInv, Worker \/ PollFails
  PROVE  IInv'
BY SendStep, FpcInitStep, TakeStep, NavigateStep, StartStep, CaptureStep, SessionStep, CloseStep,
   ReloadStep DEF Worker

\* What every place guarantees holds always.
THEOREM Invariance == Spec => []IInv
<1>1. Init => IInv
  BY Initially
<1>2. IInv /\ [Next]_vars => IInv'
  <2> SUFFICES ASSUME IInv, [Next]_vars PROVE IInv'
    OBVIOUS
  <2>1. CASE Next
    <3>1. CASE Worker \/ PollFails
      BY <3>1, WorkerStep
    <3>2. CASE Binder \/ Client
      BY <3>2, CallStep, BinderSendStep, BinderAnswerStep DEF Binder, Client
    <3>3. CASE TimeOut \/ Respawn
      BY <3>3, DieStep, RespawnStep DEF TimeOut
    <3> QED
      BY <2>1, <3>1, <3>2, <3>3 DEF Next
  <2>2. CASE UNCHANGED vars
    <3> USE <2>2 DEF vars, place, binderVars, device, commands, powerVars, restartVars
    <3>1. TypeOK' /\ HeldInv' /\ SendingInv' /\ PauseInv' /\ RestartInv'
      BY DEF IInv, TypeOK, HeldInv, SendingInv, PauseInv, RestartInv, Loire
    <3>2. PowerInv' /\ BufferInv'
      BY DEF IInv, PowerInv, Lit, Yoshino, BufferInv, Buffered, Handle
    <3> QED
      BY <3>1, <3>2 DEF IInv
  <2> QED
    BY <2>1, <2>2
<1> QED
  BY <1>1, <1>2, PTL DEF Spec

\* The library and its callers stay within their states.
THEOREM TypeCorrect == Spec => []TypeOK
<1>1. IInv => TypeOK
  BY DEF IInv
<1> QED
  BY <1>1, Invariance, PTL

\* No command goes to an app that is not there, and only the calls that do not pause
\* the worker can meet one of its commands in the app's command area.
THEOREM CommandsOwn == Spec => []CommandsOwnTheDevice
<1>1. IInv => CommandsOwnTheDevice
  <2> SUFFICES ASSUME IInv PROVE CommandsOwnTheDevice
    OBVIOUS
  <2>1. Sends("worker") => Device \subseteq held
    BY DEF IInv, Sends, SendingInv, HeldInv, Normal, Custom, Active, Navigating, Reloading,
           AtSensor, Closing, Device
  <2>2. bpc = "command" /\ Sends("binder") => Device \subseteq held
    BY DEF IInv, Sends, SendingInv, HeldInv, PauseInv
  <2>3. Sends("worker") /\ Sends("binder") => bpc \in {"peek", "stale"}
    BY DEF IInv, Sends, SendingInv, PauseInv, Normal, Custom
  <2> QED
    BY <2>1, <2>2, <2>3 DEF CommandsOwnTheDevice, Device
<1> QED
  BY <1>1, Invariance, PTL

\* The TZ app finds the sensor powered, but after a restart on Yoshino.
THEOREM Powering == Spec => []PoweredWhileSensing
<1>1. IInv => PoweredWhileSensing
  BY DEF IInv, PowerInv, Lit, PoweredWhileSensing, Sensing, Powered, Navigating, AtSensor, Starting
<1> QED
  BY <1>1, Invariance, PTL

\* The power is not left on between sessions.
THEOREM Unpowering == Spec => []UnpoweredAtRest
<1>1. IInv => UnpoweredAtRest
  BY DEF IInv, PowerInv, UnpoweredAtRest, Resting
<1> QED
  BY <1>1, Invariance, PTL

\* No DMA buffer is lost but where the code is known to lose it.
THEOREM Returning == Spec => []BuffersReturned
<1>1. IInv => BuffersReturned
  BY DEF IInv, BufferInv, BuffersReturned, Buffered, Handle
<1> QED
  BY <1>1, Invariance, PTL

-------------------------------------------------------------------------------
(* The library as a user of the worker thread.                                *)

\* In AuthenticateAsync or EnrollAsync, of which a restart of the TZ app is a part.
InSession ==
  \/ wpc \in {"start", "closeOff", "off"} \cup AtSensor \cup Reloading \cup Closing
  \/ wpc \in Starting /\ restarted

\* What the thread reports: its Pause handler, a session's, or that of Idle.
Reported == IF wpc = "pause" THEN "Pause" ELSE IF InSession THEN kind ELSE "Idle"

Box == INSTANCE Mailbox WITH Requests <- Sessions \cup {"Idle", "Pause"},
                             Empty <- "none", Idle <- "Idle",
                             slot <- request, current <- Reported

\* Only what the worker takes brings it into a session, or into a pause or out of one.
Stays == /\ UNCHANGED request
         /\ InSession' => InSession /\ UNCHANGED kind
         /\ wpc # "pause" /\ wpc' # "pause"

LEMMA StaysEffect ==
  ASSUME Stays
  PROVE  [Box!FallBack]_<<request, Reported>>
BY DEF Stays, Reported, Box!FallBack

LEMMA StartStays ==
  ASSUME FpcInit
  PROVE  Stays \/ Die
<1> USE DEF InitStep, Stays, InSession, AtSensor, Reloading, Closing, Starting, binderVars,
            restartVars
<1>1. CASE InitFails
  BY <1>1 DEF InitFails
<1>2. CASE OpenHandle \/ InitPowerOn \/ LoadTrustlets \/ AllocHandle \/ Certificate
  BY <1>2 DEF OpenHandle, InitPowerOn, LoadTrustlets, LoadTrustlet, AllocHandle, Certificate
<1>3. CASE InitSleep
  BY <1>3 DEF InitSleep, Command, Answered, Quiet
<1>4. CASE KeyData
  BY <1>4 DEF KeyData, Deviceless, Command, Answered, Quiet
<1>5. CASE InitOff
  BY <1>5 DEF InitOff, Started, Deviceless
<1>6. CASE LoireInit
  BY <1>6 DEF LoireInit, Command, Answered, Quiet
<1> QED
  BY <1>1, <1>2, <1>3, <1>4, <1>5, <1>6 DEF FpcInit

LEMMA NavigateStays ==
  ASSUME Navigate
  PROVE  Stays \/ Die
BY DEF Navigate, NaviPoll, Finger, Goto, PowerOn, PowerOff, Command, Answered, Quiet, Stays,
       InSession, AtSensor, Reloading, Closing, Starting, binderVars, restartVars

LEMMA SessionStays ==
  ASSUME StartSession \/ EnrollStart \/ CaptureImage \/ LoireCaptureImage \/ Captured \/ PollFails
           \/ AuthStep \/ Matched \/ EnrollStep \/ EndSession
  PROVE  Stays
<1> USE DEF Goto, PowerOn, PowerOff, Command, Answered, Quiet, Stays, InSession, AtSensor,
            Reloading, Closing, Starting, binderVars, restartVars
<1>1. CASE StartSession \/ EnrollStart \/ Captured \/ EndSession
  BY <1>1 DEF StartSession, EnrollStart, Captured, EndSession
<1>2. CASE CaptureImage
  BY <1>2 DEF CaptureImage, WaitFingerLost, WaitFingerDown, Finger, Event, Has, Returns
<1>3. CASE LoireCaptureImage \/ PollFails
  BY <1>3 DEF LoireCaptureImage, PollFails, WaitFingerLost, WaitFingerDown, Finger, Event, Returns
<1>4. CASE AuthStep \/ Matched \/ EnrollStep
  BY <1>4 DEF AuthStep, Matched, EnrollStep
<1> QED
  BY <1>1, <1>2, <1>3, <1>4

LEMMA CloseStays ==
  ASSUME Close \/ ReloadGroup
  PROVE  Stays \/ Die
<1> USE DEF Command, Answered, Quiet, Stays, InSession, AtSensor, Reloading, Closing, Starting,
            binderVars, restartVars
<1>1. CASE Close
  BY <1>1 DEF Close, CloseApp, CloseOff
<1>2. CASE ReloadGroup
  BY <1>2 DEF ReloadGroup
<1> QED
  BY <1>1, <1>2

LEMMA TakeTakes ==
  ASSUME TypeOK, Take
  PROVE  Box!Take
BY DEF TypeOK, Take, Box!Take, Reported, InSession, AtSensor, Reloading, Closing, Starting

LEMMA CallsPost ==
  ASSUME Binder \/ Client
  PROVE  \/ \E s \in Sessions \cup {"Idle", "Pause"} : Box!Post(s)
         \/ UNCHANGED <<request, Reported>> \/ Die
<1>1. Die \/ UNCHANGED <<place, restartVars>>
  BY DEF Binder, Client, PeekEnds, AwaitPause, PausedSend, PausedAnswer, PausedEnds, AwaitSession,
         Peek, Cancel, Call, BinderSends, BinderStep
<1>2. UNCHANGED <<place, restartVars>> => UNCHANGED Reported
  BY DEF place, restartVars, Reported, InSession
<1>3. Die \/ request' \in Sessions \cup {"Idle", "Pause"} \/ UNCHANGED request
  BY DEF Binder, Client, PeekEnds, AwaitPause, PausedSend, PausedAnswer, PausedEnds, AwaitSession,
         Peek, Cancel, Call, BinderSends, BinderStep, Sessions, binderVars
<1> QED
  BY <1>1, <1>2, <1>3 DEF Box!Post

\* Every step of the library and its callers but the crash of the process uses the
\* worker thread as a mailbox with one slot, also where a restart of the TZ app takes
\* the worker through fpc_init in the middle of a session.
THEOREM UsesMailbox == Spec => [][Box!Next \/ Die]_<<request, Reported>>
<1>1. IInv /\ [Next]_vars => [Box!Next \/ Die]_<<request, Reported>>
  <2> SUFFICES ASSUME IInv, [Next]_vars PROVE [Box!Next \/ Die]_<<request, Reported>>
    OBVIOUS
  <2>1. CASE Send
    BY <2>1 DEF Send, Reported, InSession, place, binderVars, restartVars
  <2>2. CASE Take
    BY <2>2, TakeTakes DEF IInv, Box!Next
  <2>3. CASE \/ FpcInit \/ Navigate \/ StartSession \/ EnrollStart \/ CaptureImage
             \/ LoireCaptureImage \/ Captured \/ PollFails \/ AuthStep \/ Matched \/ EnrollStep
             \/ EndSession \/ Close \/ ReloadGroup
    BY <2>3, StartStays, NavigateStays, SessionStays, CloseStays, StaysEffect DEF Box!Next
  <2>4. CASE Binder \/ Client
    BY <2>4, CallsPost DEF Box!Next
  <2>5. CASE TimeOut
    BY <2>5 DEF TimeOut
  <2>6. CASE Respawn
    BY <2>6 DEF IInv, RestartInv, Respawn, Reported, InSession, binderVars, restartVars, AtSensor,
                Reloading, Closing, Starting
  <2>7. CASE UNCHANGED vars
    BY <2>7 DEF vars, place, binderVars, restartVars, Reported, InSession
  <2> QED
    BY <2>1, <2>2, <2>3, <2>4, <2>5, <2>6, <2>7 DEF Next, Worker
<1> QED
  BY <1>1, Invariance, PTL DEF Spec

===============================================================================
