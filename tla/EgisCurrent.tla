------------------------------ MODULE EgisCurrent ------------------------------
(***************************************************************************)
(* The current Egistec HAL (hidl/fp/egistec/current).  AuthenticateAsync    *)
(* and EnrollAsync run on the worker thread, one binder thread runs the     *)
(* calls of the framework.  Unlike the legacy HAL no lock spans a session:  *)
(* each TZ command and each callback is atomic, and mGid, mOperationId,     *)
(* mNewPrintId and mEnrollTimeout are read by the loops while calls write   *)
(* them.                                                                    *)
(*                                                                          *)
(* The worker thread is used as module Mailbox describes it.  The TZ app is *)
(* external.  remove and enumerate only ask it things.                      *)
(***************************************************************************)
EXTENDS Naturals

CONSTANTS Challenges,    \* operation ids
          Prints,        \* ids that GetNewPrintId draws
          Groups,        \* gids
          None,          \* mOperationId = 0, mNewPrintId = -1
          ReImageLimit   \* 6 in the code: retries of a bad image, less one

ASSUME CurrentAssumption ==
  /\ None \notin Challenges \cup Prints
  /\ ReImageLimit \in Nat

VARIABLES
  gestures,           \* the sensor knows them (mHwId)
  slot,               \* the worker's pending request, "Invalid" if none
  running, wpc,       \* the worker's handler and where it is
  state, reImaged, force_retry,
  failed,             \* rc # 0
  outcome,            \* done, canceled, timeout; "done" is percentage_done >= 100 too
  result,             \* what Identify was asked with
  bpc, bop,           \* the binder thread: position and call
  mGid, mOperationId, mNewPrintId,
  mEnrollTimeout,     \* TRUE: not -1
  session,            \* history: what the session was asked for; Nobody when there is
                      \* none, or when a call came in the middle of it
  answers,            \* history: the final callbacks that the worker's session has
                      \* made: none, one, or more (2)
  accepted,           \* history: the client awaits the end of a session
  lost,               \* history: that end will not come
  saved, reported     \* history: the print saved, what the last success said,
                      \* which the head of the loop forgets

loopVars == <<running, state, reImaged, force_retry, failed, outcome, result>>
workerVars == <<wpc, loopVars>>
binderVars == <<bpc, bop>>
shared == <<mGid, mOperationId, mNewPrintId, mEnrollTimeout>>
told == <<answers, accepted, saved, reported>>
history == <<session, lost, told>>
vars == <<gestures, slot, workerVars, binderVars, shared, history>>

Sessions == {"Authenticate", "Enroll"}
\* Where the worker is between sessions: at the head of its loop or in IdleAsync.
Between == {"loop", "idle", "navigate", "gesture"}
\* Where a session has not come to its end.
Ahead == {"init", "check", "do", "report", "wait", "finalize", "clear", "tell", "notify"}

\* The states of the two loops.  Identify and EnrollStep are "Step", or "StepDirty" for
\* Identify with an image_result that says the imager is dirty.
States == {"WaitFingerDown", "GetImage", "Step", "StepDirty", "WaitFingerLost"}

Nobody == [gid |-> "none", id |-> None]
About(g, i) == [gid |-> g, id |-> i]
Ids == Challenges \cup Prints \cup {None}
Somebody == [gid : Groups, id : Ids] \cup {Nobody}

Flags ==
  /\ gestures \in BOOLEAN /\ force_retry \in BOOLEAN /\ failed \in BOOLEAN
  /\ mEnrollTimeout \in BOOLEAN
  /\ accepted \in BOOLEAN /\ lost \in BOOLEAN

TypeOK ==
  /\ Flags
  /\ slot \in Sessions \cup {"Idle", "Invalid"}
  /\ running \in Sessions \cup {"Idle"}
  /\ wpc \in Between \cup Ahead \cup {"end"}
  /\ state \in States
  /\ reImaged \in 0 .. ReImageLimit + 1 /\ answers \in 0 .. 2
  /\ outcome \in {"none", "done", "canceled", "timeout"}
  /\ result \in Somebody /\ session \in Somebody
  /\ saved \in Somebody /\ reported \in Somebody
  /\ bpc \in {"out", "post"} /\ bop \in Sessions \cup {"none"}
  /\ mGid \in Groups
  /\ mOperationId \in Challenges \cup {None} /\ mNewPrintId \in Prints \cup {None}

\* The locals of a handler that is not running.
FreshLoop(r) ==
  /\ running' = r
  /\ state' = "WaitFingerDown" /\ reImaged' = 0 /\ force_retry' = FALSE
  /\ failed' = FALSE /\ outcome' = "none" /\ result' = Nobody

Init ==
  /\ gestures \in BOOLEAN
  /\ slot = "Invalid" /\ running = "Idle" /\ wpc = "loop"
  /\ state = "WaitFingerDown" /\ reImaged = 0 /\ force_retry = FALSE
  /\ failed = FALSE /\ outcome = "none" /\ result = Nobody
  /\ bpc = "out" /\ bop = "none"
  /\ mGid \in Groups /\ mOperationId = None /\ mNewPrintId = None
  /\ mEnrollTimeout = FALSE
  /\ session = Nobody /\ answers = 0 /\ accepted = FALSE /\ lost = FALSE
  /\ saved = Nobody /\ reported = Nobody

\* A session waits for the worker, or runs, whatever it has told so far.
Busy == slot \in Sessions \/ wpc \in Ahead

-------------------------------------------------------------------------------
(* The binder thread: one call at a time.                                     *)

\* What becomes of the session history when a call changes what sessions read.
Disturb(request) == session' = IF Busy THEN Nobody ELSE request

\* authenticate(): mOperationId is written before the request is posted.
Authenticate(op) ==
  /\ bpc = "out"
  /\ bpc' = "post" /\ bop' = "Authenticate"
  /\ mOperationId' = op
  /\ Disturb(About(mGid, op))
  /\ UNCHANGED <<gestures, slot, workerVars, mGid, mNewPrintId, mEnrollTimeout, lost, told>>

\* enroll() of a client with a token for the current challenge: any other is
\* refused before anything changes.  GetNewPrintId writes mNewPrintId even while
\* another session runs.
Enroll(id) ==
  /\ bpc = "out"
  /\ bpc' = "post" /\ bop' = "Enroll"
  /\ mNewPrintId' = id
  /\ mEnrollTimeout' = TRUE
  /\ Disturb(About(mGid, id))
  /\ UNCHANGED <<gestures, slot, workerVars, mGid, mOperationId, lost, told>>

PostSession ==
  /\ bpc = "post"
  /\ bpc' = "out" /\ bop' = "none"
  /\ slot' = bop
  /\ accepted' = TRUE /\ lost' = FALSE
  /\ UNCHANGED <<gestures, workerVars, shared, session, answers, saved, reported>>

Cancel ==
  /\ bpc = "out"
  /\ slot' = "Idle"
  /\ lost' = (lost \/ slot \in Sessions)
  /\ session' = IF slot \in Sessions /\ wpc \in Between THEN Nobody ELSE session
  /\ UNCHANGED <<gestures, workerVars, binderVars, shared, told>>

PostEnroll ==
  /\ bpc = "out"
  /\ mEnrollTimeout' = FALSE /\ mNewPrintId' = None
  /\ Disturb(session)
  /\ UNCHANGED <<gestures, slot, workerVars, binderVars, mGid, mOperationId, lost, told>>

SetActiveGroup(g) ==
  /\ bpc = "out"
  /\ mGid' = g
  /\ Disturb(session)
  /\ UNCHANGED <<gestures, slot, workerVars, binderVars, mOperationId, mNewPrintId,
                 mEnrollTimeout, lost, told>>

-------------------------------------------------------------------------------
(* The worker thread.                                                         *)

Outside == UNCHANGED <<gestures, slot, binderVars>>

\* consumeState, and the start of IdleAsync unless a session is wanted.
Take ==
  /\ wpc = "loop" /\ slot' = "Invalid"
  /\ IF slot \in Sessions
     THEN wpc' = "init" /\ FreshLoop(slot)
     ELSE wpc' = (IF gestures THEN "navigate" ELSE "idle") /\ UNCHANGED loopVars
  /\ UNCHANGED <<gestures, binderVars, shared, history>>

Goto(from, to) ==
  /\ wpc = from /\ wpc' = to
  /\ Outside /\ UNCHANGED <<loopVars, shared, history>>

\* The rest of IdleAsync: it asks for a gesture whenever it is woken, until by a request.
GetNavEvent == Goto("navigate", "gesture")
IdleEnds == slot # "Invalid" /\ (Goto("gesture", "loop") \/ Goto("idle", "loop"))

\* A gesture (a request goes before it), or epoll_wait fails.
Gesture == Goto("gesture", "navigate")

\* LOG_ALWAYS_FATAL, when a command between sessions fails; init starts the service
\* again, and the framework, which hears of it, sets the group.
Die ==
  /\ wpc \in Between \ {"idle"}
  /\ slot' = "Invalid" /\ wpc' = "loop" /\ FreshLoop("Idle")
  /\ bpc' = "out" /\ bop' = "none"
  /\ mGid' \in Groups /\ mOperationId' = None /\ mNewPrintId' = None
  /\ mEnrollTimeout' = FALSE
  /\ session' = Nobody /\ answers' = 0 /\ accepted' = FALSE /\ lost' = FALSE
  /\ saved' = Nobody /\ reported' = Nobody
  /\ UNCHANGED gestures

\* A callback that ends the session for the client.
Answer == answers' = (IF answers = 0 THEN 1 ELSE 2) /\ accepted' = FALSE

\* InitializeIdentify and InitializeEnroll; the one error reported at once.
InitializeSession ==
  /\ wpc = "init"
  /\ \/ wpc' = "check" /\ UNCHANGED told
     \/ wpc' = "end" /\ Answer /\ UNCHANGED <<saved, reported>>
  /\ Outside /\ UNCHANGED <<loopVars, shared, session, lost>>

\* Mutant: a request is looked for only in the waits.
LoopHeadDeaf ==
  /\ wpc = "check"
  /\ wpc' = "do" /\ UNCHANGED outcome
  /\ force_retry' = (force_retry /\ running = "Authenticate")
  /\ Outside
  /\ reported' = Nobody
  /\ UNCHANGED <<running, state, reImaged, failed, result, shared, session, lost, answers,
                 accepted, saved>>

\* The head of both loops.  Only EnrollAsync resets force_retry here.
LoopHead ==
  /\ wpc = "check"
  /\ IF slot # "Invalid" /\ ~force_retry
     THEN wpc' = "finalize" /\ outcome' = "canceled" /\ UNCHANGED force_retry
     ELSE /\ wpc' = "do" /\ UNCHANGED outcome
          /\ force_retry' = (force_retry /\ running = "Authenticate")
  /\ Outside
  /\ reported' = Nobody
  /\ UNCHANGED <<running, state, reImaged, failed, result, shared, session, lost, answers,
                 accepted, saved>>

\* The end of an iteration: the loop goes on unless rc or an outcome stops it.
GoOn(st, rc, end) ==
  /\ state' = st /\ failed' = rc /\ outcome' = end
  /\ wpc' = IF rc \/ end # "none" THEN "finalize" ELSE "check"
  /\ Outside
  /\ UNCHANGED <<running, shared, session, lost, saved>>

\* An iteration that makes no callback after which a client takes a session for over.
Iterate(st, rc, end) == GoOn(st, rc, end) /\ UNCHANGED <<answers, accepted, reported>>

\* A command returns an error; or it returns 99, the device is reset and the loop
\* tries the same state again.
CommandError ==
  /\ wpc = "do"
  /\ \E rc \in BOOLEAN : Iterate(state, rc, "none")
  /\ UNCHANGED <<reImaged, force_retry, result>>

DetectMode ==
  /\ wpc = "do" /\ state = "WaitFingerDown"
  /\ wpc' = "wait"
  /\ Outside /\ UNCHANGED <<loopVars, shared, history>>

\* waitForEvent() returns for a request, which goes before a finger.
WaitEvent ==
  /\ wpc = "wait" /\ slot # "Invalid"
  /\ Iterate(state, FALSE, "none")
  /\ UNCHANGED <<reImaged, force_retry, result>>

\* A finger, when it was waited for; enrolling waits in WaitFingerLost as well and
\* then asks again.
WaitFinger ==
  /\ wpc = "wait" /\ slot = "Invalid"
  /\ Iterate(IF state = "WaitFingerDown" THEN "GetImage"
             ELSE IF running = "Authenticate" THEN "WaitFingerDown" ELSE state,
             FALSE, "none")
  /\ UNCHANGED <<reImaged, force_retry, result>>

\* The time-out of an enrolment, which postEnroll switches off.
WaitTimeout ==
  /\ wpc = "wait" /\ slot = "Invalid" /\ running = "Enroll" /\ mEnrollTimeout
  /\ Iterate(state, FALSE, "timeout")
  /\ UNCHANGED <<reImaged, force_retry, result>>

\* epoll_wait fails (EINTR); waitForEvent returns Timeout.
WaitError ==
  /\ wpc = "wait"
  /\ Iterate(state, FALSE, "timeout")
  /\ UNCHANGED <<reImaged, force_retry, result>>

GetImage == wpc = "do" /\ state = "GetImage" /\ UNCHANGED result

\* A good image (which starts the count of retries afresh) or, authenticating, a
\* mediocre one.
ImageUsable ==
  /\ GetImage
  /\ \/ Iterate("Step", FALSE, "none") /\ reImaged' = 0
     \/ /\ running = "Authenticate"
        /\ Iterate("StepDirty", FALSE, "none") /\ UNCHANGED reImaged
  /\ force_retry' = FALSE

\* Too fast, or a result the loop does not know.
ImageUseless ==
  /\ GetImage
  /\ \E st \in {"WaitFingerLost", "WaitFingerDown"} : Iterate(st, FALSE, "none")
  /\ UNCHANGED reImaged /\ force_retry' = FALSE

\* Mutant: a bad image is retried without a limit.
ImageBadUnlimited ==
  /\ GetImage
  /\ \/ /\ Iterate("GetImage", FALSE, "none")
        /\ reImaged' = reImaged + 1 /\ force_retry' = TRUE
     \/ \E rc \in BOOLEAN : Iterate("WaitFingerLost", rc, "none") /\ UNCHANGED reImaged
                                                           /\ force_retry' = FALSE

\* Partial or dirty: reset the sensor and force another image, until that was done
\* too often.  If the sensor reset fails the device is reset, and no retry forced.
ImageBad ==
  /\ GetImage
  /\ \/ /\ reImaged > ReImageLimit
        /\ Iterate("WaitFingerLost", FALSE, "none") /\ reImaged' = 0 /\ force_retry' = FALSE
     \/ /\ reImaged <= ReImageLimit
        /\ Iterate("GetImage", FALSE, "none")
        /\ reImaged' = reImaged + 1 /\ force_retry' = TRUE
     \/ /\ reImaged <= ReImageLimit
        /\ \E rc \in BOOLEAN : Iterate("WaitFingerLost", rc, "none")
        /\ UNCHANGED reImaged /\ force_retry' = FALSE

\* Identify(mGid, mOperationId).  The statuses 1 and 2 end the loop; updating and saving
\* the template afterwards may fail all the same.  A good image has a callback for the
\* status 0 first, and the loop goes on.
Identify ==
  /\ wpc = "do" /\ state \in {"Step", "StepDirty"} /\ running = "Authenticate"
  /\ result' = About(mGid, mOperationId)
  /\ \/ \E end \in {"none", "done"}, rc \in BOOLEAN : Iterate("WaitFingerLost", rc, end)
     \/ /\ state = "Step" /\ wpc' = "report"
        /\ Outside
        /\ UNCHANGED <<running, state, failed, outcome, shared, history>>
  /\ UNCHANGED <<reImaged, force_retry>>

\* That callback: a match_id is a success for the client, the match_id 0 is none.  When
\* the device is reset for the template, the same image is looked up again.
TellIdentified ==
  /\ wpc = "report"
  /\ \E st \in {"Step", "WaitFingerLost"}, rc \in BOOLEAN : GoOn(st, rc, "none")
  /\ \/ Answer /\ reported' = About(mGid, result.id)
     \/ UNCHANGED <<answers, accepted, reported>>
  /\ UNCHANGED <<reImaged, force_retry, result>>

\* Enroll(): progress, completion, or a status nobody knows (rc = -1).  Ten good images
\* at 0 % leave nothing of the "usual" ten: the client is told of 0 that remain.
EnrollStep ==
  /\ wpc = "do" /\ state = "Step" /\ running = "Enroll"
  /\ \/ \E end \in {"none", "done"}, rc \in BOOLEAN : Iterate("WaitFingerLost", rc, end)
     \/ /\ GoOn("WaitFingerLost", FALSE, "none")
        /\ Answer /\ reported' = About(mGid, mNewPrintId)
  /\ UNCHANGED <<reImaged, force_retry, result>>

\* IsFingerLost(): the finger left, or is waited for.
FingerLost ==
  /\ wpc = "do" /\ state = "WaitFingerLost"
  /\ \/ Iterate("WaitFingerDown", FALSE, "none")
     \/ wpc' = "wait" /\ Outside /\ UNCHANGED <<running, state, failed, outcome, shared,
                                                   history>>
  /\ UNCHANGED <<reImaged, force_retry, result>>

\* Mutant: a finalizer that fails ends the session.
FinalizeReturns ==
  /\ wpc = "finalize"
  /\ failed' \in BOOLEAN
  /\ wpc' = IF failed' THEN "end" ELSE IF running = "Authenticate" THEN "clear" ELSE "tell"
  /\ Outside
  /\ UNCHANGED <<running, state, reImaged, force_retry, outcome, result, shared, session,
                 lost, told>>

\* FinalizeIdentify and FinalizeEnroll: their rc replaces the one of the loop.
Finalize ==
  /\ wpc = "finalize"
  /\ wpc' = IF running = "Authenticate" THEN "clear" ELSE "tell"
  /\ failed' \in BOOLEAN
  /\ Outside
  /\ UNCHANGED <<running, state, reImaged, force_retry, outcome, result, shared, session,
                 lost, told>>

\* Mutant: the challenge is cleared when the client has been told.
ClearChallengeLate ==
  /\ \/ wpc = "clear" /\ wpc' = "tell" /\ UNCHANGED mOperationId
     \/ /\ wpc = "end" /\ running = "Authenticate" /\ mOperationId # None
        /\ UNCHANGED wpc /\ mOperationId' = None
  /\ Outside
  /\ UNCHANGED <<loopVars, mGid, mNewPrintId, mEnrollTimeout, history>>

\* mOperationId = 0, whoever wrote it last.
ClearChallenge ==
  /\ wpc = "clear"
  /\ wpc' = "tell" /\ mOperationId' = None
  /\ Outside
  /\ UNCHANGED <<loopVars, mGid, mNewPrintId, mEnrollTimeout, history>>

TellError ==
  /\ wpc = "tell"
  /\ outcome \in {"canceled", "timeout"} \/ failed
  /\ wpc' = "end"
  /\ Answer
  /\ Outside
  /\ UNCHANGED <<loopVars, shared, session, lost, saved, reported>>

\* The matched finger is reported with mGid as it is now.
TellMatch ==
  /\ wpc = "tell" /\ running = "Authenticate" /\ outcome = "done" /\ ~failed
  /\ wpc' = "end"
  /\ Answer /\ reported' = About(mGid, result.id)
  /\ Outside
  /\ UNCHANGED <<loopVars, shared, session, lost, saved>>

\* Mutant: the last progress report goes out before the print is saved.
FinishEnrollEarly ==
  /\ running = "Enroll" /\ wpc' = "end"
  /\ \/ /\ wpc = "tell" /\ outcome = "done" /\ ~failed
        /\ Answer /\ reported' = About(mGid, mNewPrintId) /\ UNCHANGED saved
     \/ /\ wpc = "end" /\ reported # Nobody /\ saved = Nobody
        /\ saved' = About(mGid, mNewPrintId)
        /\ UNCHANGED <<answers, accepted, reported>>
  /\ Outside
  /\ UNCHANGED <<loopVars, shared, session, lost>>

\* SaveEnrolledPrint(mGid, mNewPrintId), whose failure is only logged, and then
\* the last progress report, which reads mGid and mNewPrintId again.
FinishEnroll ==
  /\ running = "Enroll"
  /\ \/ /\ wpc = "tell" /\ outcome = "done" /\ ~failed
        /\ wpc' = "notify"
        /\ saved' \in {Nobody, About(mGid, mNewPrintId)}
        /\ UNCHANGED <<answers, accepted, reported>>
     \/ /\ wpc = "notify" /\ wpc' = "end"
        /\ Answer /\ reported' = About(mGid, mNewPrintId) /\ UNCHANGED saved
  /\ Outside
  /\ UNCHANGED <<loopVars, shared, session, lost>>

\* Neither canceled nor timed out, no rc, nothing done: nobody is told.
TellNobody ==
  /\ wpc = "tell" /\ outcome = "none" /\ ~failed
  /\ wpc' = "end"
  /\ lost' = IF answers = 0 THEN slot \notin Sessions ELSE lost
  /\ Outside /\ UNCHANGED <<loopVars, shared, session, told>>

SessionEnd ==
  /\ wpc = "end"
  /\ wpc' = "loop" /\ FreshLoop("Idle")
  /\ answers' = 0 /\ saved' = Nobody /\ reported' = Nobody
  /\ session' = IF slot \in Sessions \/ bpc = "post" THEN session ELSE Nobody
  /\ Outside /\ UNCHANGED <<shared, lost, accepted>>

-------------------------------------------------------------------------------
Client ==
  \/ \E op \in Challenges : Authenticate(op)
  \/ \E id \in Prints : Enroll(id)
  \/ \E g \in Groups : SetActiveGroup(g)
  \/ Cancel \/ PostEnroll

ImageTaken == ImageUsable \/ ImageUseless \/ ImageBad

Worker ==
  \/ Take \/ GetNavEvent \/ IdleEnds \/ InitializeSession \/ LoopHead
  \/ CommandError \/ DetectMode \/ WaitEvent
  \/ ImageTaken \/ Identify \/ TellIdentified \/ EnrollStep \/ FingerLost
  \/ Finalize \/ ClearChallenge \/ TellError \/ TellMatch \/ FinishEnroll
  \/ TellNobody \/ SessionEnd

Sensor == Gesture \/ WaitFinger \/ WaitTimeout \/ WaitError

Next == Client \/ PostSession \/ Worker \/ Sensor \/ Die

\* Both threads are scheduled and the TZ app answers; after a reset GetImage does
\* not return 99 for ever, and epoll_wait does not fail for ever.  No finger is owed,
\* and the framework need not call.
Spec == Init /\ [][Next]_vars /\ WF_vars(PostSession) /\ WF_vars(Worker)
             /\ SF_vars(ImageTaken) /\ SF_vars(IdleEnds)

-------------------------------------------------------------------------------
(* Properties.                                                                *)

\* Both threads rest.
Rest == wpc \in {"idle", "gesture"} /\ slot = "Invalid" /\ bpc = "out"

\* When both threads rest, a client that was told SYS_OK has had a final callback,
\* unless its request was overridden before the worker took it, or its session
\* went through the last branch of AuthenticateAsync, which tells nobody.
AnsweredUnlessLost == Rest /\ accepted => lost

Phase == IF wpc \in Between THEN "none" ELSE IF wpc = "end" THEN "closing" ELSE "open"

\* The sessions are those of FingerprintSession with all its faults: a request that is
\* overridden before the worker takes it is dropped; the last branch of a session tells
\* nobody; and a loop that has told of a finger, or of an enrolment of which nothing
\* remains, may go on to tell more.  A crash leaves no one waiting.
Promise == INSTANCE FingerprintSession WITH
  Faults <- {"overridden", "untold", "twice"},
  wanted <- slot \in Sessions,
  phase <- Phase,
  awaiting <- accepted

ImplementsSession == Promise!Spec

\* A success is about the group and the operation id or print id that the client
\* asked with, and a match was looked for in that group, although the session
\* reads them without a lock; unless a call came in the middle of a session, be it
\* after a first success of a loop that goes on.
SuccessNamesItsSession ==
  [][reported' \notin {reported, Nobody} /\ session # Nobody =>
       /\ reported' = session
       /\ running = "Authenticate" => result = session]_vars

\* The print an enrolment reports at its end is the one it saved, if saving succeeded,
\* unless a call came in the middle of it; the postEnroll of a client that has had that
\* report is none.
PrintSavedAsReported ==
  [][<<saved, reported>>' # <<saved, reported>> /\ Nobody \notin {saved', reported'}
     /\ session # Nobody => saved' = reported']_vars

\* A request reaches the worker whatever the session is doing: forced retries
\* delay it but do not hold it off for ever.
RequestServed == (slot # "Invalid") ~> (slot = "Invalid")

===============================================================================
