------------------------------ MODULE EgisLegacy ------------------------------
(***************************************************************************)
(* The legacy Egistec HAL (hidl/fp/egistec/legacy): EgisOperationLoops     *)
(* runs enroll and authenticate sessions on the worker thread, and one     *)
(* binder thread runs the calls of the framework.  They meet in the worker *)
(* mailbox, in the ION buffer lock (GetLockedAPI), which a session holds   *)
(* from its first to its last command, in mClientCallbackMutex, and in     *)
(* mGid and mCurrentChallenge, which no lock protects.                     *)
(*                                                                         *)
(* The worker thread is used as module Mailbox describes it.  The TZ app   *)
(* is external: each command returns any of the codes the HAL tells apart. *)
(***************************************************************************)
EXTENDS Naturals, Sequences

CONSTANTS Challenges,   \* operation ids a client authenticates with
          Groups,       \* gids
          NoChallenge   \* the zeroed mCurrentChallenge

ASSUME LegacyAssumption == NoChallenge \notin Challenges

VARIABLES
  slot,               \* the worker's pending request, "Invalid" if none
  running,            \* the handler the worker is in
  wpc,                \* where that handler is
  todo,               \* notifications it must deliver before it goes on
  passed,             \* AuthenticateAsync's `authenticated`, EnrollAsync's `finished`
  token,              \* challenge of the token being reported
  ionLock,            \* owner of the ION buffer
  mClientCallbackMutex,
  bpc, bop, barg,     \* the binder thread: position, call, argument
  mGid, mCurrentChallenge,
  teeGid,             \* TZ app: group whose templates are loaded
  teeChallenge,       \* TZ app: challenge of the last auth token
  idStale,            \* history: the set of prints changed, mAuthenticatorId did not
  accepted,           \* history: the client awaits the end of a session
  answers,            \* history: the final callbacks that the worker's session has
                      \* made: none, one, or more (2)
  failed,             \* history: one of them told of a failure
  lost,               \* history: the one that the client awaits will not come
  overlap,            \* history: the last call came while a session was live
  groupFailed,        \* history: the last setActiveGroup returned an error
  session,            \* history: group and challenge of the session's request
  matched,            \* history: the TZ app accepted a finger in this session
  reported            \* history: what the last success told the client

binderVars == <<bpc, bop, barg>>
workerVars == <<running, wpc, todo, passed, token>>
told == <<answers, failed>>
history == <<accepted, told, lost, overlap, groupFailed, session, matched, reported>>
vars == <<slot, workerVars, ionLock, mClientCallbackMutex, binderVars, mGid,
          mCurrentChallenge, teeGid, teeChallenge, idStale, history>>

Sessions == {"Authenticate", "Enroll"}
Owners == {"none", "binder", "worker"}
Nobody == [gid |-> "none", challenge |-> NoChallenge]
Notes == {"acquired", "nomatch", "progress", "enrolled", "success", "error",
          "canceled", "timeout"}

\* The callbacks after which the framework takes the session for over.
Successes == {"enrolled", "success"}
Failures == {"error", "canceled", "timeout"}
Terminal == Successes \cup Failures

Flags ==
  /\ passed \in BOOLEAN /\ idStale \in BOOLEAN
  /\ accepted \in BOOLEAN /\ failed \in BOOLEAN /\ lost \in BOOLEAN /\ overlap \in BOOLEAN
  /\ groupFailed \in BOOLEAN /\ matched \in BOOLEAN

TypeOK ==
  /\ Flags
  /\ slot \in Sessions \cup {"Idle", "Invalid"}
  /\ running \in Sessions \cup {"Idle"}
  /\ wpc \in {"idle", "lock", "init", "step", "wait", "finalize", "off", "wipe", "rand", "end"}
  /\ todo \in Seq(Notes) /\ Len(todo) <= 2
  /\ token \in Challenges \cup {NoChallenge}
  /\ ionLock \in Owners /\ mClientCallbackMutex \in Owners \ {"worker"}
  /\ answers \in 0 .. 2
  /\ bpc \in {"out", "ion", "post", "enumerate", "notify", "rand",
              "randerr", "error"}
  /\ bop \in {"none", "authenticate", "enroll", "setActiveGroup", "enumerate",
              "remove", "tz"}
  /\ mGid \in Groups /\ teeGid \in Groups
  /\ barg \in Challenges \cup {NoChallenge}
  /\ mCurrentChallenge \in Challenges \cup {NoChallenge}
  /\ teeChallenge \in Challenges \cup {NoChallenge}

Init ==
  /\ slot = "Invalid" /\ running = "Idle" /\ wpc = "idle" /\ todo = <<>>
  /\ passed = FALSE /\ token = NoChallenge
  /\ ionLock = "none" /\ mClientCallbackMutex = "none"
  /\ bpc = "out" /\ bop = "none" /\ barg = NoChallenge
  /\ \E g \in Groups : mGid = g /\ teeGid = g
  /\ mCurrentChallenge = NoChallenge /\ teeChallenge = NoChallenge
  /\ idStale = FALSE
  /\ accepted = FALSE /\ answers = 0 /\ failed = FALSE /\ lost = FALSE /\ overlap = FALSE
  /\ groupFailed = FALSE /\ matched = FALSE
  /\ session = Nobody /\ reported = Nobody

\* A session is on its way to the worker or in it.
Live == slot \in Sessions \/ wpc # "idle"

-------------------------------------------------------------------------------
(* The binder thread: one call at a time.                                     *)

Enter(op, at) == /\ bpc = "out"
                 /\ bpc' = at /\ bop' = op

\* A call is over; its locals are gone.
Return == bpc' = "out" /\ bop' = "none" /\ barg' = NoChallenge

Post(s) ==
  /\ slot' = s
  /\ accepted' = TRUE /\ lost' = FALSE /\ matched' = FALSE /\ reported' = Nobody
  /\ session' = [gid |-> mGid, challenge |-> barg]

\* Authenticate() fills mCurrentChallenge before it takes any lock.
Authenticate(ch) ==
  /\ Enter("authenticate", "ion")
  /\ barg' = ch
  /\ mCurrentChallenge' = ch
  /\ overlap' = Live
  /\ UNCHANGED <<slot, workerVars, ionLock, mClientCallbackMutex, mGid, teeGid,
                 teeChallenge, idStale, accepted, told, lost, groupFailed,
                 session, matched, reported>>

\* Mutant: the new auth token is not sent to the TZ app.
AuthenticateNoToken ==
  /\ bop = "authenticate" /\ bpc = "ion" /\ ionLock = "none"
  /\ bpc' = "post"
  /\ UNCHANGED <<slot, workerVars, ionLock, mClientCallbackMutex, bop, barg, mGid,
                 mCurrentChallenge, teeGid, teeChallenge, idStale, history>>

\* SetAuthToken(mCurrentChallenge), with whatever mCurrentChallenge holds by then.
AuthenticateToken ==
  /\ bop = "authenticate" /\ bpc = "ion" /\ ionLock = "none"
  /\ \/ bpc' = "post" /\ teeChallenge' = mCurrentChallenge
     \/ bpc' = "error" /\ UNCHANGED teeChallenge
  /\ UNCHANGED <<slot, workerVars, ionLock, mClientCallbackMutex, bop, barg, mGid,
                 mCurrentChallenge, teeGid, idStale, history>>

AuthenticatePost ==
  /\ bop = "authenticate" /\ bpc = "post"
  /\ Post("Authenticate")
  /\ Return
  /\ UNCHANGED <<workerVars, ionLock, mClientCallbackMutex, mGid, mCurrentChallenge,
                 teeGid, teeChallenge, idStale, told, overlap, groupFailed>>

\* Calls that take the ION lock first: Enroll, RemoveFinger, and preEnroll and
\* postEnroll ("tz"), which only ask the TZ app something.
CallTz(op) ==
  /\ Enter(op, "ion")
  /\ overlap' = IF op = "enroll" THEN Live ELSE overlap
  /\ UNCHANGED <<slot, workerVars, ionLock, mClientCallbackMutex, barg, mGid,
                 mCurrentChallenge, teeGid, teeChallenge, idStale, accepted,
                 told, lost, groupFailed, session, matched, reported>>

\* Enroll() sends its three commands and posts the session under one lock.  On
\* an error it notifies the client while it still owns the buffer.
EnrollLocked ==
  /\ bop = "enroll" /\ bpc = "ion" /\ ionLock = "none"
  /\ teeChallenge' = NoChallenge
  /\ \/ Post("Enroll") /\ Return /\ UNCHANGED ionLock
     \/ /\ bpc' = "error" /\ ionLock' = "binder"
        /\ UNCHANGED <<slot, accepted, lost, matched, session, reported, bop, barg>>
  /\ UNCHANGED <<workerVars, mClientCallbackMutex, mGid, mCurrentChallenge, teeGid,
                 idStale, told, overlap, groupFailed>>

\* NotifyError at the end of a failed call.
CallError ==
  /\ bpc = "error" /\ mClientCallbackMutex = "none"
  /\ ionLock' = IF ionLock = "binder" THEN "none" ELSE ionLock
  /\ Return
  /\ UNCHANGED <<slot, workerVars, mClientCallbackMutex, mGid, mCurrentChallenge,
                 teeGid, teeChallenge, idStale, history>>

TzDone ==
  /\ bop = "tz" /\ bpc = "ion" /\ ionLock = "none"
  /\ Return
  /\ UNCHANGED <<slot, workerVars, ionLock, mClientCallbackMutex, mGid,
                 mCurrentChallenge, teeGid, teeChallenge, idStale, history>>

\* SetUserDataPath() changes mGid before it waits for the buffer.
SetActiveGroup(g) ==
  /\ Enter("setActiveGroup", "ion")
  /\ mGid' = g
  /\ overlap' = Live
  /\ UNCHANGED <<slot, workerVars, ionLock, mClientCallbackMutex, barg,
                 mCurrentChallenge, teeGid, teeChallenge, idStale, accepted,
                 told, lost, groupFailed, session, matched, reported>>

SetUserDataPath ==
  /\ bop = "setActiveGroup" /\ bpc = "ion" /\ ionLock = "none"
  /\ \/ teeGid' = mGid /\ groupFailed' = FALSE
     \/ groupFailed' = TRUE /\ UNCHANGED teeGid
  /\ Return
  /\ UNCHANGED <<slot, workerVars, ionLock, mClientCallbackMutex, mGid,
                 mCurrentChallenge, teeChallenge, idStale, accepted, told, lost,
                 overlap, session, matched, reported>>

\* Cancel() and nothing else posts Idle; the thread does the cancelling.
Cancel ==
  /\ bpc = "out"
  /\ slot' = "Idle"
  /\ lost' = (lost \/ slot \in Sessions)
  /\ UNCHANGED <<workerVars, ionLock, mClientCallbackMutex, binderVars, mGid,
                 mCurrentChallenge, teeGid, teeChallenge, idStale, accepted, told,
                 overlap, groupFailed, session, matched, reported>>

\* Enumerate() takes mClientCallbackMutex first and the ION lock second.
Enumerate ==
  /\ Enter("enumerate", "enumerate")
  /\ mClientCallbackMutex = "none"
  /\ mClientCallbackMutex' = "binder"
  /\ UNCHANGED <<slot, workerVars, ionLock, barg, mGid, mCurrentChallenge, teeGid,
                 teeChallenge, idStale, history>>

EnumerateList ==
  /\ bop = "enumerate" /\ ionLock = "none"
  /\ mClientCallbackMutex' = "none"
  /\ Return
  /\ UNCHANGED <<slot, workerVars, ionLock, mGid, mCurrentChallenge, teeGid,
                 teeChallenge, idStale, history>>

\* RemoveFinger(): one locked command and one notification per finger, a new
\* authenticator id, and an error if a command failed.  Without the finger list,
\* before the first finger, it returns at once.
RemoveLocked ==
  /\ bop = "remove" /\ bpc = "ion" /\ ionLock = "none"
  /\ \/ bpc' = "notify" /\ idStale' = TRUE /\ UNCHANGED <<bop, barg>>
     \/ bpc' = "randerr" /\ UNCHANGED <<idStale, bop, barg>>
     \/ Return /\ ~idStale /\ UNCHANGED idStale
  /\ UNCHANGED <<slot, workerVars, ionLock, mClientCallbackMutex, mGid,
                 mCurrentChallenge, teeGid, teeChallenge, history>>

RemoveNotify ==
  /\ bpc = "notify" /\ mClientCallbackMutex = "none"
  /\ bpc' \in {"ion", "rand"}
  /\ UNCHANGED <<slot, workerVars, ionLock, mClientCallbackMutex, bop, barg, mGid,
                 mCurrentChallenge, teeGid, teeChallenge, idStale, history>>

RemoveRand ==
  /\ bpc \in {"rand", "randerr"} /\ ionLock = "none"
  /\ idStale' = FALSE
  /\ \/ bpc = "rand" /\ Return
     \/ bpc = "randerr" /\ bpc' = "error" /\ UNCHANGED <<bop, barg>>
  /\ UNCHANGED <<slot, workerVars, ionLock, mClientCallbackMutex, mGid,
                 mCurrentChallenge, teeGid, teeChallenge, history>>

-------------------------------------------------------------------------------
(* The worker thread.                                                         *)

\* What no step of a session changes.
SessionFrame == UNCHANGED <<slot, mClientCallbackMutex, binderVars, mGid, teeGid,
                            teeChallenge, accepted, told, lost, overlap,
                            groupFailed, session>>

Take ==
  /\ wpc = "idle" /\ slot # "Invalid"
  /\ slot' = "Invalid"
  /\ running' = slot
  /\ wpc' = IF slot \in Sessions THEN "lock" ELSE "idle"
  /\ UNCHANGED <<todo, passed, token, ionLock, mClientCallbackMutex, binderVars, mGid,
                 mCurrentChallenge, teeGid, teeChallenge, idStale, history>>

LockSession ==
  /\ wpc = "lock" /\ ionLock = "none"
  /\ ionLock' = "worker"
  /\ wpc' = "init" /\ passed' = FALSE
  /\ SessionFrame
  /\ UNCHANGED <<running, todo, token, mCurrentChallenge, idStale, matched, reported>>

At(place) == wpc = place /\ todo = <<>>

Then(place, notes) ==
  /\ wpc' = place /\ todo' = notes
  /\ SessionFrame
  /\ UNCHANGED <<running, token, ionLock, mCurrentChallenge, idStale, reported>>

\* The three command loops look for an event before every command.  RunCancel
\* tells the client, whatever the TZ app answers.
CancelSession ==
  /\ \E place \in {"init", "step", "finalize"} : At(place)
  /\ slot # "Invalid"
  /\ Then("end", <<"canceled">>)
  /\ UNCHANGED <<passed, matched>>

\* Mutant: the caller of ConvertAndCheckError does not return.
CommandErrorGoesOn ==
  /\ \E place \in {"init", "step", "finalize"} : At(place) /\ Then(place, <<"error", "canceled">>)
  /\ slot = "Invalid"
  /\ UNCHANGED <<passed, matched>>

\* ConvertAndCheckError reports the error and cancels as well.
CommandError ==
  /\ \E place \in {"init", "step", "finalize"} : At(place)
  /\ slot = "Invalid"
  /\ Then("end", <<"error", "canceled">>)
  /\ UNCHANGED <<passed, matched>>

NoFingerprints ==
  /\ At("init") /\ running = "Authenticate" /\ slot = "Invalid"
  /\ Then("end", <<"error">>)
  /\ UNCHANGED <<passed, matched>>

InitDone ==
  /\ At("init") /\ slot = "Invalid"
  /\ Then("step", <<>>)
  /\ UNCHANGED <<passed, matched>>

\* A step that asks for another one: an image was taken, or was not usable, or
\* (authenticating) did not match.
StepAgain ==
  /\ At("step") /\ slot = "Invalid"
  /\ \E note \in {"acquired"} \cup IF running = "Authenticate" THEN {"nomatch"} ELSE {} :
       Then("step", <<note>>)
  /\ UNCHANGED <<passed, matched>>

StepWait ==
  /\ At("step") /\ slot = "Invalid"
  /\ Then("wait", <<>>)
  /\ UNCHANGED <<passed, matched>>

\* Mutant: the finger is waited for with poll on the sensor alone.
WaitEndsDeaf ==
  /\ At("wait") /\ slot = "Invalid"
  /\ Then("step", <<>>)
  /\ UNCHANGED <<passed, matched>>

\* waitForEvent: an event goes before a finger; only enrolling has a time-out.
WaitEnds ==
  /\ At("wait")
  /\ Then("step", <<>>)
  /\ UNCHANGED <<passed, matched>>

WaitTimeout ==
  /\ At("wait") /\ running = "Enroll" /\ slot = "Invalid"
  /\ Then("end", <<"canceled", "timeout">>)
  /\ UNCHANGED <<passed, matched>>

\* epoll_wait fails (EINTR), which waitForEvent reports as a time-out.
WaitError ==
  /\ At("wait")
  /\ Then("end", <<"canceled", "timeout">>)
  /\ UNCHANGED <<passed, matched>>

\* Step Done with rc = 0: the finger matched.
Match ==
  /\ At("step") /\ running = "Authenticate" /\ slot = "Invalid"
  /\ Then("finalize", <<>>)
  /\ passed' = TRUE /\ matched' = TRUE

\* Another rc: an unknown finger, a bad image, or nothing that is told.
NoMatch ==
  /\ At("step") /\ running = "Authenticate" /\ slot = "Invalid"
  /\ \E notes \in {<<>>, <<"nomatch">>, <<"acquired">>} : Then("finalize", notes)
  /\ passed' = FALSE /\ UNCHANGED matched

\* Step Done while enrolling.  The TZ app's enroll_status finishes the enrolment,
\* whatever rc is, but only with rc = 0 is the client told what remains: nothing after
\* the last image, and perhaps nothing although the enrolment goes on.
EnrollStep ==
  /\ At("step") /\ running = "Enroll" /\ slot = "Invalid"
  /\ passed' \in BOOLEAN
  /\ \/ Then("finalize", <<"enrolled">>)
     \/ Then("finalize", <<"progress">>) /\ ~passed'
     \/ \E notes \in {<<>>, <<"acquired">>} : Then("finalize", notes)
  /\ UNCHANGED matched

FinalizeDone ==
  /\ At("finalize") /\ slot = "Invalid"
  /\ wpc' = IF running = "Authenticate" THEN "off" ELSE IF passed THEN "rand" ELSE "init"
  /\ idStale' = (idStale \/ (running = "Enroll" /\ passed))
  /\ SessionFrame
  /\ UNCHANGED <<running, todo, passed, token, ionLock, mCurrentChallenge, matched,
                 reported>>

\* Mutant: a finger that is not known ends the session.
FingerOffEnds ==
  /\ At("off")
  /\ IF passed THEN wpc' = "wipe" /\ todo' = <<"success">> /\ token' = mCurrentChallenge
              ELSE wpc' = "end" /\ UNCHANGED <<todo, token>>
  /\ SessionFrame
  /\ UNCHANGED <<running, passed, ionLock, mCurrentChallenge, idStale, matched, reported>>

\* The loop that waits for the finger to leave asks for no event.  After it the
\* success is reported with a copy of mCurrentChallenge.
FingerOff ==
  /\ At("off")
  /\ IF passed THEN wpc' = "wipe" /\ todo' = <<"success">> /\ token' = mCurrentChallenge
              ELSE wpc' = "init" /\ UNCHANGED <<todo, token>>
  /\ SessionFrame
  /\ UNCHANGED <<running, passed, ionLock, mCurrentChallenge, idStale, matched, reported>>

\* The last line of AuthenticateAsync, whoever has written the field meanwhile.
WipeChallenge ==
  /\ At("wipe")
  /\ wpc' = "end" /\ mCurrentChallenge' = NoChallenge
  /\ SessionFrame
  /\ UNCHANGED <<running, todo, passed, token, ionLock, idStale, matched, reported>>

\* What is lost by the end of an enrolment that has told nobody.
EndUntold == lost' = IF answers = 0 THEN slot \notin Sessions ELSE lost

\* Mutant: the authenticator id survives an enrolment.
EnrollNoRand ==
  /\ At("rand")
  /\ wpc' = "end" /\ EndUntold
  /\ UNCHANGED <<slot, running, todo, passed, token, ionLock, mClientCallbackMutex,
                 binderVars, mGid, mCurrentChallenge, teeGid, teeChallenge, idStale,
                 accepted, told, overlap, groupFailed, session, matched, reported>>

\* EnrollAsync ends with a new authenticator id, and may have told nobody.
EnrollRand ==
  /\ At("rand")
  /\ wpc' = "end" /\ idStale' = FALSE /\ EndUntold
  /\ UNCHANGED <<slot, running, todo, passed, token, ionLock, mClientCallbackMutex,
                 binderVars, mGid, mCurrentChallenge, teeGid, teeChallenge, accepted,
                 told, overlap, groupFailed, session, matched, reported>>

\* One callback under mClientCallbackMutex.
Notify ==
  /\ todo # <<>> /\ mClientCallbackMutex = "none"
  /\ todo' = Tail(todo)
  /\ failed' = (failed \/ Head(todo) \in Failures)
  /\ IF Head(todo) \in Terminal
     THEN accepted' = FALSE /\ answers' = (IF answers = 0 THEN 1 ELSE 2)
     ELSE UNCHANGED <<accepted, answers>>
  /\ IF Head(todo) = "success"
     THEN reported' = [gid |-> mGid, challenge |-> token] /\ token' = NoChallenge
     ELSE UNCHANGED <<reported, token>>
  /\ UNCHANGED <<slot, running, wpc, passed, ionLock, mClientCallbackMutex, binderVars,
                 mGid, mCurrentChallenge, teeGid, teeChallenge, idStale, lost, overlap,
                 groupFailed, session, matched>>

\* The handler returns, its locked buffer is released, the worker is idle again.
SessionEnd ==
  /\ At("end")
  /\ wpc' = "idle" /\ running' = "Idle" /\ passed' = FALSE /\ ionLock' = "none"
  /\ answers' = 0 /\ failed' = FALSE
  /\ UNCHANGED <<slot, todo, token, mClientCallbackMutex, binderVars, mGid,
                 mCurrentChallenge, teeGid, teeChallenge, idStale, accepted, lost,
                 overlap, groupFailed, session, matched, reported>>

-------------------------------------------------------------------------------
Client ==
  \/ \E ch \in Challenges : Authenticate(ch)
  \/ \E op \in {"enroll", "remove", "tz"} : CallTz(op)
  \/ \E g \in Groups : SetActiveGroup(g)
  \/ Cancel
  \/ Enumerate

Binder ==
  \/ AuthenticateToken \/ AuthenticatePost \/ EnrollLocked \/ CallError \/ TzDone
  \/ SetUserDataPath \/ EnumerateList \/ RemoveLocked \/ RemoveNotify \/ RemoveRand

Worker ==
  \/ Take \/ LockSession \/ CancelSession \/ CommandError \/ NoFingerprints
  \/ InitDone \/ StepAgain \/ StepWait \/ WaitTimeout \/ Match
  \/ NoMatch \/ EnrollStep \/ FinalizeDone \/ FingerOff
  \/ WipeChallenge \/ EnrollRand \/ Notify \/ SessionEnd
  \/ slot # "Invalid" /\ WaitEnds

Sensor == (slot = "Invalid" /\ WaitEnds) \/ WaitError

\* Enumerate() owns mClientCallbackMutex and waits for the buffer of a session
\* that waits for mClientCallbackMutex.
LockCycle == bop = "enumerate" /\ ionLock = "worker" /\ todo # <<>>

Deadlocked == LockCycle /\ UNCHANGED vars

Next == Client \/ Binder \/ Worker \/ Sensor \/ Deadlocked

\* Both threads are scheduled, the TZ app answers, and the worker gets a mutex in
\* the end that the binder thread takes and releases over and over.  No finger is
\* owed, and the framework need not call.
Spec == Init /\ [][Next]_vars /\ WF_vars(Binder) /\ SF_vars(Worker)

-------------------------------------------------------------------------------
(* Properties.                                                                *)

\* When nothing is running or pending any more, a client that was told SYS_OK has had
\* a final callback, unless a request overrode its session before the worker took it,
\* or its enrolment finished without one: then nothing ever answers.
AnsweredUnlessLost == accepted /\ ~Live /\ slot = "Invalid" /\ bpc = "out" => lost

\* A success names the group whose templates matched and carries the challenge of
\* the request that started the session, the one the TZ app signed, although mGid
\* and mCurrentChallenge are written without a lock; unless a call came in the
\* middle of a session, or setActiveGroup failed half-way.
SuccessNamesItsSession ==
  [][reported' \notin {reported, Nobody} /\ ~overlap /\ ~groupFailed =>
       /\ reported' = session
       /\ reported' = [gid |-> teeGid, challenge |-> teeChallenge]]_vars

Phase == IF wpc = "idle" THEN "none" ELSE IF At("end") THEN "closing" ELSE "open"

\* The sessions are those of FingerprintSession with all its faults: a request that is
\* overridden before the worker takes it is dropped; a failure is told twice, with the
\* cancellation of the session that it ends; and an enrolment whose last rc is not 0
\* finishes untold.  No other exit does.
Promise == INSTANCE FingerprintSession WITH
  Faults <- {"overridden", "untold", "twice"},
  wanted <- slot \in Sessions,
  phase <- Phase,
  awaiting <- accepted

ImplementsSession == Promise!Spec

\* More than one final callback may come, but in one order: the client never hears that
\* a finger matched, or was enrolled, after it was told that the session has failed; and
\* a match is the first final callback of its session.
SuccessComesFirst ==
  [][Notify /\ Head(todo) \in Successes =>
       ~failed /\ (Head(todo) = "success" => answers = 0)]_vars

\* Whenever both threads rest, mAuthenticatorId is newer than the last change of
\* the set of prints.
AuthenticatorIdFresh == bpc = "out" /\ ~Live => ~idStale

\* A cancel, and any other request, reaches the worker whatever the session is
\* doing, unless the two threads have locked each other out.
RequestServed == (slot # "Invalid") ~> (slot = "Invalid" \/ LockCycle)

\* The two threads never wait for each other's mutex.
NoLockCycle == ~LockCycle

\* What a comment in AuthenticateAsync asks for: a finger that matched results in
\* a success, even when finalize or cancel fails.
MatchIsReported == matched /\ wpc = "idle" /\ ~accepted => reported # Nobody
===============================================================================
