-------------------------------- MODULE FpcHal --------------------------------
(***************************************************************************)
(* The FPC HAL (hidl/fp/BiometricsFingerprint.cpp) over the library in      *)
(* fpc_imp_yoshino_nile_tama.c.  A call that needs the TZ app pauses the    *)
(* worker first (waitForState(Pause)) and resumes it afterwards, or sends   *)
(* it into a session and waits until it is there; getAuthenticatorId goes   *)
(* to the TZ app without.  A session owns mClientCallbackMutex throughout.  *)
(*                                                                          *)
(* The worker thread is used as module Mailbox describes it.  The TZ app is *)
(* external: which group's templates it holds, which challenge it signs.    *)
(***************************************************************************)
EXTENDS Naturals

CONSTANTS Challenges,   \* operation ids
          Groups,       \* gids; each has its own db_path
          None          \* no challenge, no database, no cached id

ASSUME FpcAssumption == None \notin Challenges \cup Groups

VARIABLES
  slot,               \* the worker's pending request, "Invalid" if none
  current,            \* the worker's state as waiters see it
  wpc,                \* where the worker is
  status,             \* last result of fpc_capture_image: good, other, error
  bpc, bop, barg,     \* the binder thread: position, call, argument
  mClientCallback,    \* registered
  gid, auth_challenge,
  db_path,            \* the group whose file it names
  auth_id,            \* the group whose id is cached
  teeDb, teeChallenge, \* TZ app
  idRead,             \* fpc_load_db_id: the id it got from the TZ app
  idStale,            \* history: the prints of auth_id or idRead changed since
  raced,              \* history: that happened between reading and caching
  session,            \* history: group and challenge of the last session request
  moved,              \* history: setActiveGroup was entered during a session
  unloaded,           \* history: loading the database failed, or was not tried
  reinit,             \* history: the TZ app was restarted in this session
  failedCall,         \* history: the last pausing call failed after it paused
  accepted,           \* history: the client awaits the end of a session
  answers,            \* history: the final callbacks that the session has made
  reported,           \* history: what the session told of its success
  misfiled            \* history: a database went to the file of another group

workerVars == <<current, wpc, status>>
binderVars == <<bpc, bop, barg>>
groupVars == <<gid, db_path, teeDb, unloaded>>
challengeVars == <<auth_challenge, teeChallenge>>
idVars == <<auth_id, idRead, idStale, raced>>
told == <<accepted, answers>>
history == <<session, moved, reinit, failedCall, told, reported, misfiled>>
vars == <<slot, workerVars, binderVars, mClientCallback, groupVars, challengeVars,
          idVars, history>>

Sessions == {"Authenticate", "Enroll"}
Nobody == [gid |-> None, challenge |-> None]
Outcomes == [gid : Groups \cup {None},
             challenge : Challenges \cup {None, "uninitialized"}]

Values ==
  /\ slot \in Sessions \cup {"Idle", "Pause", "Invalid"}
  /\ current \in Sessions \cup {"Idle", "Pause"}
  /\ wpc \in {"idle", "navi", "pause", "start", "capture", "captured", "step",
              "update", "unknown", "matched", "broken", "enrolled", "saved", "off", "end"}
  /\ status \in {"good", "other", "error"}
  /\ bpc \in {"out", "pausing", "command", "entering", "cache", "notify", "aborted"}
  /\ bop \in {"none", "authenticate", "enroll", "setActiveGroup", "remove",
              "enumerate", "getAuthenticatorId", "setNotify"}
  /\ barg \in Challenges \cup Groups \cup {None}
  /\ bop = "authenticate" => barg \in Challenges \cup {None}
  /\ gid \in Groups /\ db_path \in Groups
  /\ teeDb \in Groups \cup {None} /\ auth_id \in Groups \cup {None}
  /\ idRead \in Groups \cup {None}
  /\ auth_challenge \in Challenges \cup {None} /\ teeChallenge \in Challenges \cup {None}
  /\ session \in Outcomes /\ reported \in Outcomes
  /\ answers \in Nat

Flags ==
  /\ mClientCallback \in BOOLEAN /\ idStale \in BOOLEAN /\ raced \in BOOLEAN
  /\ moved \in BOOLEAN /\ unloaded \in BOOLEAN /\ reinit \in BOOLEAN
  /\ failedCall \in BOOLEAN /\ accepted \in BOOLEAN /\ misfiled \in BOOLEAN

TypeOK == Values /\ Flags

\* The constructor has run, and the framework has set its group.
Init ==
  /\ slot = "Invalid" /\ current = "Idle" /\ wpc = "idle" /\ status = "other"
  /\ bpc = "out" /\ bop = "none" /\ barg = None
  /\ mClientCallback = FALSE
  /\ \E g \in Groups : gid = g /\ db_path = g /\ teeDb = g
  /\ unloaded = FALSE
  /\ auth_challenge = None /\ teeChallenge = None
  /\ auth_id = None /\ idRead = None /\ idStale = FALSE /\ raced = FALSE
  /\ session = Nobody /\ moved = FALSE /\ reinit = FALSE /\ failedCall = FALSE
  /\ accepted = FALSE /\ answers = 0 /\ reported = Nobody /\ misfiled = FALSE

\* The worker is in AuthenticateAsync or EnrollAsync and owns mClientCallbackMutex.
InSession == wpc \notin {"idle", "navi", "pause"}

\* The prints of the loaded group change and the cached id is dropped; an id that
\* is on its way into the cache is not.
PrintsChange ==
  /\ auth_id' = None
  /\ raced' = (idRead # None /\ (raced \/ idRead = teeDb))
  /\ idStale' = (teeDb # None /\ teeDb \in {idRead, auth_id'})
  /\ UNCHANGED idRead

\* fpc_store_user_db(db_path).  That the file is another group's counts unless
\* setActiveGroup came in the middle of the session or could not load a database.
StoreDb == misfiled' = (misfiled \/ (teeDb # db_path /\ ~moved /\ ~unloaded))

-------------------------------------------------------------------------------
(* The binder thread: one call at a time.                                     *)

\* A call that starts with Pause().
Pausing(op, arg) ==
  /\ bpc = "out"
  /\ bpc' = "pausing" /\ bop' = op /\ barg' = arg
  /\ slot' = "Pause"
  /\ UNCHANGED <<workerVars, mClientCallback, challengeVars, idVars, teeDb, unloaded,
                 session, reinit, failedCall, told, reported, misfiled>>

Request(op) ==
  /\ op \in {"remove", "enumerate"} => mClientCallback
  /\ Pausing(op, None)
  /\ UNCHANGED <<gid, db_path, moved>>

Authenticate(ch) == Pausing("authenticate", ch) /\ UNCHANGED <<gid, db_path, moved>>

\* db_path and gid change before the worker is paused.
SetActiveGroup(g) ==
  /\ Pausing("setActiveGroup", g)
  /\ db_path' = g /\ gid' = g
  /\ moved' = InSession

\* Mutant: Pause() does not wait for the worker.
AwaitPauseNot ==
  /\ bpc = "pausing"
  /\ bpc' = "command"
  /\ UNCHANGED <<slot, workerVars, bop, barg, mClientCallback, groupVars, challengeVars,
                 idVars, history>>

AwaitPause ==
  /\ bpc = "pausing" /\ current = "Pause"
  /\ bpc' = "command"
  /\ UNCHANGED <<slot, workerVars, bop, barg, mClientCallback, groupVars, challengeVars,
                 idVars, history>>

Return == bpc' = "out" /\ bop' = "none" /\ barg' = None

\* Resume() and return.
Resume == slot' = "Idle" /\ failedCall' = FALSE /\ Return

\* A failed enroll or authenticate returns without Resume().
ReturnPaused == failedCall' = TRUE /\ Return /\ UNCHANGED slot

\* waitForState(s) after the TZ app accepted the challenge or the token.
EnterSession(s) ==
  /\ slot' = s /\ bpc' = "entering" /\ failedCall' = FALSE
  /\ barg' = None /\ UNCHANGED bop

Command(op) == bpc = "command" /\ bop = op

\* Mutant: the challenge is kept for the HAL only.
AuthenticateCommandLocal ==
  /\ Command("authenticate")
  /\ auth_challenge' = barg /\ UNCHANGED teeChallenge
  /\ EnterSession("Authenticate")
  /\ accepted' = TRUE /\ reported' = Nobody
  /\ session' = [gid |-> gid, challenge |-> barg]
  /\ UNCHANGED <<workerVars, mClientCallback, groupVars, idVars, moved, reinit, answers,
                 misfiled>>

\* fpc_set_auth_challenge
AuthenticateCommand ==
  /\ Command("authenticate")
  /\ auth_challenge' = barg
  /\ \/ /\ teeChallenge' = barg
        /\ EnterSession("Authenticate")
        /\ accepted' = TRUE /\ reported' = Nobody
        /\ session' = [gid |-> gid, challenge |-> barg]
     \/ ReturnPaused /\ UNCHANGED <<teeChallenge, accepted, reported, session>>
  /\ UNCHANGED <<workerVars, mClientCallback, groupVars, idVars, moved, reinit, answers,
                 misfiled>>

\* fpc_verify_auth_challenge
EnrollCommand ==
  /\ Command("enroll")
  /\ \/ /\ EnterSession("Enroll")
        /\ accepted' = TRUE /\ reported' = Nobody
        /\ session' = [gid |-> gid, challenge |-> None]
     \/ ReturnPaused /\ UNCHANGED <<accepted, reported, session>>
  /\ UNCHANGED <<workerVars, mClientCallback, groupVars, challengeVars, idVars, moved,
                 reinit, answers, misfiled>>

\* Mutant: a failure to load the database returns at once, as in enroll.
GroupCommandReturns ==
  /\ Command("setActiveGroup")
  /\ moved' = FALSE
  /\ \/ Resume /\ teeDb' = db_path /\ unloaded' = FALSE
     \/ Return /\ UNCHANGED <<slot, failedCall, teeDb>> /\ unloaded' = TRUE
  /\ UNCHANGED <<workerVars, mClientCallback, gid, db_path, challengeVars, idVars, session,
                 reinit, told, reported, misfiled>>

\* Mutant: the database is loaded only if none is.
GroupCommandKeeps ==
  /\ Command("setActiveGroup")
  /\ moved' = FALSE
  /\ Resume
  /\ teeDb' = (IF teeDb = None THEN db_path ELSE teeDb) /\ unloaded' = FALSE
  /\ UNCHANGED <<workerVars, mClientCallback, gid, db_path, challengeVars, idVars, session,
                 reinit, told, reported, misfiled>>

\* __setActiveGroup: load the database that db_path names, or create it.
GroupCommand ==
  /\ Command("setActiveGroup")
  /\ moved' = FALSE
  /\ Resume
  /\ \/ teeDb' = db_path /\ unloaded' = FALSE
     \/ UNCHANGED teeDb /\ unloaded' = TRUE
  /\ UNCHANGED <<workerVars, mClientCallback, gid, db_path, challengeVars, idVars, session,
                 reinit, told, reported, misfiled>>

\* Each deletion drops the cached id; the database is misfiled if all succeeded.
RemoveCommand ==
  /\ Command("remove")
  /\ Resume
  /\ \/ PrintsChange /\ (StoreDb \/ UNCHANGED misfiled)
     \/ UNCHANGED <<idVars, misfiled>>
  /\ UNCHANGED <<workerVars, mClientCallback, groupVars, challengeVars, session, moved,
                 reinit, told, reported>>

EnumerateCommand ==
  /\ Command("enumerate")
  /\ Resume
  /\ UNCHANGED <<workerVars, mClientCallback, groupVars, challengeVars, idVars, session,
                 moved, reinit, told, reported, misfiled>>

AwaitSession ==
  /\ bpc = "entering" /\ current \in Sessions
  /\ Return
  /\ UNCHANGED <<slot, workerVars, mClientCallback, groupVars, challengeVars, idVars,
                 history>>

\* The session ended before the waiter looked: it times out and aborts.
Abort ==
  /\ bpc = "entering" /\ slot = "Invalid" /\ current \notin Sessions
  /\ bpc' = "aborted"
  /\ UNCHANGED <<slot, workerVars, bop, barg, mClientCallback, groupVars, challengeVars,
                 idVars, history>>

Cancel ==
  /\ bpc = "out"
  /\ slot' = "Idle" /\ failedCall' = FALSE
  /\ UNCHANGED <<workerVars, binderVars, mClientCallback, groupVars, challengeVars, idVars,
                 session, moved, reinit, told, reported, misfiled>>

\* fpc_load_db_id without a cached id: ask the TZ app, which must not be down for
\* a reinitialization (`fpc` is null then), and afterwards fill the cache.
GetAuthenticatorId ==
  /\ bpc = "out" /\ auth_id = None /\ wpc # "broken"
  /\ bpc' = "cache" /\ bop' = "getAuthenticatorId" /\ UNCHANGED barg
  /\ idRead' = teeDb /\ idStale' = FALSE /\ raced' = FALSE
  /\ UNCHANGED <<slot, workerVars, mClientCallback, groupVars, challengeVars, auth_id,
                 history>>

CacheId ==
  /\ bpc = "cache"
  /\ Return
  /\ auth_id' = idRead /\ idRead' = None
  /\ UNCHANGED <<slot, workerVars, mClientCallback, groupVars, challengeVars, idStale,
                 raced, history>>

SetNotify ==
  /\ bpc = "out"
  /\ bpc' = "notify" /\ bop' = "setNotify"
  /\ UNCHANGED <<slot, workerVars, barg, mClientCallback, groupVars, challengeVars, idVars,
                 history>>

\* A new client awaits nothing.
SetNotifyLocked ==
  /\ bpc = "notify" /\ ~InSession
  /\ mClientCallback' = TRUE /\ accepted' = FALSE
  /\ Return
  /\ UNCHANGED <<slot, workerVars, groupVars, challengeVars, idVars, session, moved, reinit,
                 failedCall, answers, reported, misfiled>>

-------------------------------------------------------------------------------
(* The worker thread.                                                         *)

\* The worker leaves these alone, and stops with the process.
Outside == /\ bpc # "aborted"
           /\ UNCHANGED <<slot, binderVars, mClientCallback, gid, db_path, auth_challenge,
                          session, moved, failedCall>>

Goto(from, to) == wpc = from /\ wpc' = to

Take ==
  /\ bpc # "aborted"
  /\ wpc \in {"idle", "pause"} /\ slot # "Invalid"
  /\ slot' = "Invalid" /\ current' = slot
  /\ wpc' = CASE slot = "Idle" -> "idle" [] slot = "Pause" -> "pause" [] OTHER -> "start"
  /\ UNCHANGED <<status, binderVars, mClientCallback, groupVars, challengeVars, idVars,
                 history>>

\* IdleAsync: navigation, in the TZ app, until an event comes or it fails.
Navigate ==
  /\ \/ Goto("idle", "navi") /\ slot = "Invalid"
     \/ Goto("navi", "idle")
  /\ Outside
  /\ UNCHANGED <<current, status, teeDb, unloaded, teeChallenge, idVars, reinit, told,
                 reported, misfiled>>

\* What the steps of a session that only move on leave alone.
Quiet == UNCHANGED <<current, teeDb, unloaded, teeChallenge, idVars, reinit, reported,
                     misfiled>>

\* A callback that ends the session for the client.
Final == accepted' = FALSE /\ answers' = answers + 1

\* Without a client the session returns at once; without power, after an error.
StartSession ==
  /\ \/ Goto("start", "end") /\ ~mClientCallback /\ UNCHANGED told
     \/ Goto("start", "end") /\ mClientCallback /\ Final
     \/ Goto("start", "capture") /\ mClientCallback /\ UNCHANGED told
  /\ Outside /\ Quiet /\ UNCHANGED status

\* Mutant: waiting for a finger does not look at the event.
CaptureImageDeaf ==
  /\ wpc = "capture" /\ slot = "Invalid"
  /\ status' \in {"good", "other", "error"}
  /\ wpc' = IF status' = "error" THEN "off" ELSE "captured"
  /\ Outside /\ Quiet /\ UNCHANGED told

\* fpc_capture_image returns: an image, some other status, or an error.
CaptureImage ==
  /\ wpc = "capture"
  /\ status' \in {"good", "other", "error"}
  /\ wpc' = IF status' = "error" THEN "off" ELSE "captured"
  /\ Outside /\ Quiet /\ UNCHANGED told

\* Mutant: a cancelled session is ended like one that failed.
CheckEventFails ==
  /\ IF slot # "Invalid"
     THEN Goto("captured", "off") /\ Final /\ status' = "error"
     ELSE /\ wpc = "captured"
          /\ wpc' = IF status = "good" THEN "step" ELSE "capture"
          /\ UNCHANGED <<status, told>>
  /\ Outside /\ Quiet

\* isEventAvailable() once per image.
CheckEvent ==
  /\ IF slot # "Invalid"
     THEN Goto("captured", "off") /\ Final
     ELSE /\ wpc = "captured"
          /\ wpc' = IF status = "good" THEN "step" ELSE "capture"
          /\ UNCHANGED told
  /\ Outside /\ Quiet /\ UNCHANGED status

\* fpc_auth_step: a finger of the database or another one, -EAGAIN, or an error.
AuthStep ==
  /\ current = "Authenticate"
  /\ \E next \in {"update", "unknown", "capture", "broken"} : Goto("step", next)
  /\ Outside /\ Quiet /\ UNCHANGED <<status, told>>

\* The template is updated, and misfiled if that changed it, before the client is
\* told: that an unknown finger touched the sensor, or of the match.
UpdateTemplate ==
  /\ \/ Goto("update", "matched")
     \/ Goto("unknown", "capture")
  /\ StoreDb \/ UNCHANGED misfiled
  /\ Outside
  /\ UNCHANGED <<current, status, teeDb, unloaded, teeChallenge, idVars, reinit, told,
                 reported>>

\* onAuthenticated with gid as it is now and, when auth_challenge is set, with the
\* token that the TZ app signed.  If fpc_get_hw_auth_obj fails the token is whatever
\* the stack holds.
ReportMatch ==
  /\ Goto("matched", "off")
  /\ Final
  /\ \E challenge \in IF auth_challenge = None THEN {None}
                      ELSE {teeChallenge, "uninitialized"} :
       reported' = [gid |-> gid, challenge |-> challenge]
  /\ Outside
  /\ UNCHANGED <<current, status, teeDb, unloaded, teeChallenge, idVars, reinit, misfiled>>

\* An error of fpc_auth_step: the TZ app is restarted, which forgets the database
\* and the challenge.  The database is loaded again (USE_FPC_YOSHINO) and the
\* session goes on, or the session fails (other builds).
Reinitialize ==
  /\ wpc = "broken"
  /\ auth_id' = None /\ idRead' = None /\ UNCHANGED <<idStale, raced>>
  /\ teeChallenge' = None /\ reinit' = TRUE
  /\ \/ /\ wpc' = "capture" /\ UNCHANGED status
        /\ \/ teeDb' = db_path /\ UNCHANGED unloaded
           \/ teeDb' = None /\ unloaded' = TRUE
     \/ wpc' = "off" /\ status' = "error" /\ teeDb' = None /\ unloaded' = TRUE
  /\ Outside
  /\ UNCHANGED <<current, told, reported, misfiled>>

\* Mutant: the cached id survives a new print.
EnrollStepCached ==
  /\ current = "Enroll"
  /\ Goto("step", "enrolled")
  /\ idStale' = (auth_id = teeDb) /\ UNCHANGED <<auth_id, idRead, raced, told>>
  /\ Outside
  /\ UNCHANGED <<current, status, teeDb, unloaded, teeChallenge, reinit, reported,
                 misfiled>>

\* fpc_enroll_step and, after the last one, fpc_enroll_end.
EnrollStep ==
  /\ current = "Enroll"
  /\ \/ Goto("step", "capture") /\ UNCHANGED <<idVars, told>>
     \/ Goto("step", "off") /\ Final /\ UNCHANGED idVars
     \/ Goto("step", "enrolled") /\ PrintsChange /\ UNCHANGED told
  /\ Outside
  /\ UNCHANGED <<current, status, teeDb, unloaded, teeChallenge, reinit, reported,
                 misfiled>>

\* The new print is reported whether or not the database was written.
StoreEnrolled ==
  /\ Goto("enrolled", "saved")
  /\ StoreDb \/ UNCHANGED misfiled
  /\ Outside
  /\ UNCHANGED <<current, status, teeDb, unloaded, teeChallenge, idVars, reinit, told,
                 reported>>

ReportEnrolled ==
  /\ Goto("saved", "off")
  /\ Final /\ reported' = [gid |-> gid, challenge |-> None]
  /\ Outside
  /\ UNCHANGED <<current, status, teeDb, unloaded, teeChallenge, idVars, reinit, misfiled>>

\* The sensor is switched off; an error of fpc_capture_image is reported.
PowerOff ==
  /\ Goto("off", "end")
  /\ IF status = "error" THEN Final ELSE UNCHANGED told
  /\ Outside /\ Quiet /\ UNCHANGED status

SessionEnd ==
  /\ bpc # "aborted"
  /\ Goto("end", "idle")
  /\ current' = "Idle" /\ status' = "other"
  /\ session' = Nobody /\ reported' = Nobody /\ reinit' = FALSE /\ answers' = 0
  /\ UNCHANGED <<slot, binderVars, mClientCallback, gid, db_path, auth_challenge, moved,
                 failedCall, teeDb, unloaded, teeChallenge, idVars, accepted, misfiled>>

-------------------------------------------------------------------------------
Client ==
  \/ \E ch \in Challenges \cup {None} : Authenticate(ch)
  \/ \E g \in Groups : SetActiveGroup(g)
  \/ \E op \in {"enroll", "remove", "enumerate"} : Request(op)
  \/ Cancel \/ GetAuthenticatorId \/ SetNotify

Binder ==
  \/ AwaitPause \/ AuthenticateCommand \/ EnrollCommand \/ GroupCommand
  \/ RemoveCommand \/ EnumerateCommand \/ AwaitSession \/ Abort \/ CacheId
  \/ SetNotifyLocked

Worker ==
  \/ Take \/ StartSession \/ CheckEvent \/ AuthStep \/ UpdateTemplate \/ ReportMatch
  \/ Reinitialize \/ EnrollStep \/ StoreEnrolled \/ ReportEnrolled \/ PowerOff \/ SessionEnd

\* The two places where the worker waits return when there is an event.
Prodded == slot # "Invalid" /\ (CaptureImage \/ (wpc = "navi" /\ Navigate))

\* LOG_ALWAYS_FATAL ends the process.
Aborted == bpc = "aborted" /\ UNCHANGED vars

Next == Client \/ Binder \/ Worker \/ CaptureImage \/ Navigate \/ Aborted

\* Both threads are scheduled and the TZ app answers.  Without an event no finger
\* is owed, nor an end of navigation, and the framework need not call.
Spec == Init /\ [][Next]_vars /\ WF_vars(Binder) /\ WF_vars(Worker) /\ WF_vars(Prodded)

-------------------------------------------------------------------------------
(* Properties.                                                                *)

\* A call that paused the worker has the TZ app to itself: neither a session nor
\* navigation sends a command while it does.
PausedCallsOwnTheTz == bpc = "command" => wpc = "pause"

\* When nothing is going on the worker is paused only because an enroll or an
\* authenticate failed after it had paused the worker.
PausedOnlyByFailedCall == bpc = "out" /\ slot = "Invalid" /\ wpc = "pause" => failedCall

\* When both threads rest, a client that was told SYS_OK has had a final callback,
\* provided it had registered one.
Answered ==
  bpc = "out" /\ slot = "Invalid" /\ ~InSession /\ mClientCallback => ~accepted

Phase == CASE ~InSession -> "none" [] wpc = "end" -> "closing" [] OTHER -> "open"

\* The sessions are those of FingerprintSession without a fault: what a client that has
\* registered asks for is neither dropped nor left without a final callback, and no
\* session makes two, whichever of its exits it takes and whatever call comes meanwhile.
Promise == INSTANCE FingerprintSession WITH
  Faults <- {},
  wanted <- slot \in Sessions,
  phase <- Phase,
  awaiting <- accepted /\ mClientCallback,
  lost <- FALSE

ImplementsSession == Promise!Spec

\* A success carries the group and, if one was asked for, the challenge of the
\* request that started the session; unless setActiveGroup came in between, which
\* writes gid before it pauses the session, or the TZ app was restarted, or did not
\* hand out the token.
SuccessNamesItsSession ==
  [][reported' \notin {reported, Nobody} /\ ~moved /\ ~reinit =>
       /\ reported'.gid = session.gid
       /\ reported'.challenge \in {session.challenge, "uninitialized"}]_vars

\* What is written to the file of a group is the database of that group; unless
\* setActiveGroup came in the middle of a session, or could not load a database.
StoredInItsGroup == ~misfiled

\* The cached authenticator id is younger than the last change of its group's
\* prints, unless that change came while the id was on its way into the cache.
AuthenticatorIdFresh == auth_id # None /\ idStale => raced

\* Every call returns or ends the process; only setNotify may be left waiting, for a
\* session that holds the callback mutex and that no request interrupts: it ends with
\* a finger or not at all.
CallsReturn ==
  (bpc # "out") ~> \/ bpc \in {"out", "aborted"}
                   \/ bop = "setNotify" /\ InSession /\ slot = "Invalid"
===============================================================================
