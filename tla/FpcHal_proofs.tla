----------------------------- MODULE FpcHal_proofs -----------------------------
(***************************************************************************)
(* Proofs about FpcHal: that Pause() gives a call the TZ app to itself,    *)
(* and only a failed call leaves the worker paused; that the sessions are  *)
(* those of FingerprintSession, and a success names the request it         *)
(* answers; that a database goes to the file of its group; how old a       *)
(* cached id is.                                                           *)
(***************************************************************************)
EXTENDS FpcHal, TLAPS

\* Waiters see Pause exactly while the worker is in its Pause handler.
ReportsPause == current = "Pause" <=> wpc = "pause"

\* While a call pauses the worker nothing but its own request can be pending, and
\* once the call goes on the worker stays where it is: even if that request is
\* still unread because the worker was paused before, reading it changes nothing.
PausePending ==
  /\ bpc = "pausing" => slot \in {"Pause", "Invalid"}
  /\ bpc = "command" => wpc = "pause" /\ slot \in {"Pause", "Invalid"}
  /\ bpc = "entering" => slot # "Pause"

\* A worker that is paused, or about to be, outside of such a call.
LeftPaused ==
  /\ bpc \in {"out", "cache", "notify"}
  /\ slot = "Pause" \/ (slot = "Invalid" /\ wpc = "pause")
  => failedCall

PauseInv == ReportsPause /\ PausePending /\ LeftPaused

\* Before the session has powered the sensor off.
Serving == {"start", "capture", "captured", "step", "update", "unknown", "matched",
            "broken", "enrolled", "saved"}

\* A session is asked for by a call that has paused the worker and waits for it.
RequestInv ==
  /\ bpc = "entering" => bop \in {"authenticate", "enroll"}
  /\ slot \in Sessions => bpc = "entering" /\ wpc = "pause"
  /\ InSession <=> current \in Sessions
  /\ wpc \in {"update", "unknown", "matched"} => current = "Authenticate"
  /\ wpc \in {"enrolled", "saved"} => current = "Enroll"

\* Until the sensor is off the session has had no final callback, and afterwards none
\* only if an error of the sensor ended it; and whoever awaits one has a session.
AnswerInv ==
  /\ wpc \in Serving \cup {"idle", "navi", "pause"} => answers = 0 /\ status # "error"
  /\ wpc \in (Serving \cup {"off"}) \ {"start"} => mClientCallback
  /\ wpc = "off" => (answers = 0 <=> status = "error")
  /\ accepted /\ mClientCallback =>
       \/ slot \in Sessions \/ wpc \in Serving
       \/ wpc = "off" /\ status = "error"

\* Outside of setActiveGroup the TZ app holds the group that db_path names.
GroupInv ==
  /\ moved => bop = "setActiveGroup"
  /\ bop = "setActiveGroup" => bpc \in {"pausing", "command"}
  /\ bop = "setActiveGroup" /\ ~moved => ~InSession
  /\ bop # "setActiveGroup" /\ ~unloaded => teeDb = db_path
  /\ ~misfiled

IdInv == (idRead # None \/ auth_id # None) /\ idStale => raced

\* The request of session is the one that gid, auth_challenge and the TZ app hold.
Asked(request) ==
  session.challenge = (IF request = "Authenticate" THEN auth_challenge ELSE None)

SessionInv ==
  /\ slot \in Sessions =>
       /\ session.gid = gid /\ Asked(slot)
       /\ slot = "Authenticate" => teeChallenge = auth_challenge
  /\ InSession =>
       /\ ~moved => session.gid = gid
       /\ Asked(current)
       /\ current = "Authenticate" /\ ~reinit => teeChallenge = auth_challenge

IInv == /\ TypeOK /\ PauseInv /\ RequestInv
        /\ AnswerInv /\ GroupInv /\ IdInv /\ SessionInv

USE FpcAssumption

\* A step of the binder thread keeps the flags Boolean.
LEMMA BinderFlags == Flags /\ (Client \/ Binder) => Flags'
<1> SUFFICES ASSUME Flags, Client \/ Binder PROVE Flags'
  OBVIOUS
<1> USE DEF Flags, groupVars, idVars, history, told
<1>1. ASSUME NEW ch \in Challenges \cup {None}, Authenticate(ch)
      PROVE  Flags'
  BY <1>1, Zenon DEF Authenticate, Pausing
<1>2. ASSUME NEW g \in Groups, SetActiveGroup(g)
      PROVE  Flags'
  BY <1>2, Zenon DEF SetActiveGroup, Pausing, InSession
<1>3. ASSUME NEW op \in {"enroll", "remove", "enumerate"}, Request(op)
      PROVE  Flags'
  BY <1>3, Zenon DEF Request, Pausing
<1>4. CASE Cancel
  BY <1>4, Zenon DEF Cancel
<1>5. CASE GetAuthenticatorId
  BY <1>5, Zenon DEF GetAuthenticatorId
<1>6. CASE SetNotify
  BY <1>6, Zenon DEF SetNotify
<1>7. CASE AwaitPause
  BY <1>7, Zenon DEF AwaitPause
<1>8. CASE AuthenticateCommand
  BY <1>8, Zenon DEF AuthenticateCommand, Command, EnterSession, ReturnPaused
<1>9. CASE EnrollCommand
  BY <1>9, Zenon DEF EnrollCommand, Command, EnterSession, ReturnPaused
<1>10. CASE GroupCommand
  BY <1>10, Zenon DEF GroupCommand, Command, Resume
<1>11. CASE RemoveCommand
  BY <1>11, Zenon DEF RemoveCommand, Command, Resume, StoreDb, PrintsChange
<1>12. CASE EnumerateCommand
  BY <1>12, Zenon DEF EnumerateCommand, Command, Resume
<1>13. CASE AwaitSession
  BY <1>13, Zenon DEF AwaitSession
<1>14. CASE Abort
  BY <1>14, Zenon DEF Abort
<1>15. CASE CacheId
  BY <1>15, Zenon DEF CacheId
<1>16. CASE SetNotifyLocked
  BY <1>16, Zenon DEF SetNotifyLocked
<1> QED
  BY <1>1, <1>2, <1>3, <1>4, <1>5, <1>6, <1>7, <1>8, <1>9, <1>10, <1>11, <1>12, <1>13,
     <1>14, <1>15, <1>16 DEF Client, Binder

\* A step of the worker thread keeps the flags Boolean.
LEMMA WorkerFlags == Flags /\ (Worker \/ CaptureImage \/ Navigate) => Flags'
<1> SUFFICES ASSUME Flags, Worker \/ CaptureImage \/ Navigate PROVE Flags'
  OBVIOUS
<1> USE DEF Flags, groupVars, idVars, history, told, Outside, Quiet
<1>1. CASE Take
  BY <1>1, Zenon DEF Take
<1>2. CASE Navigate
  BY <1>2, Zenon DEF Navigate
<1>3. CASE StartSession
  BY <1>3, Zenon DEF StartSession, Final
<1>4. CASE CaptureImage
  BY <1>4, Zenon DEF CaptureImage
<1>5. CASE CheckEvent
  BY <1>5, Zenon DEF CheckEvent, Final
<1>6. CASE AuthStep
  BY <1>6, Zenon DEF AuthStep
<1>7. CASE UpdateTemplate
  BY <1>7, Zenon DEF UpdateTemplate, StoreDb
<1>8. CASE ReportMatch
  BY <1>8, Zenon DEF ReportMatch, Final
<1>9. CASE Reinitialize
  BY <1>9, Zenon DEF Reinitialize
<1>10. CASE EnrollStep
  BY <1>10, Zenon DEF EnrollStep, Final, PrintsChange
<1>11. CASE StoreEnrolled
  BY <1>11, Zenon DEF StoreEnrolled, StoreDb
<1>12. CASE ReportEnrolled
  BY <1>12, Zenon DEF ReportEnrolled, Final
<1>13. CASE PowerOff
  BY <1>13, Zenon DEF PowerOff, Final
<1>14. CASE SessionEnd
  BY <1>14, Zenon DEF SessionEnd
<1> QED
  BY <1>1, <1>2, <1>3, <1>4, <1>5, <1>6, <1>7, <1>8, <1>9, <1>10, <1>11, <1>12, <1>13,
     <1>14 DEF Worker

\* A step of the binder thread keeps the other variables within their values.
LEMMA BinderValues == Values /\ (Client \/ Binder) => Values'
<1> SUFFICES ASSUME Values, Client \/ Binder PROVE Values'
  OBVIOUS
<1> USE DEF Values, Sessions, Outcomes, Nobody,
            workerVars, binderVars, groupVars, challengeVars, idVars, history, told, Return
<1>1. ASSUME NEW ch \in Challenges \cup {None}, Authenticate(ch)
      PROVE  Values'
  BY <1>1 DEF Authenticate, Pausing
<1>2. ASSUME NEW g \in Groups, SetActiveGroup(g)
      PROVE  Values'
  BY <1>2 DEF SetActiveGroup, Pausing
<1>3. ASSUME NEW op \in {"enroll", "remove", "enumerate"}, Request(op)
      PROVE  Values'
  BY <1>3 DEF Request, Pausing
<1>4. CASE Cancel
  BY <1>4 DEF Cancel
<1>5. CASE GetAuthenticatorId
  BY <1>5 DEF GetAuthenticatorId
<1>6. CASE SetNotify
  BY <1>6 DEF SetNotify
<1>7. CASE AwaitPause
  BY <1>7 DEF AwaitPause
<1>8. CASE AuthenticateCommand
  BY <1>8 DEF AuthenticateCommand, Command, EnterSession, ReturnPaused
<1>9. CASE EnrollCommand
  BY <1>9 DEF EnrollCommand, Command, EnterSession, ReturnPaused
<1>10. CASE GroupCommand
  BY <1>10 DEF GroupCommand, Command, Resume
<1>11. CASE RemoveCommand
  BY <1>11 DEF RemoveCommand, Command, Resume, StoreDb, PrintsChange
<1>12. CASE EnumerateCommand
  BY <1>12 DEF EnumerateCommand, Command, Resume
<1>13. CASE AwaitSession
  BY <1>13 DEF AwaitSession
<1>14. CASE Abort
  BY <1>14 DEF Abort
<1>15. CASE CacheId
  BY <1>15 DEF CacheId
<1>16. CASE SetNotifyLocked
  BY <1>16 DEF SetNotifyLocked
<1> QED
  BY <1>1, <1>2, <1>3, <1>4, <1>5, <1>6, <1>7, <1>8, <1>9, <1>10, <1>11, <1>12, <1>13,
     <1>14, <1>15, <1>16 DEF Client, Binder

\* A step of the worker thread keeps the other variables within their values.
LEMMA WorkerValues == Values /\ (Worker \/ CaptureImage \/ Navigate) => Values'
<1> SUFFICES ASSUME Values, Worker \/ CaptureImage \/ Navigate PROVE Values'
  OBVIOUS
<1> USE DEF Values, Sessions, Outcomes, Nobody,
            workerVars, binderVars, groupVars, challengeVars, idVars,
            history, told, Goto, Outside, Quiet
<1>1. CASE Take
  BY <1>1 DEF Take
<1>2. CASE Navigate
  BY <1>2 DEF Navigate
<1>3. CASE StartSession
  BY <1>3 DEF StartSession, Final
<1>4. CASE CaptureImage
  BY <1>4 DEF CaptureImage
<1>5. CASE CheckEvent
  BY <1>5 DEF CheckEvent, Final
<1>6. CASE AuthStep
  BY <1>6 DEF AuthStep
<1>7. CASE UpdateTemplate
  BY <1>7 DEF UpdateTemplate, StoreDb
<1>8. CASE ReportMatch
  BY <1>8 DEF ReportMatch, Final
<1>9. CASE Reinitialize
  BY <1>9 DEF Reinitialize
<1>10. CASE EnrollStep
  BY <1>10 DEF EnrollStep, Final, PrintsChange
<1>11. CASE StoreEnrolled
  BY <1>11 DEF StoreEnrolled, StoreDb
<1>12. CASE ReportEnrolled
  BY <1>12 DEF ReportEnrolled, Final
<1>13. CASE PowerOff
  BY <1>13 DEF PowerOff, Final
<1>14. CASE SessionEnd
  BY <1>14 DEF SessionEnd
<1> QED
  BY <1>1, <1>2, <1>3, <1>4, <1>5, <1>6, <1>7, <1>8, <1>9, <1>10, <1>11, <1>12, <1>13,
     <1>14 DEF Worker
\* Every step keeps the types.
LEMMA TypeStep == TypeOK /\ [Next]_vars => TypeOK'
<1> SUFFICES ASSUME TypeOK, [Next]_vars PROVE TypeOK'
  OBVIOUS
<1>1. CASE Client \/ Binder
  BY <1>1, BinderFlags, BinderValues DEF TypeOK
<1>2. CASE Worker \/ CaptureImage \/ Navigate
  BY <1>2, WorkerFlags, WorkerValues DEF TypeOK
<1>3. CASE UNCHANGED vars
  <2> USE <1>3 DEF vars, workerVars, binderVars, groupVars, challengeVars, idVars,
               history, told
  <2>1. Flags'
    BY Zenon DEF TypeOK, Flags
  <2>2. Values'
    BY DEF TypeOK, Values, Outcomes
  <2> QED
    BY <2>1, <2>2 DEF TypeOK
<1> QED
  BY <1>1, <1>2, <1>3 DEF Next, Aborted

\* The steps of the worker that only go on in a session, and navigation: they touch
\* neither what the binder thread waits for nor what it left behind.
Onward ==
  /\ wpc' # "pause" /\ wpc # "pause"
  /\ UNCHANGED <<slot, current, bpc, failedCall>>

LEMMA WorkerOnward ==
  ASSUME Values, Worker \/ CaptureImage \/ Navigate
  PROVE  Take \/ SessionEnd \/ Onward
<1> USE DEF Values, Onward, Goto, Outside, Quiet, binderVars
<1>1. CASE Navigate
  BY <1>1 DEF Navigate
<1>2. CASE StartSession
  BY <1>2 DEF StartSession
<1>3. CASE CaptureImage
  BY <1>3 DEF CaptureImage
<1>4. CASE CheckEvent
  BY <1>4 DEF CheckEvent
<1>5. CASE AuthStep
  BY <1>5 DEF AuthStep
<1>6. CASE UpdateTemplate \/ ReportMatch \/ Reinitialize
  BY <1>6 DEF UpdateTemplate, ReportMatch, Reinitialize
<1>7. CASE EnrollStep \/ StoreEnrolled \/ ReportEnrolled \/ PowerOff
  BY <1>7 DEF EnrollStep, StoreEnrolled, ReportEnrolled, PowerOff
<1> QED
  BY <1>1, <1>2, <1>3, <1>4, <1>5, <1>6, <1>7 DEF Worker

\* Every call keeps the account of who pauses the worker.
LEMMA BinderPause == Values /\ PauseInv /\ (Client \/ Binder) => PauseInv'
<1> SUFFICES ASSUME Values, PauseInv, Client \/ Binder PROVE PauseInv'
  OBVIOUS
<1> USE DEF Values, Sessions, PauseInv, ReportsPause, PausePending, LeftPaused,
            workerVars, binderVars, history, Return
<1>1. ASSUME NEW ch \in Challenges \cup {None}, Authenticate(ch)
      PROVE  PauseInv'
  BY <1>1 DEF Authenticate, Pausing
<1>2. ASSUME NEW g \in Groups, SetActiveGroup(g)
      PROVE  PauseInv'
  BY <1>2 DEF SetActiveGroup, Pausing
<1>3. ASSUME NEW op \in {"enroll", "remove", "enumerate"}, Request(op)
      PROVE  PauseInv'
  BY <1>3 DEF Request, Pausing
<1>4. CASE Cancel
  BY <1>4 DEF Cancel
<1>5. CASE GetAuthenticatorId
  BY <1>5 DEF GetAuthenticatorId
<1>6. CASE SetNotify
  BY <1>6 DEF SetNotify
<1>7. CASE AwaitPause
  BY <1>7 DEF AwaitPause
<1>8. CASE AuthenticateCommand
  BY <1>8 DEF AuthenticateCommand, Command, EnterSession, ReturnPaused
<1>9. CASE EnrollCommand
  BY <1>9 DEF EnrollCommand, Command, EnterSession, ReturnPaused
<1>10. CASE GroupCommand
  BY <1>10 DEF GroupCommand, Command, Resume
<1>11. CASE RemoveCommand
  BY <1>11 DEF RemoveCommand, Command, Resume
<1>12. CASE EnumerateCommand
  BY <1>12 DEF EnumerateCommand, Command, Resume
<1>13. CASE AwaitSession
  BY <1>13 DEF AwaitSession
<1>14. CASE Abort
  BY <1>14 DEF Abort
<1>15. CASE CacheId
  BY <1>15 DEF CacheId
<1>16. CASE SetNotifyLocked
  BY <1>16 DEF SetNotifyLocked
<1> QED
  BY <1>1, <1>2, <1>3, <1>4, <1>5, <1>6, <1>7, <1>8, <1>9, <1>10, <1>11, <1>12, <1>13,
     <1>14, <1>15, <1>16 DEF Client, Binder

\* So does the worker.
LEMMA WorkerPause ==
  Values /\ PauseInv /\ (Worker \/ CaptureImage \/ Navigate) => PauseInv'
<1> SUFFICES ASSUME Values, PauseInv, Worker \/ CaptureImage \/ Navigate PROVE PauseInv'
  OBVIOUS
<1> USE DEF Values, PauseInv, ReportsPause, PausePending, LeftPaused
<1>1. CASE Take
  BY <1>1 DEF Take, Sessions, binderVars, history
<1>2. CASE SessionEnd
  BY <1>2 DEF SessionEnd, Goto, binderVars
<1>3. CASE Onward
  BY <1>3 DEF Onward
<1> QED
  BY <1>1, <1>2, <1>3, WorkerOnward

\* What the worker waits for is asked for only by the calls that enter a session.
LEMMA ClientRequest == Values /\ PauseInv /\ RequestInv /\ Client => RequestInv'
<1> SUFFICES ASSUME Values, PauseInv, RequestInv, Client PROVE RequestInv'
  OBVIOUS
<1> USE DEF Values, Sessions, PauseInv, PausePending, RequestInv, InSession,
            workerVars, binderVars
<1>1. CASE \/ \E ch \in Challenges \cup {None} : Authenticate(ch)
           \/ \E g \in Groups : SetActiveGroup(g)
           \/ \E op \in {"enroll", "remove", "enumerate"} : Request(op)
  BY <1>1 DEF Authenticate, SetActiveGroup, Request, Pausing
<1>2. CASE Cancel \/ GetAuthenticatorId \/ SetNotify
  BY <1>2 DEF Cancel, GetAuthenticatorId, SetNotify
<1> QED
  BY <1>1, <1>2 DEF Client

LEMMA BinderRequest == Values /\ PauseInv /\ RequestInv /\ Binder => RequestInv'
<1> SUFFICES ASSUME Values, PauseInv, RequestInv, Binder PROVE RequestInv'
  OBVIOUS
<1> USE DEF Values, Sessions, PauseInv, PausePending, RequestInv, InSession,
            workerVars, binderVars, Return, Command
<1>1. CASE AwaitPause \/ AwaitSession \/ Abort \/ CacheId \/ SetNotifyLocked
  BY <1>1 DEF AwaitPause, AwaitSession, Abort, CacheId, SetNotifyLocked
<1>2. CASE AuthenticateCommand \/ EnrollCommand
  BY <1>2 DEF AuthenticateCommand, EnrollCommand, EnterSession, ReturnPaused
<1>3. CASE GroupCommand \/ RemoveCommand \/ EnumerateCommand
  BY <1>3 DEF GroupCommand, RemoveCommand, EnumerateCommand, Resume
<1> QED
  BY <1>1, <1>2, <1>3 DEF Binder

LEMMA WorkerRequest ==
  Values /\ RequestInv /\ (Worker \/ CaptureImage \/ Navigate) => RequestInv'
<1> SUFFICES ASSUME Values, RequestInv, Worker \/ CaptureImage \/ Navigate
    PROVE  RequestInv'
  OBVIOUS
<1> USE DEF Values, Sessions, RequestInv, InSession, Goto, Outside, Quiet, workerVars,
            binderVars
<1>1. CASE Take
  BY <1>1 DEF Take
<1>2. CASE Navigate \/ SessionEnd
  BY <1>2 DEF Navigate, SessionEnd
<1>3. CASE StartSession \/ CaptureImage \/ CheckEvent \/ PowerOff
  BY <1>3 DEF StartSession, CaptureImage, CheckEvent, PowerOff
<1>4. CASE AuthStep \/ UpdateTemplate \/ ReportMatch \/ Reinitialize
  BY <1>4 DEF AuthStep, UpdateTemplate, ReportMatch, Reinitialize
<1>5. CASE EnrollStep \/ StoreEnrolled \/ ReportEnrolled
  BY <1>5 DEF EnrollStep, StoreEnrolled, ReportEnrolled
<1> QED
  BY <1>1, <1>2, <1>3, <1>4, <1>5 DEF Worker

\* A call leaves the account of the final callbacks alone, or asks for a session, or
\* brings another client.
LEMMA ClientAnswer == Values /\ AnswerInv /\ RequestInv /\ Client => AnswerInv'
<1> SUFFICES ASSUME Values, AnswerInv, RequestInv, Client PROVE AnswerInv'
  OBVIOUS
<1>1. UNCHANGED <<wpc, status, mClientCallback, told>>
  BY DEF Client, Authenticate, SetActiveGroup, Request, Pausing, Cancel,
     GetAuthenticatorId, SetNotify, workerVars, history
<1>2. slot \in Sessions => bpc # "out"
  BY DEF RequestInv
<1>3. UNCHANGED slot \/ bpc = "out"
  BY DEF Client, Authenticate, SetActiveGroup, Request, Pausing, Cancel,
     GetAuthenticatorId, SetNotify
<1> QED
  BY <1>1, <1>2, <1>3 DEF AnswerInv, Serving, told

LEMMA BinderAnswer ==
  Values /\ PauseInv /\ RequestInv /\ AnswerInv /\ Binder => AnswerInv'
<1> SUFFICES ASSUME Values, PauseInv, RequestInv, AnswerInv, Binder PROVE AnswerInv'
  OBVIOUS
<1> USE DEF Values, AnswerInv, Serving, RequestInv, PauseInv, PausePending,
            Sessions, InSession, workerVars, history, told, Return, Command
<1>1. CASE AwaitPause \/ AwaitSession \/ Abort \/ CacheId \/ SetNotifyLocked
  BY <1>1 DEF AwaitPause, AwaitSession, Abort, CacheId, SetNotifyLocked
<1>2. CASE AuthenticateCommand \/ EnrollCommand
  BY <1>2 DEF AuthenticateCommand, EnrollCommand, EnterSession, ReturnPaused
<1>3. CASE GroupCommand \/ RemoveCommand \/ EnumerateCommand
  BY <1>3 DEF GroupCommand, RemoveCommand, EnumerateCommand, Resume
<1> QED
  BY <1>1, <1>2, <1>3 DEF Binder

LEMMA WorkerAnswer ==
  Values /\ RequestInv /\ AnswerInv /\ (Worker \/ CaptureImage \/ Navigate) => AnswerInv'
<1> SUFFICES ASSUME Values, RequestInv, AnswerInv, Worker \/ CaptureImage \/ Navigate
    PROVE  AnswerInv'
  OBVIOUS
<1> USE DEF Values, AnswerInv, Serving, Sessions, Goto, Outside, Quiet, told, Final
<1>1. CASE Take
  BY <1>1 DEF Take, history
<1>2. CASE Navigate \/ SessionEnd
  BY <1>2 DEF Navigate, SessionEnd, RequestInv
<1>3. CASE StartSession \/ CaptureImage \/ CheckEvent \/ PowerOff
  BY <1>3 DEF StartSession, CaptureImage, CheckEvent, PowerOff, RequestInv
<1>4. CASE AuthStep \/ UpdateTemplate \/ ReportMatch \/ Reinitialize
  BY <1>4 DEF AuthStep, UpdateTemplate, ReportMatch, Reinitialize, RequestInv
<1>5. CASE EnrollStep \/ StoreEnrolled \/ ReportEnrolled
  BY <1>5 DEF EnrollStep, StoreEnrolled, ReportEnrolled, RequestInv
<1> QED
  BY <1>1, <1>2, <1>3, <1>4, <1>5 DEF Worker

\* A call keeps the TZ app on the group of db_path: setActiveGroup changes db_path
\* first and loads its database once the worker is paused.
LEMMA ClientGroup == Values /\ GroupInv /\ Client => GroupInv'
<1> SUFFICES ASSUME Values, GroupInv, Client PROVE GroupInv'
  OBVIOUS
<1> USE DEF Values, GroupInv, InSession, workerVars, groupVars, history
<1>1. ASSUME NEW g \in Groups, SetActiveGroup(g)
      PROVE  GroupInv'
  <2>1. moved' <=> InSession
    BY <1>1, Zenon DEF SetActiveGroup
  <2> QED
    BY <1>1, <2>1 DEF SetActiveGroup, Pausing
<1>2. CASE \/ \E ch \in Challenges \cup {None} : Authenticate(ch)
           \/ \E op \in {"enroll", "remove", "enumerate"} : Request(op)
  BY <1>2 DEF Authenticate, Request, Pausing
<1>3. CASE Cancel \/ GetAuthenticatorId \/ SetNotify
  BY <1>3 DEF Cancel, GetAuthenticatorId, SetNotify, binderVars
<1> QED
  BY <1>1, <1>2, <1>3 DEF Client

\* A database that is the one db_path names, or that is excused, is not misfiled.
LEMMA Storing == GroupInv /\ (bop # "setActiveGroup" \/ InSession) /\ StoreDb => ~misfiled'
<1>1. GroupInv /\ (bop # "setActiveGroup" \/ InSession) =>
        ~misfiled /\ (moved \/ unloaded \/ teeDb = db_path)
  BY DEF GroupInv
<1>2. StoreDb /\ ~misfiled /\ (moved \/ unloaded \/ teeDb = db_path) => ~misfiled'
  BY Zenon DEF StoreDb
<1> QED
  BY <1>1, <1>2

LEMMA BinderGroup == Values /\ GroupInv /\ Binder => GroupInv'
<1> SUFFICES ASSUME Values, GroupInv, Binder PROVE GroupInv'
  OBVIOUS
<1> USE DEF Values, GroupInv, InSession, workerVars, groupVars, history, Return, Command
<1>1. CASE AwaitPause \/ AwaitSession \/ Abort \/ CacheId \/ SetNotifyLocked
  BY <1>1 DEF AwaitPause, AwaitSession, Abort, CacheId, SetNotifyLocked
<1>2. CASE AuthenticateCommand \/ EnrollCommand
  BY <1>2 DEF AuthenticateCommand, EnrollCommand, EnterSession, ReturnPaused
<1>3. CASE GroupCommand \/ RemoveCommand \/ EnumerateCommand
  BY <1>3, Storing DEF GroupCommand, RemoveCommand, EnumerateCommand, Resume
<1> QED
  BY <1>1, <1>2, <1>3 DEF Binder

LEMMA WorkerGroup ==
  /\ Values /\ PauseInv /\ RequestInv /\ GroupInv
  /\ Worker \/ CaptureImage \/ Navigate
  => GroupInv'
<1> SUFFICES ASSUME Values, PauseInv, RequestInv, GroupInv,
                    Worker \/ CaptureImage \/ Navigate
    PROVE  GroupInv'
  OBVIOUS
<1> USE DEF Values, GroupInv, InSession, Goto, Outside, Quiet, binderVars
<1>1. CASE Take
  BY <1>1 DEF Take, groupVars, history, PauseInv, PausePending, RequestInv, Sessions
<1>2. CASE Navigate \/ SessionEnd
  BY <1>2 DEF Navigate, SessionEnd
<1>3. CASE StartSession \/ CaptureImage \/ CheckEvent \/ PowerOff
  BY <1>3 DEF StartSession, CaptureImage, CheckEvent, PowerOff
<1>4. CASE AuthStep \/ UpdateTemplate \/ ReportMatch \/ Reinitialize
  BY <1>4, Storing DEF AuthStep, UpdateTemplate, ReportMatch, Reinitialize
<1>5. CASE EnrollStep \/ StoreEnrolled \/ ReportEnrolled
  BY <1>5, Storing DEF EnrollStep, StoreEnrolled, ReportEnrolled
<1> QED
  BY <1>1, <1>2, <1>3, <1>4, <1>5 DEF Worker

\* An id that is cached, or about to be, is younger than the last change of its prints,
\* or that change came before it was cached.
LEMMA IdStep == Values /\ Flags /\ IdInv /\ [Next]_vars => IdInv'
<1> SUFFICES ASSUME Values, Flags, IdInv, [Next]_vars PROVE IdInv'
  OBVIOUS
<1> USE DEF Values, IdInv, idVars, Outside, Quiet
<1>1. CASE UNCHANGED idVars
  BY <1>1
<1>2. CASE PrintsChange
  BY <1>2 DEF PrintsChange
<1>3. CASE GetAuthenticatorId \/ CacheId \/ Reinitialize
  BY <1>3 DEF GetAuthenticatorId, CacheId, Reinitialize
<1>4. Client => UNCHANGED idVars \/ GetAuthenticatorId
  BY DEF Client, Authenticate, SetActiveGroup, Request, Pausing, Cancel, SetNotify
<1>5. Binder => UNCHANGED idVars \/ PrintsChange \/ CacheId
  BY DEF Binder, AwaitPause, AuthenticateCommand, EnrollCommand, GroupCommand,
     RemoveCommand, EnumerateCommand, AwaitSession, Abort, SetNotifyLocked
<1>6. Worker => UNCHANGED idVars \/ PrintsChange \/ Reinitialize
  BY DEF Worker, Take, StartSession, CheckEvent, AuthStep, UpdateTemplate, ReportMatch,
     EnrollStep, StoreEnrolled, ReportEnrolled, PowerOff, SessionEnd
<1>7. CaptureImage \/ Navigate => UNCHANGED idVars
  BY DEF CaptureImage, Navigate
<1> QED
  BY <1>1, <1>2, <1>3, <1>4, <1>5, <1>6, <1>7 DEF Next, Aborted, vars

\* The request that a session serves stays the one that was made: only setActiveGroup
\* and a restart of the TZ app part them.
LEMMA ClientSession == Values /\ RequestInv /\ SessionInv /\ Client => SessionInv'
<1> SUFFICES ASSUME Values, RequestInv, SessionInv, Client PROVE SessionInv'
  OBVIOUS
<1> USE DEF Values, RequestInv, SessionInv, Asked, InSession, Sessions, workerVars,
            groupVars, challengeVars, history
<1>1. ASSUME NEW g \in Groups, SetActiveGroup(g)
      PROVE  SessionInv'
  <2>1. moved' <=> InSession
    BY <1>1, Zenon DEF SetActiveGroup
  <2> QED
    BY <1>1, <2>1 DEF SetActiveGroup, Pausing
<1>2. CASE \/ \E ch \in Challenges \cup {None} : Authenticate(ch)
           \/ \E op \in {"enroll", "remove", "enumerate"} : Request(op)
  BY <1>2 DEF Authenticate, Request, Pausing
<1>3. CASE Cancel \/ GetAuthenticatorId \/ SetNotify
  BY <1>3 DEF Cancel, GetAuthenticatorId, SetNotify
<1> QED
  BY <1>1, <1>2, <1>3 DEF Client

LEMMA BinderSession ==
  Values /\ PauseInv /\ RequestInv /\ SessionInv /\ Binder => SessionInv'
<1> SUFFICES ASSUME Values, PauseInv, RequestInv, SessionInv, Binder PROVE SessionInv'
  OBVIOUS
<1> USE DEF Values, PauseInv, PausePending, RequestInv, SessionInv, Asked, InSession,
            Sessions, workerVars, groupVars, challengeVars, history, Return, Command
<1>1. CASE AwaitPause \/ AwaitSession \/ Abort \/ CacheId \/ SetNotifyLocked
  BY <1>1 DEF AwaitPause, AwaitSession, Abort, CacheId, SetNotifyLocked
<1>2. CASE AuthenticateCommand
  BY <1>2 DEF AuthenticateCommand, EnterSession, ReturnPaused
<1>3. CASE EnrollCommand
  BY <1>3 DEF EnrollCommand, EnterSession, ReturnPaused
<1>4. CASE GroupCommand \/ RemoveCommand \/ EnumerateCommand
  BY <1>4 DEF GroupCommand, RemoveCommand, EnumerateCommand, Resume
<1> QED
  BY <1>1, <1>2, <1>3, <1>4 DEF Binder

LEMMA WorkerSession ==
  /\ Values /\ RequestInv /\ GroupInv /\ SessionInv
  /\ Worker \/ CaptureImage \/ Navigate
  => SessionInv'
<1> SUFFICES ASSUME Values, RequestInv, GroupInv, SessionInv,
                    Worker \/ CaptureImage \/ Navigate
    PROVE  SessionInv'
  OBVIOUS
<1> USE DEF Values, RequestInv, SessionInv, Asked, InSession, Sessions, Goto, Outside, Quiet
<1>1. CASE Take
  BY <1>1 DEF Take, groupVars, challengeVars, history
<1>2. CASE Navigate \/ SessionEnd
  BY <1>2 DEF Navigate, SessionEnd
<1>3. CASE StartSession \/ CaptureImage \/ CheckEvent \/ PowerOff
  BY <1>3 DEF StartSession, CaptureImage, CheckEvent, PowerOff
<1>4. CASE AuthStep \/ UpdateTemplate \/ ReportMatch \/ Reinitialize
  BY <1>4 DEF AuthStep, UpdateTemplate, ReportMatch, Reinitialize
<1>5. CASE EnrollStep \/ StoreEnrolled \/ ReportEnrolled
  BY <1>5 DEF EnrollStep, StoreEnrolled, ReportEnrolled
<1> QED
  BY <1>1, <1>2, <1>3, <1>4, <1>5 DEF Worker

\* The strengthened invariant holds in every reachable state.
THEOREM Invariance == Spec => []IInv
<1>1. Init => IInv
  <2> SUFFICES ASSUME Init PROVE IInv
    OBVIOUS
  <2>1. Flags
    BY Zenon DEF Init, Flags
  <2>2. Values
    BY DEF Init, Values, Sessions, Outcomes, Nobody
  <2>3. PauseInv
    BY DEF Init, PauseInv, ReportsPause, PausePending, LeftPaused
  <2>4. RequestInv /\ AnswerInv /\ GroupInv /\ IdInv /\ SessionInv
    BY DEF Init, RequestInv, AnswerInv, GroupInv, IdInv, SessionInv, InSession, Sessions,
       Serving
  <2> QED
    BY <2>1, <2>2, <2>3, <2>4 DEF IInv, TypeOK
<1>2. IInv /\ [Next]_vars => IInv'
  <2> SUFFICES ASSUME IInv, [Next]_vars PROVE IInv'
    OBVIOUS
  <2>1. TypeOK' /\ IdInv'
    BY TypeStep, IdStep DEF IInv, TypeOK
  <2>2. CASE Client \/ Binder
    BY <2>1, <2>2, BinderPause, ClientRequest, BinderRequest, ClientAnswer, BinderAnswer,
       ClientGroup, BinderGroup, ClientSession, BinderSession DEF IInv, TypeOK
  <2>3. CASE Worker \/ CaptureImage \/ Navigate
    BY <2>1, <2>3, WorkerPause, WorkerRequest, WorkerAnswer, WorkerGroup, WorkerSession
       DEF IInv, TypeOK
  <2>4. CASE UNCHANGED vars
    <3> USE <2>4 DEF vars, workerVars, binderVars, groupVars, challengeVars, idVars, history,
                     told, IInv
    <3>1. PauseInv'
      BY DEF PauseInv, ReportsPause, PausePending, LeftPaused
    <3>2. RequestInv' /\ AnswerInv' /\ GroupInv' /\ SessionInv'
      BY DEF RequestInv, AnswerInv, GroupInv, SessionInv, Asked, InSession
    <3> QED
      BY <2>1, <3>1, <3>2
  <2> QED
    BY <2>2, <2>3, <2>4 DEF Next, Aborted
<1> QED
  BY <1>1, <1>2, PTL DEF Spec

\* Every variable keeps its type, for any set of challenges and of groups.
THEOREM TypeCorrect == Spec => []TypeOK
<1>1. IInv => TypeOK
  BY DEF IInv
<1> QED
  BY <1>1, Invariance, PTL

\* A call between its Pause() and its Resume() is the only user of the TZ app: the
\* worker sits in its Pause handler (waitForState(Pause) in remove, enumerate,
\* setActiveGroup, enroll and authenticate).
THEOREM PauseExclusion == Spec => []PausedCallsOwnTheTz
<1>1. IInv => PausedCallsOwnTheTz
  BY DEF IInv, PauseInv, PausePending, PausedCallsOwnTheTz
<1> QED
  BY <1>1, Invariance, PTL

\* The worker is left in Pause only by an enroll or an authenticate that failed
\* after its Pause(): no other call forgets its Resume().
THEOREM PauseIsGivenBack == Spec => []PausedOnlyByFailedCall
<1>1. IInv => PausedOnlyByFailedCall
  BY DEF IInv, PauseInv, LeftPaused, PausedOnlyByFailedCall
<1> QED
  BY <1>1, Invariance, PTL

\* A client that was told SYS_OK, and has registered a callback, has had a final one
\* once both threads rest: on every path from authenticate and enroll through the
\* session, its errors and its cancellation (AuthenticateAsync, EnrollAsync).
THEOREM Answering == Spec => []Answered
<1>1. IInv => Answered
  BY DEF IInv, AnswerInv, RequestInv, Answered, InSession, Serving
<1> QED
  BY <1>1, Invariance, PTL

\* The cached authenticator id is that of the prints as they are, unless they changed
\* between its reading and its caching (fpc_load_db_id, which takes no lock).
THEOREM FreshId == Spec => []AuthenticatorIdFresh
<1>1. IInv => AuthenticatorIdFresh
  BY DEF IInv, IdInv, AuthenticatorIdFresh
<1> QED
  BY <1>1, Invariance, PTL

\* A group's file gets that group's database, unless setActiveGroup came in the middle
\* of a session or could not load one (fpc_store_user_db(db_path)).
THEOREM Filing == Spec => []StoredInItsGroup
<1>1. IInv => StoredInItsGroup
  BY DEF IInv, GroupInv, StoredInItsGroup
<1> QED
  BY <1>1, Invariance, PTL

\* Only the two steps that report a success change reported to something.
LEMMA Reporting == [Next]_vars => reported' \in {reported, Nobody} \/ ReportMatch \/ ReportEnrolled
<1> SUFFICES ASSUME [Next]_vars
    PROVE  reported' \in {reported, Nobody} \/ ReportMatch \/ ReportEnrolled
  OBVIOUS
<1> USE DEF history
<1>1. CASE Client
  BY <1>1 DEF Client, Authenticate, SetActiveGroup, Request, Pausing, Cancel,
     GetAuthenticatorId, SetNotify
<1>2. CASE Binder
  BY <1>2 DEF Binder, AwaitPause, AuthenticateCommand, EnrollCommand, GroupCommand,
     RemoveCommand, EnumerateCommand, AwaitSession, Abort, CacheId, SetNotifyLocked
<1>3. CASE Worker
  BY <1>3 DEF Worker, Take, StartSession, CheckEvent, AuthStep, UpdateTemplate,
     Reinitialize, EnrollStep, StoreEnrolled, PowerOff, SessionEnd, Quiet
<1>4. CASE CaptureImage \/ Navigate
  BY <1>4 DEF CaptureImage, Navigate, Quiet
<1> QED
  BY <1>1, <1>2, <1>3, <1>4 DEF Next, Aborted, vars

\* What a session tells of its success is the group and the challenge that it was
\* asked for, although it reads gid, auth_challenge and the TZ app's token only then
\* (onAuthenticated, onEnrollResult): unless setActiveGroup came in between, or the
\* TZ app was restarted or did not hand out the token.
THEOREM SuccessNaming == Spec => SuccessNamesItsSession
<1> DEFINE Named == /\ reported'.gid = session.gid
                    /\ reported'.challenge \in {session.challenge, "uninitialized"}
<1>1. ASSUME IInv, ~moved, ~reinit, ReportMatch
      PROVE  Named
  <2>1. session.gid = gid /\ session.challenge = auth_challenge
    BY <1>1 DEF IInv, SessionInv, Asked, RequestInv, ReportMatch, Goto, InSession
  <2>2. teeChallenge = auth_challenge
    BY <1>1 DEF IInv, SessionInv, RequestInv, ReportMatch, Goto, InSession
  <2> QED
    BY <1>1, <2>1, <2>2 DEF ReportMatch
<1>2. ASSUME IInv, ~moved, ReportEnrolled
      PROVE  Named
  <2>1. session.gid = gid /\ session.challenge = None
    BY <1>2 DEF IInv, SessionInv, Asked, RequestInv, ReportEnrolled, Goto, InSession
  <2> QED
    BY <1>2, <2>1 DEF ReportEnrolled
<1>3. IInv /\ [Next]_vars =>
        [reported' \notin {reported, Nobody} /\ ~moved /\ ~reinit => Named]_vars
  BY <1>1, <1>2, Reporting
<1> QED
  BY <1>3, Invariance, PTL DEF Spec, SuccessNamesItsSession

\* What FingerprintSession sees of a state.
Awaiting == accepted /\ mClientCallback

LEMMA StutterStep ==
  ASSUME slot' \in Sessions <=> slot \in Sessions, Phase' = Phase, answers' = answers,
         Awaiting' <=> Awaiting
  PROVE  UNCHANGED Promise!vars
<1>1. UNCHANGED (slot \in Sessions) /\ UNCHANGED Awaiting
  BY DEF Awaiting
<1> QED
  BY <1>1, Zenon DEF Promise!vars, Awaiting

LEMMA AskStep ==
  ASSUME slot' \in Sessions, Phase' = Phase, answers' = answers
  PROVE  Promise!Ask
<1>1. (slot \in Sessions)' = TRUE /\ Awaiting' \in BOOLEAN
  BY Zenon DEF Awaiting
<1> QED
  BY <1>1, Zenon DEF Promise!Ask, Awaiting

LEMMA AnswerStep ==
  ASSUME Phase = "open", Phase' \in {"open", "closing"}, answers = 0, answers' = answers + 1,
         ~Awaiting', slot' \in Sessions <=> slot \in Sessions
  PROVE  Promise!Answer
<1>1. UNCHANGED (slot \in Sessions) /\ Awaiting' = FALSE
  BY DEF Awaiting
<1>2. answers' = (IF answers = 0 THEN 1 ELSE 2)
  OBVIOUS
<1> QED
  BY <1>1, <1>2, Zenon DEF Promise!Answer, Awaiting

LEMMA BeginStep ==
  ASSUME slot \in Sessions, slot' \notin Sessions, Phase = "none", Phase' = "open",
         answers' = answers, Awaiting' <=> Awaiting
  PROVE  Promise!Begin
<1>1. (slot \in Sessions) = TRUE /\ (slot \in Sessions)' = FALSE /\ UNCHANGED Awaiting
  BY DEF Awaiting
<1> QED
  BY <1>1, Zenon DEF Promise!Begin, Awaiting

LEMMA CloseStep ==
  ASSUME Phase = "open", Phase' = "closing", answers > 0 \/ ~Awaiting, answers' = answers,
         slot' \in Sessions <=> slot \in Sessions, Awaiting' <=> Awaiting
  PROVE  Promise!Close
<1>1. UNCHANGED (slot \in Sessions) /\ UNCHANGED Awaiting
  BY DEF Awaiting
<1> QED
  BY <1>1, Zenon DEF Promise!Close, Awaiting

LEMMA EndStep ==
  ASSUME Phase = "closing", Phase' = "none", answers' = 0,
         slot' \in Sessions <=> slot \in Sessions, Awaiting' <=> Awaiting
  PROVE  Promise!End
<1>1. UNCHANGED (slot \in Sessions) /\ UNCHANGED Awaiting
  BY DEF Awaiting
<1> QED
  BY <1>1, Zenon DEF Promise!End, Awaiting

LEMMA RenewStep ==
  ASSUME Phase = "none", Phase' = "none", answers' = 0, slot' \notin Sessions, ~Awaiting'
  PROVE  Promise!Renew
<1>1. (slot \in Sessions)' = FALSE /\ Awaiting' = FALSE
  BY DEF Awaiting
<1> QED
  BY <1>1, Zenon DEF Promise!Renew, Awaiting

\* A call asks for a session, brings a new client, or is none of the framework's
\* business.
LEMMA ClientRefines == ASSUME IInv, Client PROVE UNCHANGED Promise!vars
<1> USE DEF IInv, TypeOK, Values, workerVars, history, told
<1>1. UNCHANGED <<wpc, answers, accepted, mClientCallback>>
  BY DEF Client, Authenticate, SetActiveGroup, Request, Pausing, Cancel,
     GetAuthenticatorId, SetNotify
<1>2. slot \notin Sessions /\ slot' \notin Sessions
  BY DEF Client, Authenticate, SetActiveGroup, Request, Pausing, Cancel,
     GetAuthenticatorId, SetNotify, RequestInv, Sessions
<1> QED
  BY <1>1, <1>2, StutterStep DEF Phase, InSession, Awaiting

LEMMA BinderRefines ==
  ASSUME IInv, Binder
  PROVE  Promise!Ask \/ Promise!Renew \/ UNCHANGED Promise!vars
<1> USE DEF IInv, TypeOK, Values, Return, workerVars, history, told, Command
<1>1. UNCHANGED Phase
  BY DEF Binder, AwaitPause, AuthenticateCommand, EnrollCommand, GroupCommand,
     RemoveCommand, EnumerateCommand, AwaitSession, Abort, CacheId, SetNotifyLocked,
     Phase, InSession
<1>2. CASE AuthenticateCommand \/ EnrollCommand
  <2>1. CASE slot' \in Sessions
    BY <1>1, <1>2, <2>1, AskStep DEF AuthenticateCommand, EnrollCommand
  <2>2. CASE slot' \notin Sessions
    <3>1. UNCHANGED <<slot, answers, accepted, mClientCallback>>
      BY <1>2, <2>2 DEF AuthenticateCommand, EnrollCommand, EnterSession, ReturnPaused,
         Sessions
    <3> QED
      BY <1>1, <3>1, StutterStep DEF Awaiting
  <2> QED
    BY <2>1, <2>2
<1>3. CASE GroupCommand \/ RemoveCommand \/ EnumerateCommand
  <2>1. slot \notin Sessions /\ slot' \notin Sessions
    BY <1>3 DEF GroupCommand, RemoveCommand, EnumerateCommand, Resume, PauseInv,
       PausePending, Sessions
  <2>2. UNCHANGED <<answers, accepted, mClientCallback>>
    BY <1>3 DEF GroupCommand, RemoveCommand, EnumerateCommand
  <2> QED
    BY <1>1, <2>1, <2>2, StutterStep DEF Awaiting
<1>4. CASE AwaitPause \/ AwaitSession \/ Abort \/ CacheId
  <2>1. UNCHANGED <<slot, answers, accepted, mClientCallback>>
    BY <1>4 DEF AwaitPause, AwaitSession, Abort, CacheId
  <2> QED
    BY <1>1, <2>1, StutterStep DEF Awaiting
<1>5. CASE SetNotifyLocked
  <2>1. slot' \notin Sessions /\ Phase = "none" /\ answers' = 0 /\ ~Awaiting'
    BY <1>5, Zenon DEF SetNotifyLocked, RequestInv, AnswerInv, Phase, InSession, Awaiting
  <2> QED
    BY <1>1, <2>1, RenewStep
<1> QED
  BY <1>2, <1>3, <1>4, <1>5 DEF Binder

\* The steps of a session that neither end it nor tell the client of its end.
Within ==
  /\ Phase = "open" /\ Phase' = "open"
  /\ UNCHANGED <<slot, answers, accepted, mClientCallback>>

\* Those that tell it.
Telling ==
  /\ Phase = "open" /\ Phase' \in {"open", "closing"} /\ answers = 0
  /\ answers' = answers + 1 /\ accepted' = FALSE
  /\ UNCHANGED <<slot, mClientCallback>>

\* Those that end a session of which the client has been told, or that has none.
Closing ==
  /\ Phase = "open" /\ Phase' = "closing" /\ (answers > 0 \/ ~Awaiting)
  /\ UNCHANGED <<slot, answers, accepted, mClientCallback>>

LEMMA SessionSteps ==
  ASSUME IInv, Worker \/ CaptureImage
  PROVE  Take \/ SessionEnd \/ Within \/ Telling \/ Closing
<1> USE DEF IInv, TypeOK, Values, AnswerInv, Serving, Goto, Outside, Quiet, Final,
            Within, Telling, Closing, Phase, InSession, told
<1>1. CASE StartSession
  BY <1>1 DEF StartSession, Awaiting
<1>2. CASE CaptureImage \/ CheckEvent
  BY <1>2 DEF CaptureImage, CheckEvent
<1>3. CASE AuthStep \/ UpdateTemplate \/ ReportMatch \/ Reinitialize
  BY <1>3 DEF AuthStep, UpdateTemplate, ReportMatch, Reinitialize
<1>4. CASE EnrollStep \/ StoreEnrolled \/ ReportEnrolled
  BY <1>4 DEF EnrollStep, StoreEnrolled, ReportEnrolled
<1>5. CASE PowerOff
  BY <1>5 DEF PowerOff
<1> QED
  BY <1>1, <1>2, <1>3, <1>4, <1>5 DEF Worker

\* Each step of the worker is the step of the session that it looks like.
LEMMA WorkerRefines ==
  ASSUME IInv, Worker \/ CaptureImage \/ Navigate
  PROVE  \/ Promise!Begin \/ Promise!Answer \/ Promise!Close \/ Promise!End
         \/ UNCHANGED Promise!vars
<1> USE DEF IInv, TypeOK, Values
<1>1. CASE Take
  <2>1. slot' \notin Sessions /\ Phase = "none" /\ answers' = answers
        /\ (Awaiting' <=> Awaiting)
    BY <1>1 DEF Take, Phase, InSession, Awaiting, history, told, Sessions
  <2>2. CASE slot \in Sessions
    <3>1. Phase' = "open"
      BY <1>1, <2>2 DEF Take, Phase, InSession, Sessions
    <3> QED
      BY <2>1, <2>2, <3>1, BeginStep
  <2>3. CASE slot \notin Sessions
    <3>1. Phase' = "none"
      BY <1>1, <2>3 DEF Take, Phase, InSession, Sessions
    <3> QED
      BY <2>1, <2>3, <3>1, StutterStep
  <2> QED
    BY <2>2, <2>3
<1>2. CASE SessionEnd
  <2>1. Phase = "closing" /\ Phase' = "none" /\ answers' = 0 /\ UNCHANGED slot
        /\ (Awaiting' <=> Awaiting)
    BY <1>2 DEF SessionEnd, Goto, Phase, InSession, Awaiting
  <2> QED
    BY <2>1, EndStep
<1>3. CASE Navigate
  <2>1. Phase' = Phase /\ UNCHANGED <<slot, answers>> /\ (Awaiting' <=> Awaiting)
    BY <1>3 DEF Navigate, Goto, Phase, InSession, Awaiting, Outside, told
  <2> QED
    BY <2>1, StutterStep
<1>4. CASE Within
  BY <1>4, StutterStep DEF Within, Awaiting
<1>5. CASE Telling
  <2>1. ~Awaiting'
    BY <1>5, Zenon DEF Telling, Awaiting
  <2> QED
    BY <1>5, <2>1, AnswerStep DEF Telling
<1>6. CASE Closing
  BY <1>6, CloseStep DEF Closing, Awaiting
<1> QED
  BY <1>1, <1>2, <1>3, <1>4, <1>5, <1>6, SessionSteps

\* The sessions of this HAL are those of FingerprintSession without a fault: what a
\* registered client asks for is begun, answered once and ended, on every path through
\* AuthenticateAsync and EnrollAsync and whatever calls come in the meantime.
THEOREM SessionRefinement == Spec => ImplementsSession
<1>1. Init => Promise!Init
  <2> SUFFICES ASSUME Init PROVE Promise!Init
    OBVIOUS
  <2>1. (slot \in Sessions) = FALSE /\ Phase = "none" /\ answers = 0 /\ Awaiting = FALSE
    BY DEF Init, Sessions, Phase, InSession, Awaiting
  <2> QED
    BY <2>1, Zenon DEF Promise!Init, Awaiting
<1>2. IInv /\ [Next]_vars => [Promise!Next]_(Promise!vars)
  <2> SUFFICES ASSUME IInv, [Next]_vars PROVE [Promise!Next]_(Promise!vars)
    OBVIOUS
  <2>1. CASE UNCHANGED vars
    <3>1. UNCHANGED <<slot, answers, accepted, mClientCallback, wpc>>
      BY <2>1 DEF vars, workerVars, history, told
    <3> QED
      BY <3>1, StutterStep DEF Phase, InSession, Awaiting
  <2> QED
    BY <2>1, ClientRefines, BinderRefines, WorkerRefines DEF Next, Aborted, Promise!Next
<1> QED
  BY <1>1, <1>2, Invariance, PTL DEF Spec, ImplementsSession, Promise!Spec

\* What FingerprintSession promises, and this HAL with it: who awaits a final callback
\* has a session that is to come or owes it, and no session makes two.
THEOREM PromiseKept == Spec => []Promise!Kept
<1> DEFINE Inv == /\ Promise!Kept /\ answers \in Nat
                  /\ Phase \in {"none", "open", "closing"} /\ (Phase = "none" => answers = 0)
<1> USE DEF Promise!Kept
<1>1. Promise!Init => Inv
  BY DEF Promise!Init
<1>2. Inv /\ [Promise!Next]_(Promise!vars) => Inv'
  <2> SUFFICES ASSUME Inv, [Promise!Next]_(Promise!vars) PROVE Inv'
    OBVIOUS
  <2>1. CASE Promise!Ask
    BY <2>1 DEF Promise!Ask
  <2>2. CASE Promise!Override
    BY <2>2 DEF Promise!Override
  <2>3. CASE Promise!Begin
    BY <2>3 DEF Promise!Begin
  <2>4. CASE Promise!Answer
    BY <2>4 DEF Promise!Answer
  <2>5. CASE Promise!Close
    BY <2>5 DEF Promise!Close
  <2>6. CASE Promise!End
    BY <2>6 DEF Promise!End
  <2>7. CASE Promise!Renew
    BY <2>7 DEF Promise!Renew
  <2>8. CASE UNCHANGED Promise!vars
    BY <2>8 DEF Promise!vars
  <2> QED
    BY <2>1, <2>2, <2>3, <2>4, <2>5, <2>6, <2>7, <2>8 DEF Promise!Next
<1>3. Inv => Promise!Kept
  OBVIOUS
<1> QED
  BY <1>1, <1>2, <1>3, SessionRefinement, PTL DEF ImplementsSession, Promise!Spec

\* The worker thread as this module uses it: every step is one that the mailbox
\* allows.  SyncWorker_proofs shows that SynchronizedWorker::Thread is one.
Box == INSTANCE Mailbox WITH Requests <- Sessions \cup {"Idle", "Pause"},
                             Empty <- "Invalid", Idle <- "Idle"

\* Every step of the HAL uses the worker thread as a mailbox with one slot.
THEOREM UsesMailbox == Spec => [][Box!Next]_<<slot, current>>
<1>1. IInv /\ [Next]_vars => [Box!Next]_<<slot, current>>
  <2> SUFFICES ASSUME IInv, [Next]_vars PROVE [Box!Next]_<<slot, current>>
    OBVIOUS
  <2> USE DEF IInv, TypeOK, Values, Box!Next, Box!Post, Box!Take, Box!FallBack
  <2>1. CASE Client
    BY <2>1 DEF Client, Authenticate, Request, SetActiveGroup, Pausing, Cancel,
       GetAuthenticatorId, SetNotify, workerVars, Sessions
  <2>2. CASE Binder
    <3>1. UNCHANGED current
      BY <2>2 DEF Binder, AwaitPause, AuthenticateCommand, EnrollCommand, GroupCommand,
         RemoveCommand, EnumerateCommand, AwaitSession, Abort, CacheId, SetNotifyLocked,
         workerVars
    <3>2. slot' \in Sessions \cup {"Idle"} \/ UNCHANGED slot
      BY <2>2 DEF Binder, AwaitPause, AuthenticateCommand, EnrollCommand, GroupCommand,
         RemoveCommand, EnumerateCommand, AwaitSession, Abort, CacheId, SetNotifyLocked,
         EnterSession, ReturnPaused, Resume, Sessions
    <3> QED
      BY <3>1, <3>2
  <2>3. CASE Worker \/ CaptureImage \/ Navigate
    <3>1. CASE Take
      BY <3>1 DEF Take
    <3>2. CASE SessionEnd
      BY <3>2 DEF SessionEnd
    <3>3. CASE Onward
      BY <3>3 DEF Onward
    <3> QED
      BY <2>3, <3>1, <3>2, <3>3, WorkerOnward
  <2> QED
    BY <2>1, <2>2, <2>3 DEF Next, Aborted, vars, workerVars
<1> QED
  BY <1>1, Invariance, PTL DEF Spec
===============================================================================
