-------------------------- MODULE EgisCurrent_proofs --------------------------
(***************************************************************************)
(* Proofs about EgisCurrent: its sessions are those of FingerprintSession, *)
(* and what they save and report is what they were asked for, for all      *)
(* groups, challenges, prints and limits of retries; its worker is the     *)
(* mailbox of Mailbox.                                                     *)
(***************************************************************************)
EXTENDS EgisCurrent, TLAPS

(* The inductive invariant.                                                   *)

\* Until the loop is left there is no outcome; between sessions nothing is told; what
\* is posted is a session.
ProgressInv ==
  /\ wpc \in Ahead => running \in Sessions
  /\ wpc \in Between => running = "Idle" /\ answers = 0
  /\ wpc \in {"init", "check", "do", "report", "wait"} => outcome = "none"
  /\ wpc = "report" => running = "Authenticate"
  /\ wpc = "notify" => running = "Enroll"
  /\ bpc = "post" => bop \in Sessions

\* A client that waits has a request in the slot, a session that has told it nothing
\* yet, or has lost.
AwaitInv == accepted => slot \in Sessions \/ (wpc \in Ahead /\ answers = 0) \/ lost

\* The request that session is about: on its way, in the slot or running.
Request ==
  IF bpc = "post" THEN bop
  ELSE IF slot \in Sessions THEN slot
  ELSE IF wpc \in Ahead THEN running
  ELSE "none"

\* A request that met nobody is alone: it is posted, waits or runs.
AloneInv ==
  session # Nobody =>
    /\ ~(bpc = "post" /\ slot \in Sessions)
    /\ bpc = "post" \/ slot \in Sessions => wpc \notin Ahead

\* What such a session reads is what the client asked with; an authentication keeps
\* its challenge in result when it clears mOperationId.
SessionInv ==
  session # Nobody =>
    /\ Request = "Authenticate" /\ wpc # "tell" => session = About(mGid, mOperationId)
    /\ Request = "Authenticate" /\ wpc = "tell" => session = About(mGid, session.id)
    /\ Request = "Enroll" => session = About(mGid, mNewPrintId)
    /\ Request = "Authenticate" /\ wpc \in Ahead /\ (wpc = "report" \/ outcome = "done") =>
         result = session

\* A print is saved right before the last report, and what a loop has reported before is
\* forgotten by then.
SavedInv ==
  /\ saved # Nobody => wpc \in {"notify", "end"}
  /\ reported # Nobody =>
       wpc \in {"check", "end"} \/ (wpc \in Ahead /\ running = "Authenticate")
  /\ wpc = "notify" /\ session # Nobody => saved \in {Nobody, About(mGid, mNewPrintId)}

IInv == TypeOK /\ ProgressInv /\ AwaitInv /\ AloneInv /\ SessionInv /\ SavedInv

USE CurrentAssumption

-------------------------------------------------------------------------------

\* What sessions are about.
LEMMA Somebodies ==
  /\ Nobody \in Somebody
  /\ \A g \in Groups, i \in Ids : About(g, i) \in Somebody
  /\ Challenges \subseteq Ids /\ Prints \subseteq Ids /\ None \in Ids
  /\ \A s \in Somebody : s.id \in Ids
BY DEF Somebody, About, Ids, Nobody

LEMMA InitIInv == Init => IInv
<1> SUFFICES ASSUME Init PROVE IInv
  OBVIOUS
<1>1. TypeOK
  <2>1. Flags
    BY DEF Init, Flags
  <2> QED
    BY <2>1, Somebodies DEF Init, TypeOK, Between, States
<1>2. ProgressInv /\ AwaitInv
  BY DEF Init, ProgressInv, AwaitInv, Ahead
<1>3. AloneInv /\ SessionInv /\ SavedInv
  BY DEF Init, AloneInv, SessionInv, SavedInv
<1> QED
  BY <1>1, <1>2, <1>3 DEF IInv

\* A process that died and came back knows nothing.
LEMMA DieStep ==
  ASSUME IInv, Die
  PROVE  IInv'
<1>1. TypeOK'
  <2>1. Flags'
    BY DEF IInv, Die, FreshLoop, TypeOK, Flags
  <2> QED
    BY <2>1, Somebodies DEF IInv, Die, FreshLoop, TypeOK, Between, States
<1>2. ProgressInv' /\ AwaitInv'
  BY DEF Die, FreshLoop, ProgressInv, AwaitInv, Ahead
<1>3. AloneInv' /\ SessionInv' /\ SavedInv'
  BY DEF Die, AloneInv, SessionInv, SavedInv
<1> QED
  BY <1>1, <1>2, <1>3 DEF IInv

-------------------------------------------------------------------------------
(* The binder thread.                                                         *)

\* authenticate and enroll write their field and then post.
LEMMA RequestStep ==
  ASSUME IInv, NEW op, NEW id,
         (op \in Challenges /\ Authenticate(op)) \/ (id \in Prints /\ Enroll(id))
  PROVE  IInv'
<1> USE DEF IInv
<1>1. UNCHANGED <<gestures, slot, workerVars, mGid, lost, told>> /\ bpc' = "post"
  BY DEF Authenticate, Enroll
<1>2. bop' \in Sessions
  BY DEF Authenticate, Enroll, Sessions
<1>3. TypeOK'
  <2>1. session' \in Somebody
    BY Somebodies DEF Authenticate, Enroll, Disturb, TypeOK
  <2>2. Flags'
    BY <1>1 DEF Authenticate, Enroll, TypeOK, Flags, workerVars, loopVars, told
  <2> QED
    BY <1>1, <1>2, <2>1, <2>2 DEF Authenticate, Enroll, TypeOK, workerVars, loopVars, told
<1>4. ProgressInv' /\ AwaitInv'
  BY <1>1, <1>2 DEF ProgressInv, AwaitInv, workerVars, loopVars, told
<1>5. session' # Nobody => ~Busy
  BY DEF Authenticate, Enroll, Disturb
<1>6. AloneInv'
  BY <1>1, <1>5 DEF Busy, AloneInv, workerVars
<1>7. SessionInv'
  <2>1. CASE op \in Challenges /\ Authenticate(op)
    BY <2>1, <1>1, <1>5
    DEF Busy, Authenticate, Disturb, SessionInv, Request, About, workerVars, loopVars, Sessions
  <2>2. CASE id \in Prints /\ Enroll(id)
    BY <2>2, <1>1, <1>5
    DEF Busy, Enroll, Disturb, SessionInv, Request, About, workerVars, loopVars, Sessions
  <2> QED
    BY <2>1, <2>2
<1>8. SavedInv'
  BY <1>1, <1>5 DEF Busy, SavedInv, Ahead, workerVars, loopVars, told
<1> QED
  BY <1>3, <1>4, <1>6, <1>7, <1>8

\* postEnroll and setActiveGroup change what a session that is alone does not read.
LEMMA DisturbStep ==
  ASSUME IInv, NEW g \in Groups, PostEnroll \/ SetActiveGroup(g)
  PROVE  IInv'
<1> USE DEF IInv
<1>1. /\ UNCHANGED <<gestures, slot, workerVars, binderVars, mOperationId, lost, told>>
      /\ bpc = "out" /\ Disturb(session)
  BY DEF PostEnroll, SetActiveGroup
<1>2. TypeOK'
  <2>1. session' \in Somebody
    BY <1>1, Somebodies DEF Disturb, TypeOK
  <2>2. Flags'
    BY <1>1 DEF PostEnroll, SetActiveGroup, TypeOK, Flags, workerVars, loopVars, told
  <2> QED
    BY <1>1, <2>1, <2>2
    DEF PostEnroll, SetActiveGroup, TypeOK, workerVars, loopVars, binderVars, told
<1>3. ProgressInv' /\ AwaitInv'
  BY <1>1 DEF ProgressInv, AwaitInv, workerVars, loopVars, binderVars, told
<1>4. session' # Nobody => ~Busy /\ session' = session
  BY <1>1 DEF Disturb
<1>5. AloneInv'
  BY <1>1, <1>4 DEF AloneInv, workerVars, binderVars
<1>6. SessionInv'
  BY <1>1, <1>4 DEF Busy, SessionInv, Request, workerVars, loopVars, binderVars
<1>7. SavedInv'
  BY <1>1, <1>4 DEF Busy, SavedInv, Ahead, workerVars, loopVars, told
<1> QED
  BY <1>2, <1>3, <1>5, <1>6, <1>7

LEMMA PostSessionStep ==
  ASSUME IInv, PostSession
  PROVE  IInv'
<1> USE DEF IInv, PostSession, workerVars, loopVars, shared
<1>1. TypeOK'
  <2>1. Flags'
    BY DEF TypeOK, Flags
  <2> QED
    BY <2>1 DEF TypeOK, ProgressInv
<1>2. ProgressInv' /\ AwaitInv'
  BY DEF ProgressInv, AwaitInv
<1>3. AloneInv'
  BY DEF AloneInv
<1>4. SessionInv'
  BY DEF SessionInv, Request, AloneInv, ProgressInv
<1>5. SavedInv'
  BY DEF SavedInv
<1> QED
  BY <1>1, <1>2, <1>3, <1>4, <1>5

\* cancel takes a request back that the worker has not taken.
LEMMA CancelStep ==
  ASSUME IInv, Cancel
  PROVE  IInv'
<1> USE DEF IInv, Cancel, workerVars, loopVars, binderVars, shared, told
<1>1. TypeOK'
  <2>1. Flags'
    BY DEF TypeOK, Flags
  <2> QED
    BY <2>1, Somebodies DEF TypeOK
<1>2. "Idle" \notin Sessions
  BY DEF Sessions
<1>3. ProgressInv' /\ AwaitInv'
  BY <1>2 DEF ProgressInv, AwaitInv
<1>4. AloneInv'
  BY <1>2 DEF AloneInv
<1>5. SessionInv'
  BY <1>2 DEF SessionInv, Request, AloneInv
<1>6. SavedInv'
  BY DEF SavedInv
<1> QED
  BY <1>1, <1>3, <1>4, <1>5, <1>6

-------------------------------------------------------------------------------
(* The worker thread.                                                         *)

LEMMA TakeStep ==
  ASSUME IInv, Take
  PROVE  IInv'
<1> USE DEF IInv, Take, binderVars, shared, history, told
<1>1. TypeOK'
  <2>1. Flags'
    BY DEF TypeOK, Flags, FreshLoop, loopVars
  <2> QED
    BY <2>1, Somebodies DEF TypeOK, FreshLoop, loopVars, Between, Ahead, States
<1>2. "Invalid" \notin Sessions /\ {"loop", "idle", "navigate"} \cap Ahead = {}
  BY DEF Sessions, Ahead
<1>3. ProgressInv' /\ AwaitInv'
  BY <1>2 DEF ProgressInv, AwaitInv, FreshLoop, loopVars, Ahead, Between
<1>4. AloneInv'
  BY <1>2 DEF AloneInv, Ahead
<1>5. SessionInv'
  BY <1>2 DEF SessionInv, Request, AloneInv, FreshLoop, loopVars, Ahead
<1>6. SavedInv'
  BY DEF SavedInv, Ahead, Between
<1> QED
  BY <1>1, <1>3, <1>4, <1>5, <1>6

\* Between sessions the worker only goes from one place to another.
LEMMA BetweenStep ==
  ASSUME IInv, GetNavEvent \/ IdleEnds \/ Gesture
  PROVE  IInv'
<1>1. /\ wpc \in Between /\ wpc' \in Between
      /\ Outside /\ UNCHANGED <<loopVars, shared, history>>
  BY DEF GetNavEvent, IdleEnds, Gesture, Goto, Between
<1>2. Between \cap Ahead = {} /\ {"check", "tell", "notify", "end"} \cap Between = {}
  BY DEF Between, Ahead
<1> USE <1>1, <1>2 DEF IInv, Outside, loopVars, shared, history, told, binderVars
<1>3. TypeOK'
  BY DEF TypeOK, Flags
<1>4. ProgressInv' /\ AwaitInv'
  BY DEF ProgressInv, AwaitInv, Between
<1>5. AloneInv' /\ SessionInv' /\ SavedInv'
  BY DEF AloneInv, SessionInv, SavedInv, Request
<1> QED
  BY <1>3, <1>4, <1>5

\* A step inside a session that writes no field of the HAL.  What it reports is forgotten
\* at the head of the loop.
Inside ==
  /\ wpc \in Ahead \ {"tell", "notify"} /\ wpc' \in Ahead \ {"notify"}
  /\ UNCHANGED <<gestures, slot, running, binderVars, shared, session, lost, saved>>
  /\ Answer \/ UNCHANGED <<answers, accepted>>
  /\ reported' \in Somebody
  /\ reported' # Nobody => wpc' = "check" \/ running = "Authenticate"
  /\ state' \in States
  /\ reImaged' \in 0 .. ReImageLimit + 1
  /\ force_retry' \in BOOLEAN /\ failed' \in BOOLEAN
  /\ outcome' \in {"none", "done", "canceled", "timeout"}
  /\ result' \in Somebody

\* Its outcome, and what it is about to report, is that of the last result.
Judged ==
  /\ wpc' \in {"init", "check", "do", "report", "wait"} => outcome' = "none"
  /\ wpc' = "report" => running = "Authenticate"
  /\ running = "Authenticate" /\ (wpc' = "report" \/ outcome' = "done") =>
       \/ outcome = "done" /\ result' = result
       \/ result' = About(mGid, mOperationId)

LEMMA InsideStep ==
  ASSUME IInv, Inside, Judged
  PROVE  IInv'
<1> USE DEF IInv, Inside, shared, binderVars
<1>1. TypeOK'
  <2>1. answers' \in 0 .. 2 /\ accepted' \in BOOLEAN
    <3>1. CASE Answer
      <4>1. answers' \in 0 .. 2
        BY <3>1 DEF Answer
      <4>2. accepted' = FALSE
        BY <3>1 DEF Answer
      <4> QED
        BY <4>1, <4>2
    <3>2. CASE UNCHANGED <<answers, accepted>>
      BY <3>2 DEF TypeOK, Flags
    <3> QED
      BY <3>1, <3>2
  <2>2. Flags'
    BY <2>1 DEF TypeOK, Flags
  <2> QED
    BY <2>1, <2>2 DEF TypeOK, Ahead
<1>2. ProgressInv' /\ AwaitInv'
  BY DEF ProgressInv, AwaitInv, Answer, Judged, Ahead, Between
<1>3. AloneInv' /\ SavedInv'
  BY DEF AloneInv, SavedInv, Ahead
<1>4. SessionInv'
  <2> SUFFICES ASSUME session # Nobody
               PROVE  SessionInv'
    BY DEF SessionInv
  <2>1. Request = running /\ Request' = running
    BY DEF Request, AloneInv
  <2> QED
    BY <2>1 DEF SessionInv, Judged, About
<1> QED
  BY <1>1, <1>2, <1>3, <1>4

\* What the loop has reported, where nothing is reported.
LEMMA ReportedBefore ==
  ASSUME IInv, wpc \in Ahead \ {"check"}, UNCHANGED reported
  PROVE  /\ reported' \in Somebody
         /\ reported' # Nobody => running = "Authenticate"
BY DEF IInv, TypeOK, SavedInv, Ahead

\* An iteration ends.
LEMMA GoOnStep ==
  ASSUME IInv, wpc \in {"do", "wait", "report"},
         NEW st \in States,
         NEW rc \in BOOLEAN, NEW end \in {"none", "done", "canceled", "timeout"},
         GoOn(st, rc, end),
         \/ UNCHANGED <<answers, accepted, reported>>
         \/ Answer /\ reported' \in Somebody /\ (running = "Enroll" => ~rc /\ end = "none"),
         reImaged' \in 0 .. ReImageLimit + 1, force_retry' \in BOOLEAN,
         result' \in Somebody,
         end = "done" /\ running = "Authenticate" => result' = About(mGid, mOperationId)
  PROVE  IInv'
<1>1. Answer \/ UNCHANGED <<answers, accepted>>
  OBVIOUS
<1>2. running \in Sessions
  BY DEF IInv, ProgressInv, Ahead
<1>3. reported' \in Somebody /\ (reported' # Nobody => wpc' = "check" \/ running = "Authenticate")
  BY <1>2, ReportedBefore DEF GoOn, Ahead, Sessions
<1>4. Inside
  BY <1>1, <1>3 DEF Inside, GoOn, Outside, Ahead
<1>5. Judged
  BY DEF Judged, GoOn
<1> QED
  BY <1>4, <1>5, InsideStep

LEMMA IterateStep ==
  ASSUME IInv, wpc \in {"do", "wait"},
         NEW st \in States,
         NEW rc \in BOOLEAN, NEW end \in {"none", "done", "canceled", "timeout"},
         Iterate(st, rc, end),
         reImaged' \in 0 .. ReImageLimit + 1, force_retry' \in BOOLEAN,
         result' \in Somebody,
         end = "done" /\ running = "Authenticate" => result' = About(mGid, mOperationId)
  PROVE  IInv'
BY GoOnStep DEF Iterate

\* The steps of the two loops.
LEMMA LoopStep ==
  ASSUME IInv,
         \/ CommandError \/ WaitEvent \/ WaitFinger \/ WaitTimeout \/ WaitError
         \/ ImageTaken \/ Identify \/ TellIdentified \/ EnrollStep
  PROVE  IInv'
<1> USE DEF IInv, TypeOK, Flags, States
<1>1. CASE CommandError
  BY <1>1, IterateStep DEF CommandError
<1>2. CASE WaitEvent \/ WaitTimeout \/ WaitError
  BY <1>2, IterateStep DEF WaitEvent, WaitTimeout, WaitError
<1>3. CASE WaitFinger
  <2> DEFINE st == IF state = "WaitFingerDown" THEN "GetImage"
                   ELSE IF running = "Authenticate" THEN "WaitFingerDown" ELSE state
  <2>1. Iterate(st, FALSE, "none") /\ wpc = "wait"
        /\ UNCHANGED <<reImaged, force_retry, result>>
    BY <1>3 DEF WaitFinger
  <2>2. st \in States
    OBVIOUS
  <2> QED
    BY <2>1, <2>2, IterateStep
<1>4. CASE ImageUsable \/ ImageUseless
  <2>1. /\ wpc = "do" /\ UNCHANGED result
        /\ reImaged' \in {0, reImaged} /\ force_retry' = FALSE
        /\ \E st \in States : Iterate(st, FALSE, "none")
    BY <1>4 DEF ImageUsable, ImageUseless, GetImage
  <2>2. reImaged' \in 0 .. ReImageLimit + 1
    BY <2>1
  <2> QED
    BY <2>1, <2>2, IterateStep
<1>5. CASE ImageBad
  <2>1. /\ wpc = "do" /\ UNCHANGED result /\ force_retry' \in BOOLEAN
        /\ \E st \in {"GetImage", "WaitFingerLost"}, rc \in BOOLEAN : Iterate(st, rc, "none")
    BY <1>5 DEF ImageBad, GetImage
  <2>2. \/ reImaged' = 0 \/ reImaged' = reImaged
        \/ reImaged <= ReImageLimit /\ reImaged' = reImaged + 1
    BY <1>5 DEF ImageBad
  <2>3. reImaged' \in 0 .. ReImageLimit + 1
    BY <2>2
  <2> QED
    BY <2>1, <2>3, IterateStep
<1>6. CASE Identify
  <2>1. About(mGid, mOperationId) \in Somebody
    BY Somebodies
  <2>2. CASE wpc' = "report"
    <3>1. UNCHANGED <<running, state, failed, outcome, reImaged, force_retry, shared, history>>
          /\ Outside /\ wpc = "do" /\ running = "Authenticate"
          /\ result' = About(mGid, mOperationId)
      BY <1>6, <2>2 DEF Identify, Iterate, GoOn
    <3>2. Inside
      BY <2>1, <2>2, <3>1 DEF Inside, Outside, history, told, Ahead
    <3>3. Judged
      BY <3>1 DEF Judged, ProgressInv
    <3> QED
      BY <3>2, <3>3, InsideStep
  <2>3. CASE wpc' # "report"
    BY <1>6, <2>1, <2>3, IterateStep DEF Identify
  <2> QED
    BY <2>2, <2>3
<1>7. CASE TellIdentified
  <2>1. About(mGid, result.id) \in Somebody
    BY Somebodies
  <2>2. running = "Authenticate"
    BY <1>7 DEF TellIdentified, ProgressInv
  <2>3. PICK st \in {"Step", "WaitFingerLost"}, rc \in BOOLEAN : GoOn(st, rc, "none")
    BY <1>7 DEF TellIdentified
  <2> QED
    BY <1>7, <2>1, <2>2, <2>3, GoOnStep DEF TellIdentified
<1>8. CASE EnrollStep
  <2>1. About(mGid, mNewPrintId) \in Somebody
    BY Somebodies
  <2>2. CASE \E end \in {"none", "done"}, rc \in BOOLEAN : Iterate("WaitFingerLost", rc, end)
    BY <1>8, <2>2, IterateStep DEF EnrollStep
  <2>3. CASE GoOn("WaitFingerLost", FALSE, "none") /\ Answer /\ reported' = About(mGid, mNewPrintId)
    BY <1>8, <2>1, <2>3, GoOnStep DEF EnrollStep
  <2> QED
    BY <1>8, <2>2, <2>3 DEF EnrollStep
<1> QED
  BY <1>1, <1>2, <1>3, <1>4, <1>5, <1>6, <1>7, <1>8 DEF ImageTaken

\* The steps that only move on, and the look at a finger that may have gone.
LEMMA MoveStep ==
  ASSUME IInv, LoopHead \/ DetectMode \/ Finalize \/ FingerLost
  PROVE  IInv'
<1> USE DEF IInv, TypeOK, Flags, loopVars, history, told, Outside
<1>1. CASE FingerLost /\ Iterate("WaitFingerDown", FALSE, "none")
  BY <1>1, IterateStep DEF FingerLost, States
<1>2. CASE ~(FingerLost /\ Iterate("WaitFingerDown", FALSE, "none"))
  <2>1. /\ wpc \in {"check", "do", "finalize"} /\ wpc' \in Ahead \ {"notify"}
        /\ UNCHANGED <<answers, accepted>>
        /\ \/ reported' = Nobody
           \/ wpc \in Ahead \ {"check"} /\ UNCHANGED reported
    BY <1>2 DEF LoopHead, DetectMode, Finalize, FingerLost, Ahead
  <2>2. reported' \in Somebody /\ (reported' # Nobody => running = "Authenticate")
    BY <2>1, ReportedBefore, Somebodies
  <2>3. Inside
    BY <1>2, <2>1, <2>2 DEF LoopHead, DetectMode, Finalize, FingerLost, Inside, States, Ahead
  <2>4. Judged
    BY <1>2 DEF LoopHead, DetectMode, Finalize, FingerLost, Judged, ProgressInv
  <2> QED
    BY <2>3, <2>4, InsideStep
<1> QED
  BY <1>1, <1>2

\* A session that cannot be initialized, or that has told its client, is at its end.
LEMMA EndStep ==
  ASSUME IInv, wpc \in Ahead, wpc' = "end",
         answers' \in 0 .. 2, accepted' \in BOOLEAN, lost' \in BOOLEAN,
         reported' \in Somebody,
         accepted' => slot \in Sessions \/ lost',
         UNCHANGED <<gestures, slot, binderVars, loopVars, shared, session, saved>>
  PROVE  IInv'
<1> USE DEF IInv, loopVars, shared, binderVars
<1>1. TypeOK'
  <2>1. Flags'
    BY DEF TypeOK, Flags
  <2> QED
    BY <2>1 DEF TypeOK
<1>2. ProgressInv' /\ AwaitInv'
  BY DEF ProgressInv, AwaitInv, Ahead, Between
<1>3. AloneInv' /\ SessionInv' /\ SavedInv'
  BY DEF AloneInv, SessionInv, SavedInv, Request, Ahead
<1> QED
  BY <1>1, <1>2, <1>3

\* Every session comes to its end by one of these.
LEMMA TellStep ==
  ASSUME IInv,
         \/ InitializeSession \/ TellError \/ TellMatch \/ TellNobody
         \/ FinishEnroll /\ wpc = "notify"
  PROVE  IInv'
<1> USE DEF IInv, Outside, told
<1>1. CASE InitializeSession /\ wpc' = "check"
  <2>1. Inside
    BY <1>1, ReportedBefore DEF InitializeSession, Inside, TypeOK, Flags, Ahead, loopVars
  <2>2. Judged
    BY <1>1 DEF InitializeSession, Judged, ProgressInv, loopVars
  <2> QED
    BY <2>1, <2>2, InsideStep
<1>2. CASE TellNobody
  <2>1. accepted' => slot \in Sessions \/ lost'
    BY <1>2 DEF TellNobody, AwaitInv
  <2>2. lost' \in BOOLEAN
    BY <1>2 DEF TellNobody, TypeOK, Flags
  <2> QED
    BY <1>2, <2>1, <2>2, EndStep DEF TellNobody, TypeOK, Flags, Ahead
<1>3. CASE ~TellNobody /\ ~(InitializeSession /\ wpc' = "check")
  <2>1. About(mGid, mNewPrintId) \in Somebody /\ About(mGid, result.id) \in Somebody
    BY Somebodies DEF TypeOK
  <2>2. /\ wpc \in Ahead /\ wpc' = "end" /\ Answer
        /\ reported' \in {reported, About(mGid, mNewPrintId), About(mGid, result.id)}
        /\ UNCHANGED <<gestures, slot, binderVars, loopVars, shared, session, saved, lost>>
    BY <1>3 DEF InitializeSession, TellError, TellMatch, FinishEnroll, Ahead
  <2>3. answers' \in 0 .. 2 /\ accepted' = FALSE
    BY <2>2 DEF Answer, TypeOK
  <2> QED
    BY <2>1, <2>2, <2>3, EndStep DEF TypeOK, Flags
<1> QED
  BY <1>1, <1>2, <1>3

\* An enrolled print is saved under the names that are reported next.
LEMMA SaveStep ==
  ASSUME IInv, FinishEnroll, wpc = "tell"
  PROVE  IInv'
<1> USE DEF IInv, FinishEnroll, Outside, loopVars, shared, binderVars
<1>1. TypeOK'
  <2>1. Flags'
    BY DEF TypeOK, Flags
  <2> QED
    BY <2>1, Somebodies DEF TypeOK, Ahead
<1>2. ProgressInv' /\ AwaitInv'
  BY DEF ProgressInv, AwaitInv, Ahead, Between
<1>3. AloneInv' /\ SessionInv' /\ SavedInv'
  BY DEF AloneInv, SessionInv, SavedInv, Request, Ahead
<1> QED
  BY <1>1, <1>2, <1>3

\* The challenge is cleared when the result has it.
LEMMA ClearStep ==
  ASSUME IInv, ClearChallenge
  PROVE  IInv'
<1> USE DEF IInv, ClearChallenge, Outside, loopVars, binderVars, history, told
<1>1. TypeOK'
  <2>1. Flags'
    BY DEF TypeOK, Flags
  <2> QED
    BY <2>1 DEF TypeOK, Ahead
<1>2. ProgressInv' /\ AwaitInv'
  BY DEF ProgressInv, AwaitInv, Ahead, Between
<1>3. AloneInv' /\ SavedInv'
  BY DEF AloneInv, SavedInv, Ahead
<1>4. SessionInv'
  BY DEF SessionInv, AloneInv, Request, About, Ahead
<1> QED
  BY <1>1, <1>2, <1>3, <1>4

LEMMA SessionEndStep ==
  ASSUME IInv, SessionEnd
  PROVE  IInv'
<1> USE DEF IInv, SessionEnd, Outside, shared, binderVars
<1>1. TypeOK'
  <2>1. Flags'
    BY DEF TypeOK, Flags, FreshLoop
  <2> QED
    BY <2>1, Somebodies DEF TypeOK, FreshLoop, Between, States
<1>2. ProgressInv' /\ AwaitInv'
  BY DEF ProgressInv, AwaitInv, FreshLoop, Ahead, Between
<1>3. AloneInv' /\ SessionInv' /\ SavedInv'
  BY DEF AloneInv, SessionInv, SavedInv, Request, Ahead
<1> QED
  BY <1>1, <1>2, <1>3

-------------------------------------------------------------------------------

LEMMA NextStep ==
  ASSUME IInv, Next
  PROVE  IInv'
<1>1. CASE Client
  BY <1>1, RequestStep, DisturbStep, CancelStep DEF Client, IInv, TypeOK
<1>2. CASE PostSession
  BY <1>2, PostSessionStep
<1>3. CASE Worker
  BY <1>3, TakeStep, BetweenStep, TellStep, MoveStep, LoopStep, ClearStep, SaveStep,
     SessionEndStep DEF Worker, FinishEnroll
<1>4. CASE Sensor
  BY <1>4, BetweenStep, LoopStep DEF Sensor
<1>5. CASE Die
  BY <1>5, DieStep
<1> QED
  BY <1>1, <1>2, <1>3, <1>4, <1>5 DEF Next

LEMMA StutterStep ==
  ASSUME IInv, UNCHANGED vars
  PROVE  IInv'
BY DEF IInv, TypeOK, Flags, ProgressInv, AwaitInv, AloneInv, SessionInv, SavedInv, Request,
       vars, workerVars, loopVars, binderVars, shared, history, told

\* The inductive invariant holds in every behaviour of the HAL.
THEOREM Invariance == Spec => []IInv
<1>1. IInv /\ [Next]_vars => IInv'
  BY NextStep, StutterStep
<1> QED
  BY <1>1, InitIInv, PTL DEF Spec

\* The HAL's fields stay in their types, and no more than ReImageLimit + 1 retries of
\* a bad image are forced.
THEOREM TypeCorrect == Spec => []TypeOK
BY Invariance, PTL DEF IInv

\* When both threads rest, a client that was told SYS_OK (authenticate, enroll) has had
\* a final callback of AuthenticateAsync or EnrollAsync, but for the lost ones.
THEOREM Answering == Spec => []AnsweredUnlessLost
<1>1. IInv => AnsweredUnlessLost
  BY DEF IInv, AwaitInv, AnsweredUnlessLost, Rest, Ahead, Sessions
<1> QED
  BY <1>1, Invariance, PTL

\* Only four steps report a success, and only one saves a print.
LEMMA Reporters ==
  ASSUME Next
  PROVE  /\ reported' \notin {reported, Nobody} =>
              TellIdentified \/ EnrollStep \/ TellMatch \/ FinishEnroll
         /\ saved' \notin {saved, Nobody} => FinishEnroll
<1> USE DEF workerVars, loopVars, history, told, Outside
<1>1. CASE Client
  BY <1>1 DEF Client, Authenticate, Enroll, SetActiveGroup, Cancel, PostEnroll
<1>2. CASE PostSession \/ Die
  BY <1>2 DEF PostSession, Die, Between
<1>3. CASE Take \/ GetNavEvent \/ IdleEnds \/ LoopHead \/ DetectMode \/ FingerLost
  BY <1>3 DEF Take, GetNavEvent, IdleEnds, Goto, LoopHead, DetectMode, FingerLost, Iterate, GoOn
<1>4. CASE Sensor \/ ImageTaken \/ CommandError \/ WaitEvent \/ Identify
  BY <1>4
  DEF Sensor, Gesture, Goto, WaitFinger, WaitTimeout, WaitError, WaitEvent, ImageTaken, GetImage,
      ImageUsable, ImageUseless, ImageBad, CommandError, Identify, Iterate, GoOn
<1>5. CASE InitializeSession \/ Finalize \/ ClearChallenge \/ TellError \/ TellNobody \/ SessionEnd
  BY <1>5
  DEF InitializeSession, Finalize, ClearChallenge, TellError, TellNobody, SessionEnd, Answer
<1>6. CASE TellIdentified \/ EnrollStep \/ TellMatch \/ FinishEnroll
  BY <1>6 DEF TellIdentified, EnrollStep, TellMatch, Iterate, GoOn
<1> QED
  BY <1>1, <1>2, <1>3, <1>4, <1>5, <1>6 DEF Next, Worker

\* The print that EnrollAsync reports at its end is the one it saved.
THEOREM SavedPrint == Spec => PrintSavedAsReported
<1> DEFINE P == <<saved, reported>>' # <<saved, reported>> /\ Nobody \notin {saved', reported'}
                  /\ session # Nobody => saved' = reported'
<1>1. IInv /\ [Next]_vars => [P]_vars
  <2> SUFFICES ASSUME IInv, Next, <<saved, reported>>' # <<saved, reported>>,
                      Nobody \notin {saved', reported'}, session # Nobody
               PROVE  saved' = reported'
    OBVIOUS
  <2> USE DEF IInv, SavedInv, ProgressInv, Ahead
  <2>1. CASE FinishEnroll
    BY <2>1 DEF FinishEnroll
  <2>2. CASE ~FinishEnroll
    <3>1. saved' = saved /\ wpc \in {"notify", "end"}
      BY <2>2, Reporters
    <3>2. TellIdentified \/ EnrollStep \/ TellMatch
      BY <2>2, <3>1, Reporters
    <3> QED
      BY <3>1, <3>2 DEF TellIdentified, EnrollStep, TellMatch
  <2> QED
    BY <2>1, <2>2
<1> QED
  BY <1>1, Invariance, PTL DEF Spec, PrintSavedAsReported

\* What AuthenticateAsync and EnrollAsync report is what authenticate and enroll were
\* called with.
THEOREM SuccessNaming == Spec => SuccessNamesItsSession
<1> DEFINE P == reported' \notin {reported, Nobody} /\ session # Nobody =>
                  /\ reported' = session
                  /\ running = "Authenticate" => result = session
<1>1. IInv /\ [Next]_vars => [P]_vars
  <2> SUFFICES ASSUME IInv, Next, reported' \notin {reported, Nobody}, session # Nobody
               PROVE  reported' = session /\ (running = "Authenticate" => result = session)
    OBVIOUS
  <2>1. TellIdentified \/ EnrollStep \/ TellMatch \/ FinishEnroll
    BY Reporters
  <2>2. wpc \in {"report", "do", "tell", "notify"}
    BY <2>1 DEF TellIdentified, EnrollStep, TellMatch, FinishEnroll
  <2>3. Request = running
    BY <2>2 DEF IInv, AloneInv, Request, Ahead
  <2>4. CASE TellMatch
    <3>1. result = session /\ session = About(mGid, session.id)
      BY <2>2, <2>3, <2>4 DEF TellMatch, IInv, SessionInv, Ahead
    <3> QED
      BY <2>4, <3>1 DEF TellMatch
  <2>5. CASE TellIdentified
    <3>1. running = "Authenticate"
      BY <2>5 DEF TellIdentified, IInv, ProgressInv
    <3>2. result = session /\ session = About(mGid, mOperationId)
      BY <2>2, <2>3, <2>5, <3>1 DEF TellIdentified, IInv, SessionInv, Ahead
    <3> QED
      BY <2>5, <3>2 DEF TellIdentified, About
  <2>6. CASE EnrollStep \/ FinishEnroll
    BY <2>3, <2>6 DEF EnrollStep, Iterate, GoOn, FinishEnroll, IInv, SessionInv
  <2> QED
    BY <2>1, <2>4, <2>5, <2>6
<1> QED
  BY <1>1, Invariance, PTL DEF Spec, SuccessNamesItsSession

-------------------------------------------------------------------------------
(* The sessions are those of FingerprintSession.                              *)

LEMMA StutterSession ==
  ASSUME slot' \in Sessions <=> slot \in Sessions, Phase' = Phase,
         UNCHANGED <<answers, accepted, lost>>
  PROVE  UNCHANGED Promise!vars
<1>1. UNCHANGED (slot \in Sessions)
  OBVIOUS
<1> QED
  BY <1>1, Zenon DEF Promise!vars

\* authenticate and enroll, and cancel before the worker takes their request.
LEMMA BinderRefines ==
  ASSUME IInv, Client \/ PostSession
  PROVE  Promise!Ask \/ Promise!Override \/ UNCHANGED Promise!vars
<1> USE DEF IInv, told
<1>1. UNCHANGED <<wpc, answers>>
  BY DEF Client, Authenticate, Enroll, SetActiveGroup, Cancel, PostEnroll, PostSession,
     workerVars
<1>2. UNCHANGED Phase
  BY <1>1 DEF Phase
<1>3. CASE PostSession
  <2>1. slot' \in Sessions /\ accepted' = TRUE /\ lost' = FALSE
    BY <1>3 DEF PostSession, ProgressInv
  <2>2. (slot \in Sessions)' = TRUE /\ accepted' \in BOOLEAN
    BY <2>1
  <2> QED
    BY <1>1, <1>2, <2>1, <2>2, Zenon DEF Promise!Ask
<1>4. CASE Cancel /\ slot \in Sessions
  <2>1. slot' \notin Sessions /\ UNCHANGED accepted
    BY <1>4 DEF Cancel, Sessions
  <2>2. (slot \in Sessions) = TRUE /\ (slot \in Sessions)' = FALSE
    BY <1>4, <2>1
  <2>3. lost' = TRUE
    BY <1>4, Zenon DEF Cancel
  <2> QED
    BY <1>1, <1>2, <2>1, <2>2, <2>3, Zenon DEF Promise!Override
<1>5. CASE Client /\ ~(Cancel /\ slot \in Sessions)
  <2>1. UNCHANGED accepted /\ (slot' \in Sessions <=> slot \in Sessions)
    BY <1>5 DEF Client, Authenticate, Enroll, SetActiveGroup, Cancel, PostEnroll, Sessions
  <2>2. UNCHANGED lost
    <3>1. CASE Cancel
      <4>1. (lost' <=> lost) /\ lost \in BOOLEAN /\ lost' \in BOOLEAN
        BY <1>5, <3>1, Zenon DEF Cancel, TypeOK, Flags
      <4> QED
        BY <4>1
    <3>2. CASE ~Cancel
      BY <1>5, <3>2 DEF Client, Authenticate, Enroll, SetActiveGroup, PostEnroll
    <3> QED
      BY <3>1, <3>2
  <2> QED
    BY <1>1, <1>2, <2>1, <2>2, StutterSession
<1> QED
  BY <1>3, <1>4, <1>5

\* The steps of the worker that the framework does not see.
Unseen == Phase' = Phase /\ UNCHANGED <<slot, answers, accepted, lost>>

\* Those that tell it of an end, whether it is the end or not.
Telling == wpc \in Ahead /\ wpc' \in Ahead \cup {"end"} /\ Answer /\ UNCHANGED <<slot, lost>>

LEMMA WorkerSteps ==
  ASSUME IInv, Worker \/ Sensor
  PROVE  Take \/ TellNobody \/ SessionEnd \/ Telling \/ Unseen
<1> USE DEF Outside, history, told, Unseen, Telling, Phase, Between
<1>1. CASE GetNavEvent \/ IdleEnds \/ Gesture
  BY <1>1 DEF GetNavEvent, IdleEnds, Gesture, Goto
<1>2. CASE LoopHead \/ DetectMode \/ FingerLost \/ Finalize \/ ClearChallenge
  BY <1>2 DEF LoopHead, DetectMode, FingerLost, Finalize, ClearChallenge, Iterate, GoOn
<1>3. CASE CommandError \/ WaitEvent \/ WaitFinger \/ WaitTimeout \/ WaitError
  BY <1>3 DEF CommandError, WaitEvent, WaitFinger, WaitTimeout, WaitError, Iterate, GoOn
<1>4. CASE ImageTaken \/ Identify \/ TellIdentified \/ EnrollStep
  BY <1>4 DEF ImageTaken, GetImage, ImageUsable, ImageUseless, ImageBad, Identify,
     TellIdentified, EnrollStep, Iterate, GoOn, Ahead
<1>5. CASE InitializeSession \/ TellError \/ TellMatch \/ FinishEnroll
  BY <1>5 DEF InitializeSession, TellError, TellMatch, FinishEnroll, Ahead
<1> QED
  BY <1>1, <1>2, <1>3, <1>4, <1>5 DEF Worker, Sensor

\* Each is the step of the session that it looks like.
LEMMA WorkerRefines ==
  ASSUME IInv, Worker \/ Sensor
  PROVE  \/ Promise!Begin \/ Promise!Answer \/ Promise!Close \/ Promise!End
         \/ UNCHANGED Promise!vars
<1> USE DEF IInv, Outside, told
<1>1. CASE Take
  <2>1. slot' \notin Sessions /\ Phase = "none" /\ UNCHANGED <<answers, accepted, lost>>
    BY <1>1 DEF Take, Sessions, Phase, Between, history
  <2>2. CASE slot \in Sessions
    <3>1. Phase' = "open"
      BY <1>1, <2>2 DEF Take, Phase, Between
    <3>2. (slot \in Sessions) = TRUE /\ (slot \in Sessions)' = FALSE
      BY <2>1, <2>2
    <3> QED
      BY <2>1, <3>1, <3>2, Zenon DEF Promise!Begin
  <2>3. CASE slot \notin Sessions
    <3>1. Phase' = "none"
      BY <1>1, <2>3 DEF Take, Phase, Between
    <3> QED
      BY <2>1, <2>3, <3>1, StutterSession
  <2> QED
    BY <2>2, <2>3
<1>2. CASE TellNobody
  <2>1. Phase = "open" /\ Phase' = "closing" /\ UNCHANGED <<slot, answers, accepted>>
    BY <1>2 DEF TellNobody, Phase, Between
  <2>2. UNCHANGED (slot \in Sessions)
    BY <2>1
  <2>3. CASE answers = 0
    <3>1. lost' = ~(slot \in Sessions)
      BY <1>2, <2>3, Zenon DEF TellNobody
    <3> QED
      BY <2>1, <2>2, <2>3, <3>1, Zenon DEF Promise!Close
  <2>4. CASE answers # 0
    <3>1. answers > 0
      BY <2>4 DEF TypeOK
    <3>2. UNCHANGED lost
      BY <1>2, <2>4 DEF TellNobody
    <3> QED
      BY <2>1, <2>2, <3>1, <3>2, Zenon DEF Promise!Close
  <2> QED
    BY <2>3, <2>4
<1>3. CASE SessionEnd
  <2>1. Phase = "closing" /\ Phase' = "none" /\ answers' = 0
        /\ UNCHANGED <<slot, accepted, lost>>
    BY <1>3 DEF SessionEnd, Phase, Between
  <2>2. UNCHANGED (slot \in Sessions)
    BY <2>1
  <2> QED
    BY <2>1, <2>2, Zenon DEF Promise!End
<1>4. CASE Telling
  <2>1. /\ Phase = "open" /\ Phase' \in {"open", "closing"}
        /\ answers' = (IF answers = 0 THEN 1 ELSE 2)
        /\ accepted' = FALSE /\ UNCHANGED <<slot, lost>>
    BY <1>4 DEF Telling, Answer, Phase, Between, Ahead
  <2>2. UNCHANGED (slot \in Sessions)
    BY <2>1
  <2> QED
    BY <2>1, <2>2, Zenon DEF Promise!Answer
<1>5. CASE Unseen
  BY <1>5, StutterSession DEF Unseen
<1> QED
  BY <1>1, <1>2, <1>3, <1>4, <1>5, WorkerSteps

\* A crash comes between two sessions and leaves no one who awaits a callback.
LEMMA DieRefines ==
  ASSUME IInv, Die
  PROVE  Promise!Renew
<1>1. /\ slot' \notin Sessions /\ Phase = "none" /\ Phase' = "none"
      /\ answers' = 0 /\ accepted' = FALSE /\ lost' = FALSE
  BY DEF Die, Phase, Between, Sessions
<1>2. (slot \in Sessions)' = FALSE
  BY <1>1
<1> QED
  BY <1>1, <1>2, Zenon DEF Promise!Renew

\* The sessions of this HAL are those of FingerprintSession with its three faults: cancel
\* drops a request that the worker has not taken; the last branch of AuthenticateAsync and
\* EnrollAsync tells nobody; and a loop goes on after Identify's status 0, or 0 remaining.
THEOREM SessionRefinement == Spec => ImplementsSession
<1>1. Init => Promise!Init
  <2> SUFFICES ASSUME Init PROVE Promise!Init
    OBVIOUS
  <2>1. /\ (slot \in Sessions) = FALSE /\ Phase = "none" /\ answers = 0
        /\ accepted = FALSE /\ lost = FALSE
    BY DEF Init, Sessions, Phase, Between
  <2> QED
    BY <2>1, Zenon DEF Promise!Init
<1>2. IInv /\ [Next]_vars => [Promise!Next]_(Promise!vars)
  <2> SUFFICES ASSUME IInv, [Next]_vars PROVE [Promise!Next]_(Promise!vars)
    OBVIOUS
  <2>1. CASE UNCHANGED vars
    <3>1. UNCHANGED <<slot, wpc, answers, accepted, lost>>
      BY <2>1 DEF vars, workerVars, history, told
    <3> QED
      BY <3>1, StutterSession DEF Phase
  <2> QED
    BY <2>1, BinderRefines, WorkerRefines, DieRefines DEF Next, Promise!Next
<1> QED
  BY <1>1, <1>2, Invariance, PTL DEF Spec, ImplementsSession, Promise!Spec

\* What FingerprintSession promises, and this HAL with it: who awaits a final callback
\* has a session that is to come or owes it, or has lost it by one of the faults.
THEOREM PromiseKept == Spec => []Promise!Kept
<1> DEFINE Inv == /\ Promise!Kept /\ answers \in Nat
                  /\ Phase \in {"none", "open", "closing"} /\ (Phase = "none" => answers = 0)
<1> USE DEF Promise!Kept
<1>1. Promise!Init => Inv
  BY DEF Promise!Init
<1>2. Inv /\ [Promise!Next]_(Promise!vars) => Inv'
  <2> SUFFICES ASSUME Inv, [Promise!Next]_(Promise!vars) PROVE Inv'
    OBVIOUS
  <2>1. CASE Promise!Ask
    BY <2>1 DEF Promise!Ask
  <2>2. CASE Promise!Override
    BY <2>2 DEF Promise!Override
  <2>3. CASE Promise!Begin
    BY <2>3 DEF Promise!Begin
  <2>4. CASE Promise!Answer
    BY <2>4 DEF Promise!Answer
  <2>5. CASE Promise!Close
    <3>1. \/ UNCHANGED lost /\ (answers > 0 \/ ~accepted)
          \/ slot \in Sessions \/ lost'
      BY <2>5, Zenon DEF Promise!Close
    <3>2. UNCHANGED <<answers, accepted>> /\ Phase' = "closing"
          /\ (slot' \in Sessions <=> slot \in Sessions)
      BY <2>5 DEF Promise!Close
    <3> QED
      BY <3>1, <3>2
  <2>6. CASE Promise!End
    BY <2>6 DEF Promise!End
  <2>7. CASE Promise!Renew
    BY <2>7 DEF Promise!Renew
  <2>8. CASE UNCHANGED Promise!vars
    BY <2>8 DEF Promise!vars
  <2> QED
    BY <2>1, <2>2, <2>3, <2>4, <2>5, <2>6, <2>7, <2>8 DEF Promise!Next
<1>3. Inv => Promise!Kept
  OBVIOUS
<1> QED
  BY <1>1, <1>2, <1>3, SessionRefinement, PTL DEF ImplementsSession, Promise!Spec

\* The worker thread as this module uses it: every step is one that the mailbox
\* allows, but for the death of the process, which empties it.  SyncWorker_proofs
\* shows that SynchronizedWorker::Thread is one.
Box == INSTANCE Mailbox WITH Requests <- Sessions \cup {"Idle"}, current <- running,
                             Empty <- "Invalid", Idle <- "Idle"

\* Only Take and SessionEnd change the worker's handler, or the slot for it.
LEMMA WorkerKeeps ==
  ASSUME Worker \/ Sensor, ~Take, ~SessionEnd
  PROVE  UNCHANGED <<slot, running>>
<1> USE DEF Outside, loopVars
<1>1. CASE GetNavEvent \/ IdleEnds \/ Gesture
  BY <1>1 DEF GetNavEvent, IdleEnds, Gesture, Goto
<1>2. CASE LoopHead \/ DetectMode \/ FingerLost \/ Finalize \/ ClearChallenge
  BY <1>2 DEF LoopHead, DetectMode, FingerLost, Finalize, ClearChallenge, Iterate, GoOn
<1>3. CASE CommandError \/ WaitEvent \/ WaitFinger \/ WaitTimeout \/ WaitError
  BY <1>3 DEF CommandError, WaitEvent, WaitFinger, WaitTimeout, WaitError, Iterate, GoOn
<1>4. CASE ImageTaken \/ Identify \/ TellIdentified \/ EnrollStep
  BY <1>4 DEF ImageTaken, GetImage, ImageUsable, ImageUseless, ImageBad, Identify,
     TellIdentified, EnrollStep, Iterate, GoOn, Ahead
<1>5. CASE InitializeSession \/ TellError \/ TellMatch \/ FinishEnroll \/ TellNobody
  BY <1>5 DEF InitializeSession, TellError, TellMatch, FinishEnroll, TellNobody
<1> QED
  BY <1>1, <1>2, <1>3, <1>4, <1>5 DEF Worker, Sensor

\* Every step of the HAL but the crash of its process uses the worker thread as a
\* mailbox with one slot.
THEOREM UsesMailbox == Spec => [][Box!Next \/ Die]_<<slot, running>>
<1>1. IInv /\ [Next]_vars => [Box!Next \/ Die]_<<slot, running>>
  <2> SUFFICES ASSUME IInv, [Next]_vars
               PROVE  [Box!Next \/ Die]_<<slot, running>>
    OBVIOUS
  <2> USE DEF Box!Next, Box!Post, Box!Take, Box!FallBack
  <2>1. CASE Client
    BY <2>1 DEF Client, Authenticate, Enroll, SetActiveGroup, Cancel, PostEnroll,
       workerVars, loopVars
  <2>2. CASE PostSession
    BY <2>2 DEF PostSession, IInv, ProgressInv, workerVars, loopVars
  <2>3. CASE Take
    BY <2>3 DEF Take, FreshLoop, loopVars, IInv, TypeOK, ProgressInv, Between, Sessions
  <2>4. CASE SessionEnd
    BY <2>4 DEF SessionEnd, FreshLoop, Outside
  <2> QED
    BY <2>1, <2>2, <2>3, <2>4, WorkerKeeps DEF Next, vars, workerVars, loopVars
<1> QED
  BY <1>1, Invariance, PTL DEF Spec

===============================================================================
