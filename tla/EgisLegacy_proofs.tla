--------------------------- MODULE EgisLegacy_proofs ---------------------------
(***************************************************************************)
(* Proofs about EgisLegacy: who owns which lock; that its sessions are     *)
(* those of FingerprintSession, and a success comes first and is about     *)
(* what was asked; that the authenticator id follows the set of prints;    *)
(* and that the worker is the mailbox of Mailbox: for all groups and       *)
(* challenges.                                                             *)
(***************************************************************************)
EXTENDS EgisLegacy, SequenceTheorems, TLAPS

(* The inductive invariant.                                                   *)

\* Which call is where.
CallInv ==
  /\ bpc = "out" <=> bop = "none"
  /\ bpc = "post" => bop = "authenticate"
  /\ bpc = "enumerate" <=> bop = "enumerate"
  /\ bpc \in {"notify", "rand", "randerr"} => bop = "remove"
  /\ bpc = "error" => bop \in {"authenticate", "enroll", "remove"}
  /\ bop # "authenticate" => barg = NoChallenge

\* A session owns the buffer from LockSession to its end, a call only to report an
\* error of enroll; the callback mutex is held over a step by enumerate alone.
LockInv ==
  /\ ionLock = "worker" <=> wpc \notin {"idle", "lock"}
  /\ ionLock = "binder" <=> bpc = "error" /\ bop = "enroll"
  /\ mClientCallbackMutex = "binder" <=> bpc = "enumerate"

\* Where a session has nothing to tell, and where it tells of a match.
LoopInv ==
  /\ wpc # "idle" => running \in Sessions
  /\ wpc \in {"idle", "lock", "wait", "off", "rand"} => todo = <<>>
  /\ wpc \in {"off", "wipe"} => running = "Authenticate"
  /\ wpc = "rand" => running = "Enroll"
  /\ \A i \in 1 .. Len(todo) : todo[i] = "success" => wpc = "wipe" /\ Len(todo) = 1

\* The worker's session will have a final callback, or may still have its first.
Promised == \E i \in 1 .. Len(todo) : todo[i] \in Terminal
Due == Promised \/ (answers = 0 /\ wpc \notin {"idle", "wipe", "end"})

AwaitInv == accepted => slot \in Sessions \/ lost \/ Due

\* Whoever changes the set of prints has a new authenticator id ahead.
IdInv == idStale => wpc = "rand" \/ (bop = "remove" /\ bpc # "error")

\* The calls that change what a session reads.
Meddling == {"authenticate", "enroll", "setActiveGroup"}

\* A session that met none of them was alone when it was posted.
AloneInv ==
  /\ Live /\ bop \in Meddling => overlap
  /\ slot \in Sessions /\ wpc # "idle" => overlap

GroupInv == bop # "setActiveGroup" /\ ~groupFailed => teeGid = mGid

\* authenticate has its challenge in the field, then in the TZ app.
TokenInv ==
  bop = "authenticate" /\ ~overlap =>
    /\ mCurrentChallenge = barg
    /\ bpc = "post" => teeChallenge = barg

Request == IF slot \in Sessions THEN slot ELSE running

\* The session of a request that is alone is about what the HAL and the TZ app hold.
SessionInv ==
  Live /\ ~overlap =>
    /\ session = [gid |-> mGid, challenge |-> teeChallenge]
    /\ Request = "Authenticate" /\ wpc # "end" => mCurrentChallenge = teeChallenge
    /\ wpc = "wipe" /\ todo # <<>> => token = teeChallenge

\* A failure is told when the session is at its end, an enrolled finger before; a match is
\* the first thing that is told, and without one an authentication fails.
FinalInv ==
  /\ wpc \in {"idle", "lock"} => answers = 0
  /\ wpc # "end" => ~failed
  /\ running = "Authenticate" /\ wpc \notin {"wipe", "end"} => answers = 0
  /\ wpc = "wipe" => (todo = <<>> <=> answers > 0)
  /\ wpc = "end" /\ running = "Authenticate" /\ todo = <<>> => answers > 0
  /\ \A i \in 1 .. Len(todo) :
       /\ wpc = "end" <=> todo[i] \in Failures
       /\ todo[i] = "enrolled" => running = "Enroll"
       /\ wpc = "wipe" => todo[i] = "success"

IInv ==
  /\ TypeOK /\ CallInv /\ LockInv /\ LoopInv /\ AwaitInv /\ IdInv
  /\ AloneInv /\ GroupInv /\ TokenInv /\ SessionInv /\ FinalInv

USE LegacyAssumption

-------------------------------------------------------------------------------

LEMMA InitIInv == Init => IInv
<1> SUFFICES ASSUME Init PROVE IInv
  OBVIOUS
<1>1. TypeOK
  <2>1. Flags
    BY DEF Init, Flags
  <2> QED
    BY <2>1 DEF Init, TypeOK, Owners
<1>2. CallInv /\ LockInv /\ LoopInv
  BY DEF Init, CallInv, LockInv, LoopInv
<1>3. AwaitInv /\ IdInv
  BY DEF Init, AwaitInv, IdInv
<1>4. AloneInv /\ GroupInv /\ TokenInv /\ SessionInv
  BY DEF Init, AloneInv, GroupInv, TokenInv, SessionInv, Live, Sessions
<1>5. FinalInv
  BY DEF Init, FinalInv
<1> QED
  BY <1>1, <1>2, <1>3, <1>4, <1>5 DEF IInv

-------------------------------------------------------------------------------
(* The binder thread.                                                         *)

\* A call that posts nothing leaves the session alone.
Apart == UNCHANGED <<slot, workerVars, accepted, told, lost, session, matched, reported>>

LEMMA ApartStep ==
  ASSUME IInv, Apart
  PROVE  /\ LoopInv' /\ AwaitInv' /\ FinalInv'
         /\ Live' = Live /\ Request' = Request
BY DEF IInv, Apart, workerVars, told, LoopInv, AwaitInv, Due, Promised, Live, Request, FinalInv

\* Calls that write what sessions read note whether one was live.
LEMMA MeddleStep ==
  ASSUME IInv, NEW ch, NEW g,
         \/ ch \in Challenges /\ Authenticate(ch)
         \/ g \in Groups /\ SetActiveGroup(g)
         \/ CallTz("enroll")
  PROVE  IInv'
<1> USE DEF IInv, Authenticate, SetActiveGroup, CallTz, Enter, told
<1>1. /\ Apart /\ bpc = "out" /\ bpc' = "ion" /\ bop' \in Meddling /\ overlap' = Live
      /\ UNCHANGED <<ionLock, mClientCallbackMutex, teeGid, teeChallenge, idStale, groupFailed>>
  BY DEF Apart, Meddling
<1>2. TypeOK'
  <2>1. Live \in BOOLEAN
    BY DEF Live
  <2>2. Flags'
    BY <1>1, <2>1 DEF TypeOK, Flags, Apart, workerVars
  <2> QED
    BY <1>1, <2>2 DEF TypeOK, Apart, workerVars
<1>3. CallInv' /\ LockInv'
  BY <1>1 DEF CallInv, LockInv, Apart, workerVars
<1>4. IdInv'
  BY <1>1 DEF IdInv, CallInv, Apart, workerVars
<1>5. AloneInv'
  BY <1>1, ApartStep DEF AloneInv, Live, Apart, workerVars
<1>6. GroupInv'
  BY DEF GroupInv, CallInv
<1>7. TokenInv' /\ SessionInv'
  BY <1>1, ApartStep DEF TokenInv, SessionInv
<1> QED
  BY <1>1, <1>2, <1>3, <1>4, <1>5, <1>6, <1>7, ApartStep

\* Calls that ask the TZ app or its database: what they change is the group, the token
\* or the set of prints.
LEMMA TzStep ==
  ASSUME IInv,
         \/ CallTz("remove") \/ CallTz("tz") \/ Enumerate
         \/ AuthenticateToken \/ CallError \/ TzDone \/ SetUserDataPath \/ EnumerateList
         \/ RemoveLocked \/ RemoveNotify \/ RemoveRand
  PROVE  IInv'
<1> USE DEF IInv, CallTz, Enumerate, Enter, AuthenticateToken, CallError, TzDone, SetUserDataPath,
            EnumerateList, RemoveLocked, RemoveNotify, RemoveRand, Return, binderVars, history, told
<1>1. /\ Apart /\ UNCHANGED <<overlap, mGid, mCurrentChallenge>>
      /\ bop' \in Meddling => bop' = bop
  BY DEF Apart, Meddling
<1>2. TypeOK'
  <2>1. UNCHANGED <<passed, accepted, failed, lost, overlap, matched>>
    BY DEF workerVars
  <2>2. idStale' \in BOOLEAN /\ groupFailed' \in BOOLEAN
    BY DEF TypeOK, Flags
  <2>3. Flags'
    BY <2>1, <2>2 DEF TypeOK, Flags
  <2> QED
    BY <2>3 DEF TypeOK, workerVars, Owners
<1>3. CallInv'
  BY DEF CallInv
<1>4. LockInv'
  BY DEF LockInv, CallInv, TypeOK, Owners, workerVars
<1>5. IdInv'
  BY DEF IdInv, CallInv, workerVars
<1>6. AloneInv'
  BY <1>1, ApartStep DEF AloneInv, Apart, workerVars
<1>7. GroupInv'
  BY DEF GroupInv, CallInv
<1>8. TokenInv'
  BY DEF TokenInv, CallInv
<1>9. SessionInv'
  <2>1. Live /\ ~overlap => UNCHANGED teeChallenge
    BY DEF AloneInv, Meddling
  <2> QED
    BY <1>1, <2>1, ApartStep DEF SessionInv, Apart, workerVars
<1> QED
  BY <1>1, <1>2, <1>3, <1>4, <1>5, <1>6, <1>7, <1>8, <1>9, ApartStep

\* A request is posted.
LEMMA PostStep ==
  ASSUME IInv, AuthenticatePost \/ EnrollLocked
  PROVE  IInv'
<1> USE DEF IInv, AuthenticatePost, EnrollLocked, Post, Return, workerVars, told
<1>1. "Authenticate" \in Sessions /\ "Enroll" \in Sessions
  BY DEF Sessions
<1>2. TypeOK'
  <2>1. Flags'
    BY DEF TypeOK, Flags
  <2> QED
    BY <1>1, <2>1 DEF TypeOK, Owners
<1>3. CallInv' /\ LockInv'
  BY DEF CallInv, LockInv
<1>4. LoopInv' /\ AwaitInv' /\ IdInv'
  BY <1>1 DEF LoopInv, AwaitInv, Due, Promised, IdInv
<1>5. bop \in Meddling /\ (~overlap => ~Live)
  BY DEF Meddling, AloneInv
<1>6. AloneInv' /\ GroupInv' /\ TokenInv'
  BY <1>5 DEF AloneInv, GroupInv, TokenInv, Live, Meddling, CallInv
<1>7. SessionInv'
  BY <1>1, <1>5 DEF SessionInv, Request, Live, TokenInv, CallInv, Sessions
<1>8. FinalInv'
  BY DEF FinalInv
<1> QED
  BY <1>2, <1>3, <1>4, <1>6, <1>7, <1>8

LEMMA CancelStep ==
  ASSUME IInv, Cancel
  PROVE  IInv'
<1> USE DEF IInv, Cancel, workerVars, binderVars, told
<1>1. "Idle" \notin Sessions
  BY DEF Sessions
<1>2. TypeOK'
  <2>1. Flags'
    BY DEF TypeOK, Flags
  <2> QED
    BY <2>1 DEF TypeOK
<1>3. CallInv' /\ LockInv'
  BY DEF CallInv, LockInv
<1>4. LoopInv' /\ AwaitInv' /\ IdInv'
  BY <1>1 DEF LoopInv, AwaitInv, Due, Promised, IdInv, TypeOK, Flags
<1>5. AloneInv' /\ GroupInv' /\ TokenInv'
  BY <1>1 DEF AloneInv, GroupInv, TokenInv, Live
<1>6. SessionInv'
  BY <1>1 DEF SessionInv, Request, Live, AloneInv
<1>7. FinalInv'
  BY DEF FinalInv
<1> QED
  BY <1>2, <1>3, <1>4, <1>5, <1>6, <1>7

-------------------------------------------------------------------------------
(* The worker thread.                                                         *)

LEMMA TakeStep ==
  ASSUME IInv, Take
  PROVE  IInv'
<1> USE DEF IInv, Take, binderVars, history, told
<1>1. "Invalid" \notin Sessions /\ "Idle" \notin Sessions
  BY DEF Sessions
<1>2. TypeOK'
  <2>1. Flags'
    BY DEF TypeOK, Flags
  <2> QED
    BY <2>1 DEF TypeOK
<1>3. CallInv' /\ LockInv'
  BY DEF CallInv, LockInv
<1>4. LoopInv'
  BY <1>1 DEF LoopInv, Sessions
<1>5. AwaitInv' /\ IdInv'
  BY <1>1 DEF AwaitInv, Due, Promised, LoopInv, FinalInv, IdInv
<1>6. AloneInv' /\ GroupInv' /\ TokenInv'
  BY <1>1 DEF AloneInv, GroupInv, TokenInv, Live
<1>7. SessionInv'
  BY <1>1 DEF SessionInv, Request, Live
<1>8. FinalInv'
  BY DEF FinalInv, LoopInv
<1> QED
  BY <1>2, <1>3, <1>4, <1>5, <1>6, <1>7, <1>8

\* The session waits for the buffer, which no call keeps.
LEMMA LockSessionStep ==
  ASSUME IInv, LockSession
  PROVE  IInv'
<1> USE DEF IInv, LockSession, SessionFrame, binderVars, told
<1>1. TypeOK'
  <2>1. Flags'
    BY DEF TypeOK, Flags
  <2> QED
    BY <2>1 DEF TypeOK, Owners
<1>2. CallInv' /\ LockInv'
  BY DEF CallInv, LockInv
<1>3. LoopInv' /\ AwaitInv' /\ IdInv'
  BY DEF LoopInv, AwaitInv, Due, Promised, IdInv
<1>4. AloneInv' /\ GroupInv' /\ TokenInv'
  BY DEF AloneInv, GroupInv, TokenInv, Live
<1>5. SessionInv'
  BY DEF SessionInv, Request, Live
<1>6. FinalInv'
  BY DEF FinalInv, LoopInv
<1> QED
  BY <1>1, <1>2, <1>3, <1>4, <1>5, <1>6

Loops == {"init", "step", "wait", "finalize"}

\* A step of the three loops.
LEMMA ThenStep ==
  ASSUME IInv, wpc \in Loops, todo = <<>>, NEW place \in Loops \cup {"end"},
         NEW notes \in Seq(Notes \ {"success"}), Len(notes) <= 2,
         Then(place, notes),
         passed' \in BOOLEAN, matched' \in BOOLEAN,
         place = "wait" => notes = <<>>,
         place = "end" => notes # <<>>,
         \A i \in 1 .. Len(notes) :
           /\ place = "end" <=> notes[i] \in Failures
           /\ notes[i] = "enrolled" => running = "Enroll"
  PROVE  IInv'
<1> USE DEF IInv, Then, SessionFrame, binderVars, told, Loops
<1>1. TypeOK'
  <2>1. Flags'
    BY DEF TypeOK, Flags
  <2>2. notes \in Seq(Notes)
    OBVIOUS
  <2> QED
    BY <2>1, <2>2 DEF TypeOK
<1>2. CallInv' /\ LockInv'
  BY DEF CallInv, LockInv
<1>3. \A i \in 1 .. Len(notes) : notes[i] # "success"
  OBVIOUS
<1>4. LoopInv'
  BY <1>3 DEF LoopInv
<1>5. AwaitInv' /\ IdInv'
  <2>1. CASE place = "end"
    <3>1. 1 \in 1 .. Len(notes)
      BY <2>1
    <3>2. Promised'
      BY <2>1, <3>1 DEF Promised, Terminal
    <3> QED
      BY <3>2 DEF AwaitInv, Due, IdInv
  <2>2. CASE place # "end"
    BY <2>2 DEF AwaitInv, Due, Promised, IdInv
  <2> QED
    BY <2>1, <2>2
<1>6. AloneInv' /\ GroupInv' /\ TokenInv'
  BY DEF AloneInv, GroupInv, TokenInv, Live
<1>7. SessionInv'
  BY DEF SessionInv, Request, Live
<1>8. FinalInv'
  BY DEF FinalInv
<1> QED
  BY <1>1, <1>2, <1>4, <1>5, <1>6, <1>7, <1>8

\* A step that leaves one note.
LEMMA OneNote ==
  ASSUME IInv, wpc \in Loops, todo = <<>>, NEW place \in Loops \cup {"end"},
         NEW note \in Notes \ {"success"},
         Then(place, <<note>>),
         passed' \in BOOLEAN, matched' \in BOOLEAN,
         place # "wait",
         place = "end" <=> note \in Failures,
         note = "enrolled" => running = "Enroll"
  PROVE  IInv'
<1> DEFINE notes == <<note>>
<1>1. notes \in Seq(Notes \ {"success"}) /\ Len(notes) = 1 /\ notes[1] = note /\ notes # <<>>
  OBVIOUS
<1> HIDE DEF notes
<1>2. Then(place, notes) /\ Len(notes) <= 2
  BY <1>1 DEF notes
<1>3. \A i \in 1 .. Len(notes) :
        /\ place = "end" <=> notes[i] \in Failures
        /\ notes[i] = "enrolled" => running = "Enroll"
  BY <1>1
<1> QED
  BY <1>1, <1>2, <1>3, ThenStep

LEMMA NoNote ==
  ASSUME IInv, wpc \in Loops, todo = <<>>, NEW place \in Loops,
         Then(place, <<>>),
         passed' \in BOOLEAN, matched' \in BOOLEAN
  PROVE  IInv'
<1>1. <<>> \in Seq(Notes \ {"success"}) /\ Len(<<>>) <= 2
  BY EmptySeq
<1>2. \A i \in 1 .. Len(<<>>) :
        /\ place = "end" <=> <<>>[i] \in Failures
        /\ <<>>[i] = "enrolled" => running = "Enroll"
  BY EmptySeq
<1>3. place # "end"
  BY DEF Loops
<1> QED
  BY <1>1, <1>2, <1>3, ThenStep

\* Steps that end a session tell the client so.
LEMMA BreakStep ==
  ASSUME IInv, CancelSession \/ CommandError \/ NoFingerprints \/ WaitTimeout \/ WaitError
  PROVE  IInv'
<1>1. /\ wpc \in Loops /\ todo = <<>> /\ UNCHANGED <<passed, matched>>
      /\ \/ Then("end", <<"canceled">>) \/ Then("end", <<"error", "canceled">>)
         \/ Then("end", <<"error">>) \/ Then("end", <<"canceled", "timeout">>)
  BY DEF CancelSession, CommandError, NoFingerprints, WaitTimeout, WaitError, At, Loops
<1>2. passed' \in BOOLEAN /\ matched' \in BOOLEAN
  BY <1>1 DEF IInv, TypeOK, Flags
<1>3. Failures \subseteq Notes \ {"success", "enrolled"}
  BY DEF Failures, Notes
<1>4. CASE \E n \in {"canceled", "error"} : Then("end", <<n>>)
  <2>1. PICK n \in {"canceled", "error"} : Then("end", <<n>>)
    BY <1>4
  <2>2. n \in Failures
    BY DEF Failures
  <2> QED
    BY <1>1, <1>2, <1>3, <2>1, <2>2, OneNote
<1>5. ASSUME NEW m \in Failures, NEW n \in Failures, Then("end", <<m, n>>)
      PROVE  IInv'
  <2> DEFINE notes == <<m, n>>
  <2>1. notes \in Seq(Notes \ {"success"}) /\ Len(notes) = 2 /\ notes # <<>>
    BY <1>3
  <2>2. \A i \in 1 .. 2 : notes[i] \in Failures
    OBVIOUS
  <2> HIDE DEF notes
  <2>3. Then("end", notes)
    BY <1>5 DEF notes
  <2>4. Len(notes) <= 2 /\ notes # <<>>
    BY <2>1
  <2>5. \A i \in 1 .. Len(notes) : notes[i] # "enrolled" /\ notes[i] \in Failures
    BY <1>3, <2>1, <2>2
  <2> QED
    BY <1>1, <1>2, <2>1, <2>3, <2>4, <2>5, ThenStep
<1> QED
  BY <1>1, <1>4, <1>5 DEF Failures

\* Steps within the loops.
LEMMA LoopStep ==
  ASSUME IInv,
         \/ InitDone \/ StepAgain \/ StepWait \/ WaitEnds \/ Match \/ NoMatch \/ EnrollStep
  PROVE  IInv'
<1> USE DEF At, Loops
<1>1. passed \in BOOLEAN /\ matched \in BOOLEAN
  BY DEF IInv, TypeOK, Flags
<1>2. {"acquired", "nomatch", "progress", "enrolled"} \subseteq Notes \ ({"success"} \cup Failures)
  BY DEF Notes, Failures
<1>3. CASE InitDone \/ StepWait \/ WaitEnds \/ Match
  BY <1>1, <1>3, NoNote DEF InitDone, StepWait, WaitEnds, Match
<1>4. CASE StepAgain
  <2>1. PICK note \in {"acquired", "nomatch"} : Then("step", <<note>>)
    BY <1>4 DEF StepAgain
  <2> QED
    BY <1>1, <1>2, <1>4, <2>1, OneNote DEF StepAgain
<1>5. CASE NoMatch \/ EnrollStep
  <2>1. wpc \in Loops /\ todo = <<>> /\ passed' \in BOOLEAN /\ matched' \in BOOLEAN
    BY <1>1, <1>5 DEF NoMatch, EnrollStep
  <2>2. CASE Then("finalize", <<>>)
    BY <2>1, <2>2, NoNote
  <2>3. CASE \E n \in {"acquired", "nomatch", "progress"} : Then("finalize", <<n>>)
    <3>1. PICK n \in {"acquired", "nomatch", "progress"} : Then("finalize", <<n>>)
      BY <2>3
    <3> QED
      BY <1>2, <2>1, <3>1, OneNote
  <2>4. CASE EnrollStep /\ Then("finalize", <<"enrolled">>)
    BY <1>2, <2>1, <2>4, OneNote DEF EnrollStep
  <2> QED
    BY <1>5, <2>2, <2>3, <2>4 DEF NoMatch, EnrollStep
<1> QED
  BY <1>3, <1>4, <1>5

LEMMA ShortSeq ==
  ASSUME NEW s, s = <<>> \/ s = <<"success">>
  PROVE  s \in Seq(Notes) /\ Len(s) <= 1
<1>1. CASE s = <<>>
  BY <1>1, EmptySeq
<1>2. CASE s = <<"success">>
  <2>1. "success" \in Notes
    BY DEF Notes
  <2> QED
    BY <1>2, <2>1
<1> QED
  BY <1>1, <1>2

\* What follows on the loops: the finger leaves, a new authenticator id, the end.
LEMMA AfterStep ==
  ASSUME IInv, FinalizeDone \/ FingerOff \/ WipeChallenge \/ EnrollRand \/ SessionEnd
  PROVE  IInv'
<1>0. todo' \in Seq(Notes) /\ Len(todo') <= 1
  <2>1. todo' = <<>> \/ todo' = <<"success">>
    BY DEF FinalizeDone, FingerOff, WipeChallenge, EnrollRand, SessionEnd, At
  <2> QED
    BY <2>1, ShortSeq
<1> USE DEF IInv, FinalizeDone, FingerOff, WipeChallenge, EnrollRand, EndUntold, SessionEnd, At,
            SessionFrame, binderVars, told
<1>1. TypeOK'
  <2>1. Flags'
    BY DEF TypeOK, Flags
  <2>2. Len(todo') <= 2
    BY <1>0
  <2> QED
    BY <1>0, <2>1, <2>2 DEF TypeOK, Owners
<1>2. CallInv' /\ LockInv'
  BY DEF CallInv, LockInv
<1>3. LoopInv'
  <2>1. CASE FinalizeDone \/ WipeChallenge \/ EnrollRand \/ SessionEnd
    BY <2>1 DEF LoopInv, Sessions
  <2>2. CASE FingerOff
    <3>1. todo' = <<>> \/ (todo' = <<"success">> /\ wpc' = "wipe")
      BY <2>2
    <3> QED
      BY <1>0, <2>2, <3>1 DEF LoopInv
  <2> QED
    BY <2>1, <2>2
<1>4. AwaitInv'
  <2>1. CASE FinalizeDone \/ WipeChallenge \/ EnrollRand \/ SessionEnd
    BY <2>1 DEF AwaitInv, Due, Promised, LoopInv, Sessions
  <2>2. CASE FingerOff /\ passed
    <3> DEFINE notes == <<"success">>
    <3>1. Len(notes) = 1 /\ notes[1] \in Terminal
      BY DEF Terminal, Successes
    <3>2. todo' = notes
      BY <2>2
    <3> HIDE DEF notes
    <3> QED
      BY <3>1, <3>2 DEF AwaitInv, Due, Promised
  <2>3. CASE FingerOff /\ ~passed
    BY <2>3 DEF AwaitInv, Due, Promised
  <2> QED
    BY <2>1, <2>2, <2>3
<1>5. IdInv'
  BY DEF IdInv, LoopInv, Sessions
<1>6. AloneInv' /\ GroupInv' /\ TokenInv'
  BY DEF AloneInv, GroupInv, TokenInv, Live, Meddling
<1>7. SessionInv'
  BY DEF SessionInv, Request, Live, AloneInv, LoopInv
<1>8. FinalInv'
  <2>1. CASE FinalizeDone \/ WipeChallenge \/ EnrollRand \/ SessionEnd
    BY <2>1 DEF FinalInv, LoopInv, Sessions
  <2>2. CASE FingerOff /\ passed
    <3> DEFINE notes == <<"success">>
    <3>1. Len(notes) = 1 /\ notes # <<>> /\ \A i \in 1 .. Len(notes) : notes[i] = "success"
      OBVIOUS
    <3>2. todo' = notes /\ answers' = 0 /\ ~failed' /\ wpc' = "wipe"
      BY <2>2 DEF FinalInv, LoopInv
    <3> HIDE DEF notes
    <3>3. \A i \in 1 .. Len(todo') : todo'[i] = "success"
      BY <3>1, <3>2
    <3>4. \A i \in 1 .. Len(todo') : todo'[i] \notin Failures /\ todo'[i] # "enrolled"
      BY <3>3 DEF Failures
    <3>5. todo' # <<>> /\ ~(answers' > 0)
      BY <3>1, <3>2
    <3> QED
      BY <3>2, <3>3, <3>4, <3>5 DEF FinalInv
  <2>3. CASE FingerOff /\ ~passed
    BY <2>3 DEF FinalInv
  <2> QED
    BY <2>1, <2>2, <2>3
<1> QED
  BY <1>1, <1>2, <1>3, <1>4, <1>5, <1>6, <1>7, <1>8

\* A callback.
LEMMA NotifyStep ==
  ASSUME IInv, Notify
  PROVE  IInv'
<1> USE DEF IInv, Notify, binderVars
<1>1. /\ Tail(todo) \in Seq(Notes) /\ Len(Tail(todo)) = Len(todo) - 1 /\ Len(todo) \in 1 .. 2
      /\ \A i \in 1 .. Len(Tail(todo)) : Tail(todo)[i] = todo[i + 1]
      /\ Head(todo) = todo[1]
  <2>1. todo \in Seq(Notes) /\ todo # <<>> /\ Len(todo) <= 2
    BY DEF TypeOK
  <2>2. Len(todo) \in 1 .. 2
    <3>1. Len(todo) \in Nat \ {0}
      BY <2>1, EmptySeq
    <3>2. \A n \in Nat \ {0} : n <= 2 => n \in 1 .. 2
      OBVIOUS
    <3> HIDE DEF IInv, Notify
    <3> QED
      BY <2>1, <3>1, <3>2
  <2> QED
    BY <2>1, <2>2, HeadTailProperties
<1>2. TypeOK'
  <2>1. Flags'
    BY DEF TypeOK, Flags
  <2> QED
    BY <1>1, <2>1 DEF TypeOK
<1>3. CallInv' /\ LockInv'
  BY DEF CallInv, LockInv
<1>4. wpc \notin {"idle", "lock", "wait", "off", "rand"}
  BY DEF LoopInv
<1>5. LoopInv'
  BY <1>1, <1>4 DEF LoopInv
<1>6. AwaitInv'
  <2>1. CASE Head(todo) \in Terminal
    BY <2>1 DEF AwaitInv
  <2>2. CASE Head(todo) \notin Terminal
    <3>1. wpc \notin {"wipe", "end"}
      BY <1>1, <2>2 DEF FinalInv, Terminal, Successes
    <3>2. Promised => Promised'
      BY <1>1, <2>2 DEF Promised
    <3> QED
      BY <2>2, <3>1, <3>2 DEF AwaitInv, Due
  <2> QED
    BY <2>1, <2>2
<1>7. Head(todo) = "success" => wpc = "wipe" /\ Tail(todo) = <<>>
  BY <1>1 DEF LoopInv
<1>8. IdInv' /\ AloneInv' /\ GroupInv'
  BY DEF IdInv, AloneInv, GroupInv, Live
<1>9. TokenInv'
  BY <1>4 DEF TokenInv, AloneInv, Live, Meddling
<1>10. SessionInv'
  BY <1>1, <1>7 DEF SessionInv, Request, Live, FinalInv
<1>11. FinalInv'
  <2>1. answers \in 0 .. 2
    BY DEF TypeOK
  <2>2. \A i \in 1 .. Len(todo') : i + 1 \in 1 .. Len(todo) /\ todo'[i] = todo[i + 1]
    BY <1>1
  <2>3. /\ wpc = "end" <=> Head(todo) \in Failures
        /\ wpc = "wipe" => Head(todo) = "success" /\ Tail(todo) = <<>>
        /\ Head(todo) = "enrolled" => running = "Enroll"
    BY <1>1, <1>7 DEF FinalInv
  <2>4. running = "Authenticate" /\ wpc \notin {"wipe", "end"} => Head(todo) \notin Terminal
    BY <1>7, <2>3 DEF Terminal, Successes
  <2>5. wpc = "end" \/ wpc = "wipe" => answers' > 0
    BY <2>1, <2>3 DEF Terminal, Successes
  <2>6. \A i \in 1 .. Len(todo') :
          /\ wpc = "end" <=> todo'[i] \in Failures
          /\ todo'[i] = "enrolled" => running = "Enroll"
          /\ wpc = "wipe" => todo'[i] = "success"
    BY <2>2 DEF FinalInv
  <2>7. wpc # "end" => ~failed'
    BY <2>3 DEF FinalInv
  <2> QED
    BY <1>4, <2>3, <2>4, <2>5, <2>6, <2>7 DEF FinalInv
<1> QED
  BY <1>2, <1>3, <1>5, <1>6, <1>8, <1>9, <1>10, <1>11

-------------------------------------------------------------------------------

LEMMA NextStep ==
  ASSUME IInv, Next
  PROVE  IInv'
<1>1. CASE Client
  BY <1>1, MeddleStep, TzStep, CancelStep DEF Client
<1>2. CASE Binder
  BY <1>2, TzStep, PostStep DEF Binder
<1>3. CASE Worker
  BY <1>3, TakeStep, LockSessionStep, BreakStep, LoopStep, AfterStep, NotifyStep DEF Worker
<1>4. CASE Sensor
  BY <1>4, LoopStep, BreakStep DEF Sensor
<1>5. CASE UNCHANGED vars
  BY <1>5
  DEF IInv, TypeOK, Flags, CallInv, LockInv, LoopInv, AwaitInv, Due, Promised, IdInv, AloneInv,
      GroupInv, TokenInv, SessionInv, FinalInv, Request, Live, vars, workerVars, binderVars,
      history, told
<1> QED
  BY <1>1, <1>2, <1>3, <1>4, <1>5 DEF Next, Deadlocked

\* The inductive invariant holds in every behaviour of the HAL.
THEOREM Invariance == Spec => []IInv
<1>1. IInv /\ [Next]_vars => IInv'
  <2>1. ASSUME IInv, UNCHANGED vars
        PROVE  IInv'
    BY <2>1
    DEF IInv, TypeOK, Flags, CallInv, LockInv, LoopInv, AwaitInv, Due, Promised, IdInv, AloneInv,
        GroupInv, TokenInv, SessionInv, FinalInv, Request, Live, vars, workerVars, binderVars,
      history, told
  <2> QED
    BY <2>1, NextStep
<1> QED
  BY <1>1, InitIInv, PTL DEF Spec

\* The HAL's fields stay in their types, and no more than two callbacks are ever ahead
\* of a session.
THEOREM TypeCorrect == Spec => []TypeOK
BY Invariance, PTL DEF IInv

\* When both threads rest, a client that was told SYS_OK (Authenticate, Enroll) has had a
\* final callback, but for a request that was overridden and an enrolment that finished
\* untold (EgisOperationLoops.cpp:307-318).
THEOREM Answering == Spec => []AnsweredUnlessLost
<1>1. IInv => AnsweredUnlessLost
  BY DEF IInv, AwaitInv, Due, Promised, LoopInv, AnsweredUnlessLost, Live
<1> QED
  BY <1>1, Invariance, PTL

\* Only an enrolment may end untold: AuthenticateAsync returns by no path that has not
\* called the client back.
THEOREM AuthenticationTells ==
  Spec => [][SessionEnd /\ running = "Authenticate" => answers > 0]_vars
<1>1. IInv /\ [Next]_vars => [SessionEnd /\ running = "Authenticate" => answers > 0]_vars
  BY DEF IInv, FinalInv, SessionEnd, At
<1> QED
  BY <1>1, Invariance, PTL DEF Spec

\* Whenever both threads rest, RemoveFinger and EnrollAsync have drawn a new
\* mAuthenticatorId for what they changed.
THEOREM FreshId == Spec => []AuthenticatorIdFresh
<1>1. IInv => AuthenticatorIdFresh
  BY DEF IInv, IdInv, CallInv, AuthenticatorIdFresh, Live
<1> QED
  BY <1>1, Invariance, PTL

\* The callbacks of AuthenticateAsync and EnrollAsync come in one order: no success after
\* a failure, and a match before every other final callback of its session.
THEOREM SuccessFirst == Spec => SuccessComesFirst
<1> DEFINE P == Notify /\ Head(todo) \in Successes =>
                  ~failed /\ (Head(todo) = "success" => answers = 0)
<1>1. IInv /\ [Next]_vars => [P]_vars
  <2> SUFFICES ASSUME IInv, Notify, Head(todo) \in Successes
               PROVE  ~failed /\ (Head(todo) = "success" => answers = 0)
    OBVIOUS
  <2>1. todo # <<>> /\ Head(todo) = todo[1] /\ 1 \in 1 .. Len(todo) /\ answers \in 0 .. 2
    BY DEF Notify, IInv, TypeOK
  <2>2. Head(todo) \notin Failures
    BY DEF Successes, Failures
  <2>3. ~failed
    BY <2>1, <2>2 DEF IInv, FinalInv
  <2>4. Head(todo) = "success" => answers = 0
    BY <2>1 DEF IInv, FinalInv, LoopInv
  <2> QED
    BY <2>3, <2>4
<1> QED
  BY <1>1, Invariance, PTL DEF Spec, SuccessComesFirst

\* What AuthenticateAsync reports is what Authenticate was called with, and what the TZ
\* app signed.
THEOREM SuccessNaming == Spec => SuccessNamesItsSession
<1> DEFINE P == reported' \notin {reported, Nobody} /\ ~overlap /\ ~groupFailed =>
                  /\ reported' = session
                  /\ reported' = [gid |-> teeGid, challenge |-> teeChallenge]
<1>1. IInv /\ [Next]_vars => [P]_vars
  <2> SUFFICES ASSUME IInv, Next, reported' \notin {reported, Nobody}, ~overlap, ~groupFailed
               PROVE  /\ reported' = session
                      /\ reported' = [gid |-> teeGid, challenge |-> teeChallenge]
    OBVIOUS
  <2>1. Notify /\ Head(todo) = "success"
    BY DEF Next, Deadlocked, Client, Binder, Worker, Sensor, vars, history, Then, SessionFrame,
       Authenticate, CallTz, SetActiveGroup, Cancel, Enumerate, AuthenticateToken,
       AuthenticatePost, Post, EnrollLocked, CallError, TzDone, SetUserDataPath, EnumerateList,
       RemoveLocked, RemoveNotify, RemoveRand, Take, LockSession, CancelSession, CommandError,
       NoFingerprints, InitDone, StepAgain, StepWait, WaitTimeout, WaitError, WaitEnds, Match,
       NoMatch, EnrollStep, FinalizeDone, FingerOff, WipeChallenge, EnrollRand, SessionEnd,
       Notify
  <2>2. todo # <<>> /\ Head(todo) = todo[1] /\ Len(todo) > 0
    BY <2>1 DEF Notify, IInv, TypeOK
  <2>3. wpc = "wipe"
    BY <2>1, <2>2 DEF IInv, LoopInv, TypeOK
  <2>4. session = [gid |-> mGid, challenge |-> teeChallenge] /\ token = teeChallenge
    BY <2>1, <2>2, <2>3 DEF IInv, SessionInv, Live
  <2>5. teeGid = mGid
    BY <2>3 DEF IInv, GroupInv, AloneInv, Live, Meddling
  <2> QED
    BY <2>1, <2>4, <2>5 DEF Notify
<1> QED
  BY <1>1, Invariance, PTL DEF Spec, SuccessNamesItsSession

\* The worker thread as this module uses it: moveToState posts, Take consumes, and the
\* end of a handler falls back.  SyncWorker_proofs shows that the worker thread is such
\* a mailbox.
Box == INSTANCE Mailbox WITH Requests <- Sessions \cup {"Idle"}, current <- running,
                             Empty <- "Invalid", Idle <- "Idle"

\* Every step of the HAL uses the worker thread as a mailbox with one slot.
THEOREM UsesMailbox == Spec => [][Box!Next]_<<slot, running>>
<1>1. [Next]_vars => [Box!Next]_<<slot, running>>
  <2> SUFFICES ASSUME [Next]_vars PROVE [Box!Next]_<<slot, running>>
    OBVIOUS
  <2> USE DEF Box!Next, Box!Post, Box!Take, Box!FallBack, Sessions
  <2>1. CASE AuthenticatePost \/ EnrollLocked \/ Cancel
    BY <2>1 DEF AuthenticatePost, EnrollLocked, Cancel, Post, workerVars
  <2>2. CASE Take \/ SessionEnd
    BY <2>2 DEF Take, SessionEnd
  <2>3. ASSUME Next, ~(AuthenticatePost \/ EnrollLocked \/ Cancel \/ Take \/ SessionEnd)
        PROVE  UNCHANGED <<slot, running>>
    <3>1. CASE Client \/ Binder
      BY <2>3, <3>1
      DEF Client, Binder, Authenticate, CallTz, SetActiveGroup, Enumerate, AuthenticateToken,
          CallError, TzDone, SetUserDataPath, EnumerateList, RemoveLocked, RemoveNotify,
          RemoveRand, workerVars
    <3>2. CASE Worker \/ Sensor
      BY <2>3, <3>2
      DEF Worker, Sensor, Then, SessionFrame, LockSession, CancelSession, CommandError,
          NoFingerprints, InitDone, StepAgain, StepWait, WaitTimeout, WaitError, WaitEnds,
          Match, NoMatch, EnrollStep, FinalizeDone, FingerOff, WipeChallenge, EnrollRand,
          Notify
    <3> QED
      BY <2>3, <3>1, <3>2 DEF Next, Deadlocked, vars, workerVars
  <2> QED
    BY <2>1, <2>2, <2>3 DEF vars, workerVars
<1> QED
  BY <1>1, PTL DEF Spec

-------------------------------------------------------------------------------
(* The sessions are those of FingerprintSession.                              *)

LEMMA StutterSession ==
  ASSUME slot' \in Sessions <=> slot \in Sessions, Phase' = Phase,
         UNCHANGED <<answers, accepted, lost>>
  PROVE  UNCHANGED Promise!vars
<1>1. UNCHANGED (slot \in Sessions)
  OBVIOUS
<1> QED
  BY <1>1, Zenon DEF Promise!vars

\* Authenticate and Enroll ask, and Cancel may drop what the worker has not taken.
LEMMA BinderRefines ==
  ASSUME IInv, Client \/ Binder
  PROVE  Promise!Ask \/ Promise!Override \/ UNCHANGED Promise!vars
<1>1. UNCHANGED <<wpc, todo, answers>>
  BY DEF Client, Binder, Authenticate, CallTz, SetActiveGroup, Cancel, Enumerate,
     AuthenticateToken, AuthenticatePost, EnrollLocked, CallError, TzDone, SetUserDataPath,
     EnumerateList, RemoveLocked, RemoveNotify, RemoveRand, workerVars, history, told
<1>2. UNCHANGED Phase
  BY <1>1 DEF Phase, At
<1>3. CASE \E s \in Sessions : Post(s)
  <2>1. slot' \in Sessions /\ accepted' = TRUE /\ lost' = FALSE
    BY <1>3 DEF Post
  <2>2. (slot \in Sessions)' = TRUE /\ accepted' \in BOOLEAN
    BY <2>1
  <2> QED
    BY <1>1, <1>2, <2>1, <2>2, Zenon DEF Promise!Ask
<1>4. CASE Cancel /\ slot \in Sessions
  <2>1. slot' \notin Sessions /\ UNCHANGED accepted
    BY <1>4 DEF Cancel, Sessions
  <2>2. (slot \in Sessions) = TRUE /\ (slot \in Sessions)' = FALSE
    BY <1>4, <2>1
  <2>3. lost' = TRUE
    BY <1>4, Zenon DEF Cancel
  <2> QED
    BY <1>1, <1>2, <2>1, <2>2, <2>3, Zenon DEF Promise!Override
<1>5. CASE Cancel /\ slot \notin Sessions
  <2>1. slot' \notin Sessions /\ UNCHANGED accepted
    BY <1>5 DEF Cancel, Sessions
  <2>2. (lost' <=> lost) /\ lost \in BOOLEAN /\ lost' \in BOOLEAN
    BY <1>5, Zenon DEF Cancel, IInv, TypeOK, Flags
  <2> QED
    BY <1>1, <1>2, <1>5, <2>1, <2>2, StutterSession
<1>6. CASE ~Cancel /\ ~\E s \in Sessions : Post(s)
  <2>1. UNCHANGED <<slot, accepted, lost>>
    BY <1>6
    DEF Client, Binder, Authenticate, CallTz, SetActiveGroup, Enumerate, AuthenticateToken,
        AuthenticatePost, EnrollLocked, CallError, TzDone, SetUserDataPath, EnumerateList,
        RemoveLocked, RemoveNotify, RemoveRand, history, Sessions
  <2> QED
    BY <1>1, <1>2, <2>1, StutterSession
<1> QED
  BY <1>3, <1>4, <1>5, <1>6

\* The steps of a session that the framework does not see.
Unseen == wpc # "idle" /\ ~At("end") /\ wpc' # "idle" /\ ~At("end")' /\ SessionFrame

LEMMA WorkerSteps ==
  ASSUME IInv, Worker \/ Sensor
  PROVE  Take \/ Notify \/ WipeChallenge \/ EnrollRand \/ SessionEnd \/ Unseen
<1> USE DEF Unseen, At
<1>1. CASE LockSession \/ FinalizeDone
  BY <1>1 DEF LockSession, FinalizeDone, SessionFrame
<1>2. CASE FingerOff
  <2>1. <<"success">> # <<>>
    OBVIOUS
  <2> QED
    BY <1>2, <2>1 DEF FingerOff
<1>3. CASE CancelSession \/ CommandError \/ NoFingerprints \/ WaitTimeout \/ WaitError
  <2>1. wpc # "idle" /\ wpc # "end"
    BY <1>3 DEF CancelSession, CommandError, NoFingerprints, WaitTimeout, WaitError
  <2>2. \/ Then("end", <<"canceled">>) \/ Then("end", <<"error", "canceled">>)
        \/ Then("end", <<"error">>) \/ Then("end", <<"canceled", "timeout">>)
    BY <1>3 DEF CancelSession, CommandError, NoFingerprints, WaitTimeout, WaitError
  <2>3. todo' # <<>> /\ wpc' = "end" /\ SessionFrame
    BY <2>2 DEF Then
  <2> QED
    BY <2>1, <2>3
<1>4. CASE \/ InitDone \/ StepAgain \/ StepWait \/ WaitEnds \/ Match \/ NoMatch
           \/ EnrollStep
  BY <1>4
  DEF InitDone, StepAgain, StepWait, WaitEnds, Match, NoMatch, EnrollStep, Then
<1> QED
  BY <1>1, <1>2, <1>3, <1>4 DEF Worker, Sensor

\* Each is the step of the session that it looks like: a note that is not final leaves
\* the session open, for it comes before any that is.
LEMMA WorkerRefines ==
  ASSUME IInv, Worker \/ Sensor
  PROVE  \/ Promise!Begin \/ Promise!Answer \/ Promise!Close \/ Promise!End
         \/ UNCHANGED Promise!vars
<1>1. CASE Take
  <2>1. slot' \notin Sessions /\ Phase = "none" /\ UNCHANGED <<answers, accepted, lost>>
    BY <1>1 DEF Take, Sessions, Phase, history, told
  <2>2. CASE slot \in Sessions
    <3>1. Phase' = "open"
      BY <1>1, <2>2 DEF Take, Phase, At
    <3>2. (slot \in Sessions) = TRUE /\ (slot \in Sessions)' = FALSE
      BY <2>1, <2>2
    <3> QED
      BY <2>1, <3>1, <3>2, Zenon DEF Promise!Begin
  <2>3. CASE slot \notin Sessions
    <3>1. Phase' = "none"
      BY <1>1, <2>3 DEF Take, Phase
    <3> QED
      BY <2>1, <2>3, <3>1, StutterSession
  <2> QED
    BY <2>2, <2>3
<1>2. CASE Notify
  <2>1. Phase = "open" /\ Phase' \in {"open", "closing"} /\ UNCHANGED <<slot, lost>>
    BY <1>2 DEF Notify, Phase, At, IInv, LoopInv
  <2>2. UNCHANGED (slot \in Sessions)
    BY <2>1
  <2>3. CASE Head(todo) \in Terminal
    <3>1. answers' = (IF answers = 0 THEN 1 ELSE 2) /\ accepted' = FALSE
      BY <1>2, <2>3 DEF Notify
    <3> QED
      BY <2>1, <2>2, <3>1, Zenon DEF Promise!Answer
  <2>4. CASE Head(todo) \notin Terminal
    <3>1. wpc # "end"
      <4>1. todo # <<>> /\ Head(todo) = todo[1] /\ 1 \in 1 .. Len(todo)
        BY <1>2 DEF Notify, IInv, TypeOK
      <4> QED
        BY <2>4, <4>1 DEF IInv, FinalInv, Terminal
    <3>2. Phase' = Phase /\ UNCHANGED <<answers, accepted>>
      BY <1>2, <2>1, <2>4, <3>1 DEF Notify, Phase, At
    <3> QED
      BY <2>1, <3>2, StutterSession
  <2> QED
    BY <2>3, <2>4
<1>3. CASE WipeChallenge \/ EnrollRand
  <2>1. Phase = "open" /\ Phase' = "closing" /\ UNCHANGED <<slot, answers, accepted>>
    BY <1>3 DEF WipeChallenge, EnrollRand, SessionFrame, told, Phase, At
  <2>2. UNCHANGED (slot \in Sessions)
    BY <2>1
  <2>3. CASE answers > 0
    <3>1. UNCHANGED lost
      BY <1>3, <2>3 DEF WipeChallenge, SessionFrame, EnrollRand, EndUntold
    <3> QED
      BY <2>1, <2>2, <2>3, <3>1, Zenon DEF Promise!Close
  <2>4. CASE ~(answers > 0)
    <3>1. answers = 0
      BY <2>4 DEF IInv, TypeOK
    <3>2. EnrollRand
      BY <1>3, <2>4 DEF WipeChallenge, At, IInv, FinalInv
    <3>3. lost' = ~(slot \in Sessions)
      BY <3>1, <3>2, Zenon DEF EnrollRand, EndUntold
    <3> QED
      BY <2>1, <2>2, <3>1, <3>3, Zenon DEF Promise!Close
  <2> QED
    BY <2>3, <2>4
<1>4. CASE SessionEnd
  <2>1. Phase = "closing" /\ Phase' = "none" /\ answers' = 0
        /\ UNCHANGED <<slot, accepted, lost>>
    BY <1>4 DEF SessionEnd, Phase, At
  <2>2. UNCHANGED (slot \in Sessions)
    BY <2>1
  <2> QED
    BY <2>1, <2>2, Zenon DEF Promise!End
<1>5. CASE Unseen
  <2>1. Phase' = Phase /\ UNCHANGED <<slot, answers, accepted, lost>>
    BY <1>5 DEF Unseen, SessionFrame, told, Phase
  <2> QED
    BY <2>1, StutterSession
<1> QED
  BY <1>1, <1>2, <1>3, <1>4, <1>5, WorkerSteps

\* The sessions of this HAL are those of FingerprintSession with its three faults: Cancel
\* drops a request that the worker has not taken; ConvertAndCheckError and a time-out tell
\* of the cancellation as well; and EnrollAsync finishes untold if its last rc is not 0.
THEOREM SessionRefinement == Spec => ImplementsSession
<1>1. Init => Promise!Init
  <2> SUFFICES ASSUME Init PROVE Promise!Init
    OBVIOUS
  <2>1. /\ (slot \in Sessions) = FALSE /\ Phase = "none" /\ answers = 0
        /\ accepted = FALSE /\ lost = FALSE
    BY DEF Init, Sessions, Phase
  <2> QED
    BY <2>1, Zenon DEF Promise!Init
<1>2. IInv /\ [Next]_vars => [Promise!Next]_(Promise!vars)
  <2> SUFFICES ASSUME IInv, [Next]_vars PROVE [Promise!Next]_(Promise!vars)
    OBVIOUS
  <2>1. CASE UNCHANGED vars
    <3>1. UNCHANGED <<slot, wpc, todo, answers, accepted, lost>>
      BY <2>1 DEF vars, workerVars, history, told
    <3> QED
      BY <3>1, StutterSession DEF Phase, At
  <2> QED
    BY <2>1, BinderRefines, WorkerRefines DEF Next, Deadlocked, Promise!Next
<1> QED
  BY <1>1, <1>2, Invariance, PTL DEF Spec, ImplementsSession, Promise!Spec

\* What FingerprintSession promises, and this HAL with it: who awaits a final callback
\* has a session that is to come or owes it, or has lost it by one of the faults.
THEOREM PromiseKept == Spec => []Promise!Kept
<1> DEFINE Inv == /\ Promise!Kept /\ answers \in Nat
                  /\ Phase \in {"none", "open", "closing"} /\ (Phase = "none" => answers = 0)
<1> USE DEF Promise!Kept
<1>1. Promise!Init => Inv
  BY DEF Promise!Init
<1>2. Inv /\ [Promise!Next]_(Promise!vars) => Inv'
  <2> SUFFICES ASSUME Inv, [Promise!Next]_(Promise!vars) PROVE Inv'
    OBVIOUS
  <2>1. CASE Promise!Ask
    BY <2>1 DEF Promise!Ask
  <2>2. CASE Promise!Override
    BY <2>2 DEF Promise!Override
  <2>3. CASE Promise!Begin
    BY <2>3 DEF Promise!Begin
  <2>4. CASE Promise!Answer
    BY <2>4 DEF Promise!Answer
  <2>5. CASE Promise!Close
    <3>1. \/ UNCHANGED lost /\ (answers > 0 \/ ~accepted)
          \/ slot \in Sessions \/ lost'
      BY <2>5, Zenon DEF Promise!Close
    <3>2. UNCHANGED <<answers, accepted>> /\ Phase' = "closing"
          /\ (slot' \in Sessions <=> slot \in Sessions)
      BY <2>5 DEF Promise!Close
    <3> QED
      BY <3>1, <3>2
  <2>6. CASE Promise!End
    BY <2>6 DEF Promise!End
  <2>7. CASE Promise!Renew
    BY <2>7 DEF Promise!Renew
  <2>8. CASE UNCHANGED Promise!vars
    BY <2>8 DEF Promise!vars
  <2> QED
    BY <2>1, <2>2, <2>3, <2>4, <2>5, <2>6, <2>7, <2>8 DEF Promise!Next
<1>3. Inv => Promise!Kept
  OBVIOUS
<1> QED
  BY <1>1, <1>2, <1>3, SessionRefinement, PTL DEF ImplementsSession, Promise!Spec

================================================================================
