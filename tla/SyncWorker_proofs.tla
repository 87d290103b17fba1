-------------------------- MODULE SyncWorker_proofs --------------------------
(***************************************************************************)
(* Proofs about SyncWorker, for any set of calling threads.                *)
(***************************************************************************)
EXTENDS SyncWorker, TLAPS

\* Who owns the two mutexes, told from where the threads are.
OwnsWriter(c) == pc[c] \in {"thread", "set", "post", "check", "waiting", "join",
                            "unlock", "release"}
OwnsThread(c) == pc[c] \in {"set", "post", "check", "join", "unlock"}

LockInv ==
  /\ \A c \in Callers : /\ mEventWriterMutex = c <=> OwnsWriter(c)
                        /\ mThreadMutex = c <=> OwnsThread(c)
  /\ mThreadMutex = "worker" <=> wpc \in {"read", "apply", "unlock"}

\* The eventfd and the pending request agree, except between the two steps of a
\* caller that posts and between the two steps of the worker that consumes.
EventInv ==
  /\ wpc # "apply" /\ (\A c \in Callers : pc[c] # "post")
       => (event_fd <=> desiredState # "Invalid")
  /\ wpc = "apply" => ~event_fd /\ (stateAvailable <=> desiredState # "Invalid")
  /\ \A c \in Callers : pc[c] = "post" => desiredState = state[c]

\* The worker reports Pause only from the moment it consumed it until its
\* handler, woken by an event, has returned.
ReportInv ==
  /\ currentState = "Pause" => /\ wpc \in {"unlock", "notify", "run", "return"}
                               /\ nextState = "Pause"
  /\ wpc = "return" /\ nextState = "Pause" => event_fd

\* As long as a Pause holds the worker is in Pause or on its way back to it.
PauseInv ==
  paused =>
    /\ desiredState \in {"Pause", "Invalid"}
    /\ \A c \in Callers : pc[c] # "post"
    /\ wpc \in {"consume", "read", "apply", "unlock", "notify", "run", "return"}
    /\ wpc \in {"unlock", "notify", "run", "return"} => nextState = "Pause"
    /\ wpc \in {"return", "consume", "read"} => event_fd
    /\ wpc = "apply" => stateAvailable

CallInv(c) ==
  /\ op[c] = "wait" => state[c] \in {"Pause", "Authenticate", "Enroll"}
  /\ op[c] = "stop" => state[c] = "Stop"
  /\ pc[c] \in {"check", "waiting"} => op[c] # "move"

\* A Pause or a Stop that is waited for is pending, or reported and kept.
AwaitInv(c) ==
  pc[c] \in {"check", "waiting"} /\ state[c] \in {"Pause", "Stop"} =>
    \/ desiredState = state[c]
    \/ /\ desiredState = "Invalid"
       /\ currentState = state[c]
       /\ nextState = state[c]
       /\ wpc \in {"unlock", "notify", "run", "stopped"}
       /\ wpc = "run" => state[c] = "Pause"

IInv ==
  /\ TypeOK
  /\ LockInv
  /\ EventInv
  /\ ReportInv
  /\ PauseInv
  /\ \A c \in Callers : CallInv(c) /\ AwaitInv(c)
  /\ NoInvalidRequest
  /\ TimeoutOnlyAfterShortSession

------------------------------------------------------------------------------
\* Every step of a caller and of the worker keeps the types.
LEMMA TypeStep ==
  ASSUME TypeOK, [Next]_vars
  PROVE  TypeOK'
<1>. USE CallersAssumption DEF TypeOK, States, Requests, Handled, CallerPCs,
    WorkerPCs, callerVars, workerVars
<1>1. ASSUME NEW c \in Callers, Caller(c) PROVE TypeOK'
  <2>1. CASE Request(c)
    BY <2>1 DEF Request, Calls, Joinable, Goto
  <2>2. CASE RequestStop(c)
    BY <2>2 DEF RequestStop, Goto
  <2>3. CASE LockWriter(c)
    BY <2>3 DEF LockWriter, Goto
  <2>4. CASE LockThread(c)
    BY <2>4 DEF LockThread, Joinable, Goto
  <2>5. CASE SetDesired(c)
    <3>1. paused' \in BOOLEAN
      BY <2>5, Zenon DEF SetDesired
    <3>2. QED BY <2>5, <3>1 DEF SetDesired, Goto
  <2>6. CASE PostEvent(c)
    BY <2>6 DEF PostEvent, Goto
  <2>7. CASE CheckTrue(c)
    BY <2>7 DEF CheckTrue, Goto
  <2>8. CASE CheckFalse(c)
    BY <2>8 DEF CheckFalse, Goto
  <2>9. CASE NotifiedWake(c)
    BY <2>9 DEF NotifiedWake, Wake, Goto
  <2>10. CASE SpuriousWake(c)
    BY <2>10 DEF SpuriousWake, Wake, Goto
  <2>11. CASE Timeout(c)
    BY <2>11 DEF Timeout, Goto
  <2>12. CASE Join(c)
    BY <2>12 DEF Join, Goto, WorkerGoto
  <2>13. CASE UnlockThread(c)
    BY <2>13 DEF UnlockThread, Goto
  <2>14. CASE UnlockWriter(c)
    BY <2>14 DEF UnlockWriter, Goto
  <2>. QED BY <1>1, <2>1, <2>2, <2>3, <2>4, <2>5, <2>6, <2>7, <2>8, <2>9,
      <2>10, <2>11, <2>12, <2>13, <2>14 DEF Caller, CallerStep
<1>2. ASSUME WorkerStep \/ HandlerEnds PROVE TypeOK'
  <2>1. CASE Start
    BY <2>1 DEF Start, WorkerGoto
  <2>2. CASE ConsumeLock
    BY <2>2 DEF ConsumeLock, WorkerGoto
  <2>3. CASE ReadEvent
    <3>1. event_fd' \in BOOLEAN /\ stateAvailable' \in BOOLEAN
      BY <2>3, Zenon DEF ReadEvent, TypeOK
    <3>2. QED BY <2>3, <3>1 DEF ReadEvent, WorkerGoto
  <2>4. CASE ApplyState
    <3>1. stateAvailable' \in BOOLEAN
      BY <2>4, Zenon DEF ApplyState
    <3>2. QED BY <2>4, <3>1 DEF ApplyState, WorkerGoto
  <2>5. CASE ConsumeUnlock
    BY <2>5 DEF ConsumeUnlock, WorkerGoto
  <2>6. CASE NotifyAll
    BY <2>6 DEF NotifyAll, WorkerGoto
  <2>7. CASE HandlerSeesEvent
    BY <2>7 DEF HandlerSeesEvent, WorkerGoto
  <2>8. CASE HandlerEnds
    BY <2>8 DEF HandlerEnds, SelfReturning, WorkerGoto
  <2>9. CASE FallBackToIdle
    BY <2>9 DEF FallBackToIdle, WorkerGoto
  <2>. QED BY <1>2, <2>1, <2>2, <2>3, <2>4, <2>5, <2>6, <2>7, <2>8, <2>9 DEF
      WorkerStep
<1>3. CASE UNCHANGED vars
  BY <1>3 DEF vars
<1>. QED BY <1>1, <1>2, <1>3 DEF Next, Aborted

\* Every step keeps the owner of a mutex the one thread that is inside its
\* critical section.
LEMMA LockStep ==
  ASSUME TypeOK, LockInv, [Next]_vars
  PROVE  LockInv'
<1>. USE CallersAssumption DEF TypeOK, States, Requests, Handled, CallerPCs,
    WorkerPCs, LockInv, OwnsWriter, OwnsThread, callerVars, workerVars
<1>1. ASSUME NEW c \in Callers, Caller(c) PROVE LockInv'
  <2>1. CASE Request(c)
    BY <2>1 DEF Request, Calls, Joinable, Goto
  <2>2. CASE RequestStop(c)
    BY <2>2 DEF RequestStop, Goto
  <2>3. CASE LockWriter(c)
    BY <2>3 DEF LockWriter, Goto
  <2>4. CASE LockThread(c)
    BY <2>4 DEF LockThread, Joinable, Goto
  <2>5. CASE SetDesired(c)
    BY <2>5 DEF SetDesired, Goto
  <2>6. CASE PostEvent(c)
    BY <2>6 DEF PostEvent, Goto
  <2>7. CASE CheckTrue(c)
    BY <2>7 DEF CheckTrue, Goto
  <2>8. CASE CheckFalse(c)
    BY <2>8 DEF CheckFalse, Goto
  <2>9. CASE NotifiedWake(c)
    BY <2>9 DEF NotifiedWake, Wake, Goto
  <2>10. CASE SpuriousWake(c)
    BY <2>10 DEF SpuriousWake, Wake, Goto
  <2>11. CASE Timeout(c)
    BY <2>11 DEF Timeout, Goto
  <2>12. CASE Join(c)
    BY <2>12 DEF Join, Goto, WorkerGoto
  <2>13. CASE UnlockThread(c)
    BY <2>13 DEF UnlockThread, Goto
  <2>14. CASE UnlockWriter(c)
    BY <2>14 DEF UnlockWriter, Goto
  <2>. QED BY <1>1, <2>1, <2>2, <2>3, <2>4, <2>5, <2>6, <2>7, <2>8, <2>9,
      <2>10, <2>11, <2>12, <2>13, <2>14 DEF Caller, CallerStep
<1>2. ASSUME WorkerStep \/ HandlerEnds PROVE LockInv'
  <2>1. CASE Start
    BY <2>1 DEF Start, WorkerGoto
  <2>2. CASE ConsumeLock
    BY <2>2 DEF ConsumeLock, WorkerGoto
  <2>3. CASE ReadEvent
    BY <2>3 DEF ReadEvent, WorkerGoto
  <2>4. CASE ApplyState
    BY <2>4 DEF ApplyState, WorkerGoto
  <2>5. CASE ConsumeUnlock
    BY <2>5 DEF ConsumeUnlock, WorkerGoto
  <2>6. CASE NotifyAll
    BY <2>6 DEF NotifyAll, WorkerGoto
  <2>7. CASE HandlerSeesEvent
    BY <2>7 DEF HandlerSeesEvent, WorkerGoto
  <2>8. CASE HandlerEnds
    BY <2>8 DEF HandlerEnds, SelfReturning, WorkerGoto
  <2>9. CASE FallBackToIdle
    BY <2>9 DEF FallBackToIdle, WorkerGoto
  <2>. QED BY <1>2, <2>1, <2>2, <2>3, <2>4, <2>5, <2>6, <2>7, <2>8, <2>9 DEF
      WorkerStep
<1>3. CASE UNCHANGED vars
  BY <1>3 DEF vars
<1>. QED BY <1>1, <1>2, <1>3 DEF Next, Aborted

\* Every step keeps the eventfd and the pending request in agreement:
\* moveToState and consumeState both hold mThreadMutex over their two writes.
LEMMA EventStep ==
  ASSUME TypeOK, LockInv, EventInv, [Next]_vars
  PROVE  EventInv'
<1>. USE CallersAssumption DEF TypeOK, States, Requests, Handled, CallerPCs,
    WorkerPCs, LockInv, OwnsWriter, OwnsThread, EventInv, callerVars,
    workerVars
<1>1. ASSUME NEW c \in Callers, Caller(c) PROVE EventInv'
  <2>1. CASE Request(c)
    BY <2>1 DEF Request, Calls, Joinable, Goto
  <2>2. CASE RequestStop(c)
    BY <2>2 DEF RequestStop, Goto
  <2>3. CASE LockWriter(c)
    BY <2>3 DEF LockWriter, Goto
  <2>4. CASE LockThread(c)
    BY <2>4 DEF LockThread, Joinable, Goto
  <2>5. CASE SetDesired(c)
    BY <2>5 DEF SetDesired, Goto
  <2>6. CASE PostEvent(c)
    BY <2>6 DEF PostEvent, Goto
  <2>7. CASE CheckTrue(c)
    BY <2>7 DEF CheckTrue, Goto
  <2>8. CASE CheckFalse(c)
    BY <2>8 DEF CheckFalse, Goto
  <2>9. CASE NotifiedWake(c)
    BY <2>9 DEF NotifiedWake, Wake, Goto
  <2>10. CASE SpuriousWake(c)
    BY <2>10 DEF SpuriousWake, Wake, Goto
  <2>11. CASE Timeout(c)
    BY <2>11 DEF Timeout, Goto
  <2>12. CASE Join(c)
    BY <2>12 DEF Join, Goto, WorkerGoto
  <2>13. CASE UnlockThread(c)
    BY <2>13 DEF UnlockThread, Goto
  <2>14. CASE UnlockWriter(c)
    BY <2>14 DEF UnlockWriter, Goto
  <2>. QED BY <1>1, <2>1, <2>2, <2>3, <2>4, <2>5, <2>6, <2>7, <2>8, <2>9,
      <2>10, <2>11, <2>12, <2>13, <2>14 DEF Caller, CallerStep
<1>2. ASSUME WorkerStep \/ HandlerEnds PROVE EventInv'
  <2>1. CASE Start
    BY <2>1 DEF Start, WorkerGoto
  <2>2. CASE ConsumeLock
    BY <2>2 DEF ConsumeLock, WorkerGoto
  <2>3. CASE ReadEvent
    BY <2>3 DEF ReadEvent, WorkerGoto
  <2>4. CASE ApplyState
    BY <2>4 DEF ApplyState, WorkerGoto
  <2>5. CASE ConsumeUnlock
    BY <2>5 DEF ConsumeUnlock, WorkerGoto
  <2>6. CASE NotifyAll
    BY <2>6 DEF NotifyAll, WorkerGoto
  <2>7. CASE HandlerSeesEvent
    BY <2>7 DEF HandlerSeesEvent, WorkerGoto
  <2>8. CASE HandlerEnds
    BY <2>8 DEF HandlerEnds, SelfReturning, WorkerGoto
  <2>9. CASE FallBackToIdle
    BY <2>9 DEF FallBackToIdle, WorkerGoto
  <2>. QED BY <1>2, <2>1, <2>2, <2>3, <2>4, <2>5, <2>6, <2>7, <2>8, <2>9 DEF
      WorkerStep
<1>3. CASE UNCHANGED vars
  BY <1>3 DEF vars
<1>. QED BY <1>1, <1>2, <1>3 DEF Next, Aborted

\* Only the unlocked assignment at the end of RunThread takes a reported Pause
\* back, and only after an event has woken the Pause handler.
LEMMA ReportStep ==
  ASSUME TypeOK, LockInv, EventInv, ReportInv, [Next]_vars
  PROVE  ReportInv'
<1>. USE CallersAssumption DEF TypeOK, States, Requests, Handled, CallerPCs,
    WorkerPCs, ReportInv, callerVars, workerVars
<1>1. ASSUME NEW c \in Callers, Caller(c) PROVE ReportInv'
  <2>1. CASE Request(c)
    BY <2>1 DEF Request, Calls, Joinable, Goto
  <2>2. CASE RequestStop(c)
    BY <2>2 DEF RequestStop, Goto
  <2>3. CASE LockWriter(c)
    BY <2>3 DEF LockWriter, Goto
  <2>4. CASE LockThread(c)
    BY <2>4 DEF LockThread, Joinable, Goto
  <2>5. CASE SetDesired(c)
    BY <2>5 DEF SetDesired, Goto
  <2>6. CASE PostEvent(c)
    BY <2>6 DEF PostEvent, Goto
  <2>7. CASE CheckTrue(c)
    BY <2>7 DEF CheckTrue, Goto
  <2>8. CASE CheckFalse(c)
    BY <2>8 DEF CheckFalse, Goto
  <2>9. CASE NotifiedWake(c)
    BY <2>9 DEF NotifiedWake, Wake, Goto
  <2>10. CASE SpuriousWake(c)
    BY <2>10 DEF SpuriousWake, Wake, Goto
  <2>11. CASE Timeout(c)
    BY <2>11 DEF Timeout, Goto
  <2>12. CASE Join(c)
    BY <2>12 DEF Join, Goto, WorkerGoto
  <2>13. CASE UnlockThread(c)
    BY <2>13 DEF UnlockThread, Goto
  <2>14. CASE UnlockWriter(c)
    BY <2>14 DEF UnlockWriter, Goto
  <2>. QED BY <1>1, <2>1, <2>2, <2>3, <2>4, <2>5, <2>6, <2>7, <2>8, <2>9,
      <2>10, <2>11, <2>12, <2>13, <2>14 DEF Caller, CallerStep
<1>2. ASSUME WorkerStep \/ HandlerEnds PROVE ReportInv'
  <2>1. CASE Start
    BY <2>1 DEF Start, WorkerGoto
  <2>2. CASE ConsumeLock
    BY <2>2 DEF ConsumeLock, WorkerGoto
  <2>3. CASE ReadEvent
    BY <2>3 DEF ReadEvent, WorkerGoto
  <2>4. CASE ApplyState
    BY <2>4 DEF ApplyState, WorkerGoto
  <2>5. CASE ConsumeUnlock
    BY <2>5 DEF ConsumeUnlock, WorkerGoto
  <2>6. CASE NotifyAll
    BY <2>6 DEF NotifyAll, WorkerGoto
  <2>7. CASE HandlerSeesEvent
    BY <2>7 DEF HandlerSeesEvent, WorkerGoto
  <2>8. CASE HandlerEnds
    BY <2>8 DEF HandlerEnds, SelfReturning, WorkerGoto
  <2>9. CASE FallBackToIdle
    BY <2>9 DEF FallBackToIdle, WorkerGoto
  <2>. QED BY <1>2, <2>1, <2>2, <2>3, <2>4, <2>5, <2>6, <2>7, <2>8, <2>9 DEF
      WorkerStep
<1>3. CASE UNCHANGED vars
  BY <1>3 DEF vars
<1>. QED BY <1>1, <1>2, <1>3 DEF Next, Aborted

\* A caller's method and the state it asks for stay those of one call.
LEMMA CallStep ==
  ASSUME TypeOK, \A c \in Callers : CallInv(c), [Next]_vars
  PROVE  (\A d \in Callers : CallInv(d))'
<1>. USE CallersAssumption DEF TypeOK, States, Requests, Handled, CallerPCs,
    WorkerPCs, CallInv, callerVars, workerVars
<1>1. ASSUME NEW c \in Callers, Caller(c) PROVE (\A d \in Callers : CallInv(d))'
  <2>1. CASE Request(c)
    BY <2>1 DEF Request, Calls, Joinable, Goto
  <2>2. CASE RequestStop(c)
    BY <2>2 DEF RequestStop, Goto
  <2>3. CASE LockWriter(c)
    BY <2>3 DEF LockWriter, Goto
  <2>4. CASE LockThread(c)
    BY <2>4 DEF LockThread, Joinable, Goto
  <2>5. CASE SetDesired(c)
    BY <2>5 DEF SetDesired, Goto
  <2>6. CASE PostEvent(c)
    BY <2>6 DEF PostEvent, Goto
  <2>7. CASE CheckTrue(c)
    BY <2>7 DEF CheckTrue, Goto
  <2>8. CASE CheckFalse(c)
    BY <2>8 DEF CheckFalse, Goto
  <2>9. CASE NotifiedWake(c)
    BY <2>9 DEF NotifiedWake, Wake, Goto
  <2>10. CASE SpuriousWake(c)
    BY <2>10 DEF SpuriousWake, Wake, Goto
  <2>11. CASE Timeout(c)
    BY <2>11 DEF Timeout, Goto
  <2>12. CASE Join(c)
    BY <2>12 DEF Join, Goto, WorkerGoto
  <2>13. CASE UnlockThread(c)
    BY <2>13 DEF UnlockThread, Goto
  <2>14. CASE UnlockWriter(c)
    BY <2>14 DEF UnlockWriter, Goto
  <2>. QED BY <1>1, <2>1, <2>2, <2>3, <2>4, <2>5, <2>6, <2>7, <2>8, <2>9,
      <2>10, <2>11, <2>12, <2>13, <2>14 DEF Caller, CallerStep
<1>2. ASSUME WorkerStep \/ HandlerEnds PROVE (\A d \in Callers : CallInv(d))'
  <2>1. CASE Start
    BY <2>1 DEF Start, WorkerGoto
  <2>2. CASE ConsumeLock
    BY <2>2 DEF ConsumeLock, WorkerGoto
  <2>3. CASE ReadEvent
    BY <2>3 DEF ReadEvent, WorkerGoto
  <2>4. CASE ApplyState
    BY <2>4 DEF ApplyState, WorkerGoto
  <2>5. CASE ConsumeUnlock
    BY <2>5 DEF ConsumeUnlock, WorkerGoto
  <2>6. CASE NotifyAll
    BY <2>6 DEF NotifyAll, WorkerGoto
  <2>7. CASE HandlerSeesEvent
    BY <2>7 DEF HandlerSeesEvent, WorkerGoto
  <2>8. CASE HandlerEnds
    BY <2>8 DEF HandlerEnds, SelfReturning, WorkerGoto
  <2>9. CASE FallBackToIdle
    BY <2>9 DEF FallBackToIdle, WorkerGoto
  <2>. QED BY <1>2, <2>1, <2>2, <2>3, <2>4, <2>5, <2>6, <2>7, <2>8, <2>9 DEF
      WorkerStep
<1>3. CASE UNCHANGED vars
  BY <1>3 DEF vars
<1>. QED BY <1>1, <1>2, <1>3 DEF Next, Aborted

\* A Pause or Stop that is waited for stays pending until the worker reports
\* it, and is then kept: the waiter owns mEventWriterMutex, so no event
\* arrives that could end the Pause.
LEMMA AwaitStep ==
  ASSUME TypeOK, LockInv, EventInv, \A c \in Callers : CallInv(c), \A c \in
      Callers : AwaitInv(c), [Next]_vars
  PROVE  (\A d \in Callers : AwaitInv(d))'
<1>. USE CallersAssumption DEF TypeOK, States, Requests, Handled, CallerPCs,
    WorkerPCs, LockInv, OwnsWriter, OwnsThread, EventInv, CallInv, AwaitInv,
    callerVars, workerVars
<1>1. ASSUME NEW c \in Callers, Caller(c) PROVE (\A d \in Callers : AwaitInv(d))'
  <2>1. CASE Request(c)
    BY <2>1 DEF Request, Calls, Joinable, Goto
  <2>2. CASE RequestStop(c)
    BY <2>2 DEF RequestStop, Goto
  <2>3. CASE LockWriter(c)
    BY <2>3 DEF LockWriter, Goto
  <2>4. CASE LockThread(c)
    BY <2>4 DEF LockThread, Joinable, Goto
  <2>5. CASE SetDesired(c)
    BY <2>5 DEF SetDesired, Goto
  <2>6. CASE PostEvent(c)
    BY <2>6 DEF PostEvent, Goto
  <2>7. CASE CheckTrue(c)
    BY <2>7 DEF CheckTrue, Goto
  <2>8. CASE CheckFalse(c)
    BY <2>8 DEF CheckFalse, Goto
  <2>9. CASE NotifiedWake(c)
    BY <2>9 DEF NotifiedWake, Wake, Goto
  <2>10. CASE SpuriousWake(c)
    BY <2>10 DEF SpuriousWake, Wake, Goto
  <2>11. CASE Timeout(c)
    BY <2>11 DEF Timeout, Goto
  <2>12. CASE Join(c)
    BY <2>12 DEF Join, Goto, WorkerGoto
  <2>13. CASE UnlockThread(c)
    BY <2>13 DEF UnlockThread, Goto
  <2>14. CASE UnlockWriter(c)
    BY <2>14 DEF UnlockWriter, Goto
  <2>. QED BY <1>1, <2>1, <2>2, <2>3, <2>4, <2>5, <2>6, <2>7, <2>8, <2>9,
      <2>10, <2>11, <2>12, <2>13, <2>14 DEF Caller, CallerStep
<1>2. ASSUME WorkerStep \/ HandlerEnds PROVE (\A d \in Callers : AwaitInv(d))'
  <2>1. CASE Start
    BY <2>1 DEF Start, WorkerGoto
  <2>2. CASE ConsumeLock
    BY <2>2 DEF ConsumeLock, WorkerGoto
  <2>3. CASE ReadEvent
    BY <2>3 DEF ReadEvent, WorkerGoto
  <2>4. CASE ApplyState
    BY <2>4 DEF ApplyState, WorkerGoto
  <2>5. CASE ConsumeUnlock
    BY <2>5 DEF ConsumeUnlock, WorkerGoto
  <2>6. CASE NotifyAll
    BY <2>6 DEF NotifyAll, WorkerGoto
  <2>7. CASE HandlerSeesEvent
    BY <2>7 DEF HandlerSeesEvent, WorkerGoto
  <2>8. CASE HandlerEnds
    BY <2>8 DEF HandlerEnds, SelfReturning, WorkerGoto
  <2>9. CASE FallBackToIdle
    BY <2>9 DEF FallBackToIdle, WorkerGoto
  <2>. QED BY <1>2, <2>1, <2>2, <2>3, <2>4, <2>5, <2>6, <2>7, <2>8, <2>9 DEF
      WorkerStep
<1>3. CASE UNCHANGED vars
  BY <1>3 DEF vars
<1>. QED BY <1>1, <1>2, <1>3 DEF Next, Aborted

\* A Pause that has returned holds until the next request is written, even
\* when wait_for saw the state of an earlier Pause.
LEMMA PauseStep ==
  ASSUME TypeOK, LockInv, EventInv, ReportInv, PauseInv, \A c \in Callers :
      AwaitInv(c), [Next]_vars
  PROVE  PauseInv'
<1>. USE CallersAssumption DEF TypeOK, States, Requests, Handled, CallerPCs,
    WorkerPCs, LockInv, OwnsWriter, OwnsThread, EventInv, ReportInv, PauseInv,
    AwaitInv, callerVars, workerVars
<1>1. ASSUME NEW c \in Callers, Caller(c) PROVE PauseInv'
  <2>1. CASE Request(c)
    BY <2>1 DEF Request, Calls, Joinable, Goto
  <2>2. CASE RequestStop(c)
    BY <2>2 DEF RequestStop, Goto
  <2>3. CASE LockWriter(c)
    BY <2>3 DEF LockWriter, Goto
  <2>4. CASE LockThread(c)
    BY <2>4 DEF LockThread, Joinable, Goto
  <2>5. CASE SetDesired(c)
    BY <2>5 DEF SetDesired, Goto
  <2>6. CASE PostEvent(c)
    BY <2>6 DEF PostEvent, Goto
  <2>7. CASE CheckTrue(c)
    BY <2>7 DEF CheckTrue, Goto
  <2>8. CASE CheckFalse(c)
    BY <2>8 DEF CheckFalse, Goto
  <2>9. CASE NotifiedWake(c)
    BY <2>9 DEF NotifiedWake, Wake, Goto
  <2>10. CASE SpuriousWake(c)
    BY <2>10 DEF SpuriousWake, Wake, Goto
  <2>11. CASE Timeout(c)
    BY <2>11 DEF Timeout, Goto
  <2>12. CASE Join(c)
    BY <2>12 DEF Join, Goto, WorkerGoto
  <2>13. CASE UnlockThread(c)
    BY <2>13 DEF UnlockThread, Goto
  <2>14. CASE UnlockWriter(c)
    BY <2>14 DEF UnlockWriter, Goto
  <2>. QED BY <1>1, <2>1, <2>2, <2>3, <2>4, <2>5, <2>6, <2>7, <2>8, <2>9,
      <2>10, <2>11, <2>12, <2>13, <2>14 DEF Caller, CallerStep
<1>2. ASSUME WorkerStep \/ HandlerEnds PROVE PauseInv'
  <2>1. CASE Start
    BY <2>1 DEF Start, WorkerGoto
  <2>2. CASE ConsumeLock
    BY <2>2 DEF ConsumeLock, WorkerGoto
  <2>3. CASE ReadEvent
    BY <2>3 DEF ReadEvent, WorkerGoto
  <2>4. CASE ApplyState
    BY <2>4 DEF ApplyState, WorkerGoto
  <2>5. CASE ConsumeUnlock
    BY <2>5 DEF ConsumeUnlock, WorkerGoto
  <2>6. CASE NotifyAll
    BY <2>6 DEF NotifyAll, WorkerGoto
  <2>7. CASE HandlerSeesEvent
    BY <2>7 DEF HandlerSeesEvent, WorkerGoto
  <2>8. CASE HandlerEnds
    BY <2>8 DEF HandlerEnds, SelfReturning, WorkerGoto
  <2>9. CASE FallBackToIdle
    BY <2>9 DEF FallBackToIdle, WorkerGoto
  <2>. QED BY <1>2, <2>1, <2>2, <2>3, <2>4, <2>5, <2>6, <2>7, <2>8, <2>9 DEF
      WorkerStep
<1>3. CASE UNCHANGED vars
  BY <1>3 DEF vars
<1>. QED BY <1>1, <1>2, <1>3 DEF Next, Aborted

\* A step that aborts the process is the time-out of a session that was
\* consumed.
LEMMA FatalStep ==
  ASSUME TypeOK, LockInv, EventInv, \A c \in Callers : CallInv(c), \A c \in
      Callers : AwaitInv(c), NoInvalidRequest, TimeoutOnlyAfterShortSession,
      [Next]_vars
  PROVE  (NoInvalidRequest /\ TimeoutOnlyAfterShortSession)'
<1>. USE CallersAssumption DEF TypeOK, States, Requests, Handled, CallerPCs,
    WorkerPCs, LockInv, OwnsWriter, OwnsThread, EventInv, CallInv, AwaitInv,
    NoInvalidRequest, TimeoutOnlyAfterShortSession, callerVars, workerVars
<1>1. ASSUME NEW c \in Callers, Caller(c) PROVE (NoInvalidRequest /\ TimeoutOnlyAfterShortSession)'
  <2>1. CASE Request(c)
    BY <2>1 DEF Request, Calls, Joinable, Goto
  <2>2. CASE RequestStop(c)
    BY <2>2 DEF RequestStop, Goto
  <2>3. CASE LockWriter(c)
    BY <2>3 DEF LockWriter, Goto
  <2>4. CASE LockThread(c)
    BY <2>4 DEF LockThread, Joinable, Goto
  <2>5. CASE SetDesired(c)
    BY <2>5 DEF SetDesired, Goto
  <2>6. CASE PostEvent(c)
    BY <2>6 DEF PostEvent, Goto
  <2>7. CASE CheckTrue(c)
    BY <2>7 DEF CheckTrue, Goto
  <2>8. CASE CheckFalse(c)
    BY <2>8 DEF CheckFalse, Goto
  <2>9. CASE NotifiedWake(c)
    BY <2>9 DEF NotifiedWake, Wake, Goto
  <2>10. CASE SpuriousWake(c)
    BY <2>10 DEF SpuriousWake, Wake, Goto
  <2>11. CASE Timeout(c)
    BY <2>11 DEF Timeout, Goto
  <2>12. CASE Join(c)
    BY <2>12 DEF Join, Goto, WorkerGoto
  <2>13. CASE UnlockThread(c)
    BY <2>13 DEF UnlockThread, Goto
  <2>14. CASE UnlockWriter(c)
    BY <2>14 DEF UnlockWriter, Goto
  <2>. QED BY <1>1, <2>1, <2>2, <2>3, <2>4, <2>5, <2>6, <2>7, <2>8, <2>9,
      <2>10, <2>11, <2>12, <2>13, <2>14 DEF Caller, CallerStep
<1>2. ASSUME WorkerStep \/ HandlerEnds PROVE (NoInvalidRequest /\ TimeoutOnlyAfterShortSession)'
  <2>1. CASE Start
    BY <2>1 DEF Start, WorkerGoto
  <2>2. CASE ConsumeLock
    BY <2>2 DEF ConsumeLock, WorkerGoto
  <2>3. CASE ReadEvent
    BY <2>3 DEF ReadEvent, WorkerGoto
  <2>4. CASE ApplyState
    BY <2>4 DEF ApplyState, WorkerGoto
  <2>5. CASE ConsumeUnlock
    BY <2>5 DEF ConsumeUnlock, WorkerGoto
  <2>6. CASE NotifyAll
    BY <2>6 DEF NotifyAll, WorkerGoto
  <2>7. CASE HandlerSeesEvent
    BY <2>7 DEF HandlerSeesEvent, WorkerGoto
  <2>8. CASE HandlerEnds
    BY <2>8 DEF HandlerEnds, SelfReturning, WorkerGoto
  <2>9. CASE FallBackToIdle
    BY <2>9 DEF FallBackToIdle, WorkerGoto
  <2>. QED BY <1>2, <2>1, <2>2, <2>3, <2>4, <2>5, <2>6, <2>7, <2>8, <2>9 DEF
      WorkerStep
<1>3. CASE UNCHANGED vars
  BY <1>3 DEF vars
<1>. QED BY <1>1, <1>2, <1>3 DEF Next, Aborted

------------------------------------------------------------------------------
\* The inductive invariant of the worker thread and its callers.
THEOREM Invariance == Spec => []IInv
<1>1. Init => IInv
  <2>. SUFFICES ASSUME Init PROVE IInv
    OBVIOUS
  <2>1. TypeOK
    BY DEF Init, TypeOK, States, Requests, Handled, CallerPCs, WorkerPCs
  <2>2. LockInv
    BY CallersAssumption DEF Init, LockInv, OwnsWriter, OwnsThread
  <2>3. EventInv /\ ReportInv /\ PauseInv /\ NoInvalidRequest
    BY DEF Init, EventInv, ReportInv, PauseInv, NoInvalidRequest
  <2>4. \A c \in Callers : CallInv(c) /\ AwaitInv(c)
    BY DEF Init, CallInv, AwaitInv
  <2>5. TimeoutOnlyAfterShortSession
    BY DEF Init, TimeoutOnlyAfterShortSession
  <2>. QED BY <2>1, <2>2, <2>3, <2>4, <2>5 DEF IInv
<1>2. IInv /\ [Next]_vars => IInv'
  <2>. SUFFICES ASSUME IInv, [Next]_vars PROVE IInv'
    OBVIOUS
  <2>. USE DEF IInv
  <2>1. TypeOK' /\ LockInv'
    BY TypeStep, LockStep
  <2>2. EventInv' /\ ReportInv'
    BY EventStep, ReportStep
  <2>3. (\A c \in Callers : CallInv(c))' /\ (\A c \in Callers : AwaitInv(c))'
    BY CallStep, AwaitStep
  <2>4. PauseInv'
    BY PauseStep
  <2>5. NoInvalidRequest' /\ TimeoutOnlyAfterShortSession'
    BY FatalStep
  <2>. QED BY <2>1, <2>2, <2>3, <2>4, <2>5
<1>. QED BY <1>1, <1>2, PTL DEF Spec

\* Type correctness, for any number of callers.
THEOREM TypeCorrect == Spec => []TypeOK
<1>1. IInv => TypeOK
  BY DEF IInv
<1>. QED BY <1>1, Invariance, PTL

\* A poll of the eventfd without the mutex tells whether a request is pending.
THEOREM EventCorrect == Spec => []EventMatchesRequest
<1>1. IInv => EventMatchesRequest
  <2>. SUFFICES ASSUME IInv, mThreadMutex = "none" PROVE event_fd <=> desiredState # "Invalid"
    BY DEF EventMatchesRequest
  <2>1. wpc # "apply" /\ \A c \in Callers : pc[c] # "post"
    BY CallersAssumption DEF IInv, LockInv, OwnsThread
  <2>. QED BY <2>1 DEF IInv, EventInv
<1>. QED BY <1>1, Invariance, PTL

\* consumeState never aborts with "Requested state is invalid!".
THEOREM RequestsValid == Spec => []NoInvalidRequest
<1>1. IInv => NoInvalidRequest
  BY DEF IInv
<1>. QED BY <1>1, Invariance, PTL

\* Pause() gives its caller exclusion against every session and idle handler.
THEOREM PauseExclusion == Spec => []PauseIsExclusive
<1>1. IInv => PauseIsExclusive
  BY DEF IInv, PauseInv, PauseIsExclusive
<1>. QED BY <1>1, Invariance, PTL

\* Pause() and Stop() never time out; a wait that does was for a session that
\* the worker had consumed.
THEOREM TimeoutCause == Spec => []TimeoutOnlyAfterShortSession
<1>1. IInv => TimeoutOnlyAfterShortSession
  BY DEF IInv
<1>. QED BY <1>1, Invariance, PTL

\* The request of a waiting caller is never overridden: mEventWriterMutex, which
\* only serialises the callers, is held over the whole wait.
THEOREM NoOverride == Spec => NoOverrideWhileWaiting
<1>1. ASSUME IInv, [Next]_vars, NEW c \in Callers,
             pc[c] = "waiting", desiredState = state[c]
      PROVE  desiredState' \in {state[c], "Invalid"}
  <2>1. ASSUME NEW d \in Callers, SetDesired(d) PROVE FALSE
    BY <1>1, <2>1 DEF IInv, LockInv, OwnsWriter, SetDesired, Goto
  <2>2. CASE ApplyState
    BY <1>1, <2>2 DEF ApplyState
  <2>3. CASE desiredState' = desiredState
    BY <1>1, <2>3
  <2>4. ASSUME NEW d \in Callers, Caller(d), ~SetDesired(d)
        PROVE  desiredState' = desiredState
    BY <2>4 DEF Caller, CallerStep, Request, RequestStop, LockWriter, LockThread,
                PostEvent, CheckTrue, CheckFalse, NotifiedWake, SpuriousWake, Wake,
                Timeout, Join, UnlockThread, UnlockWriter
  <2>5. ASSUME WorkerStep \/ HandlerEnds, ~ApplyState
        PROVE  desiredState' = desiredState
    BY <2>5 DEF WorkerStep, Start, ConsumeLock, ReadEvent, ConsumeUnlock, NotifyAll,
                HandlerSeesEvent, HandlerEnds, FallBackToIdle
  <2>. QED BY <1>1, <2>1, <2>2, <2>3, <2>4, <2>5 DEF Next, Aborted, vars
<1>2. IInv /\ [Next]_vars =>
        [\A c \in Callers : pc[c] = "waiting" /\ desiredState = state[c]
                             => desiredState' \in {state[c], "Invalid"}]_vars
  BY <1>1
<1>. QED BY <1>2, Invariance, PTL DEF Spec, NoOverrideWhileWaiting

\* The safety half of the refinement: the worker thread is a one-slot mailbox.
\* A request leaves desiredState only by being consumed or overridden.
THEOREM MailboxRefinement == Spec => Box!Init /\ [][Box!Next]_(Box!vars)
<1>1. Init => Box!Init
  BY DEF Init, Box!Init
<1>2. IInv /\ [Next]_vars => [Box!Next]_(Box!vars)
  <2>. SUFFICES ASSUME IInv, [Next]_vars PROVE [Box!Next]_(Box!vars)
    OBVIOUS
  <2>1. ASSUME NEW c \in Callers, SetDesired(c) PROVE \E s \in Requests : Box!Post(s)
    BY <2>1 DEF IInv, TypeOK, SetDesired, Goto, Box!Post
  <2>2. CASE ApplyState /\ stateAvailable
    BY <2>2 DEF IInv, EventInv, ApplyState, WorkerGoto, Box!Next, Box!Take
  <2>3. CASE ApplyState /\ ~stateAvailable
    BY <2>3 DEF IInv, EventInv, ApplyState, WorkerGoto, Box!Next, Box!FallBack
  <2>4. CASE FallBackToIdle
    BY <2>4 DEF FallBackToIdle, Box!Next, Box!FallBack
  <2>5. ASSUME NEW c \in Callers, Caller(c), ~SetDesired(c) PROVE UNCHANGED Box!vars
    BY <2>5 DEF Caller, CallerStep, Request, RequestStop, LockWriter, LockThread,
                PostEvent, CheckTrue, CheckFalse, NotifiedWake, SpuriousWake, Wake,
                Timeout, Join, UnlockThread, UnlockWriter, Box!vars
  <2>6. ASSUME WorkerStep \/ HandlerEnds, ~ApplyState, ~FallBackToIdle
        PROVE  UNCHANGED Box!vars
    BY <2>6 DEF WorkerStep, Start, ConsumeLock, ReadEvent, ConsumeUnlock, NotifyAll,
                HandlerSeesEvent, HandlerEnds, Box!vars
  <2>7. CASE UNCHANGED vars
    BY <2>7 DEF vars, Box!vars
  <2>. QED BY <2>1, <2>2, <2>3, <2>4, <2>5, <2>6, <2>7 DEF Next, Aborted, Box!Next
<1>. QED BY <1>1, <1>2, Invariance, PTL DEF Spec
==============================================================================
