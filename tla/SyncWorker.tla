------------------------------ MODULE SyncWorker ------------------------------
(***************************************************************************)
(* SynchronizedWorker::Thread (hidl/fp/SynchronizedWorkerThread.cpp), the  *)
(* worker thread every fingerprint HAL runs its sessions on.  Callers post *)
(* a desired state under two mutexes and an eventfd, some wait on a        *)
(* condition variable until the worker reports that state, and the worker  *)
(* consumes the state, runs its handler and falls back to Idle.            *)
(*                                                                         *)
(* One action is one step between two points where another thread can      *)
(* interfere.  Of the eventfd counter only zero / non-zero is ever read.   *)
(***************************************************************************)
CONSTANT Callers      \* threads that call the public methods

ASSUME CallersAssumption == {"worker", "none"} \cap Callers = {}

VARIABLES
  currentState,       \* the worker's state as the waiters see it
  desiredState,       \* the last request, "Invalid" once consumed
  event_fd,           \* the eventfd counter is non-zero
  mEventWriterMutex,  \* the thread that owns the mutex, or "none"
  mThreadMutex,
  wpc,                \* where the worker thread is
  nextState,          \* RunThread's local: the state whose handler runs
  stateAvailable,     \* consumeState's local: eventfd_read returned data
  pc,                 \* where each caller is
  op,                 \* the method a caller is in: "move", "wait" or "stop"
  state,              \* the state it asked for
  notified,           \* waiters that a notify_all has woken
  paused,             \* history: a Pause() succeeded, no request since
  fatal               \* which LOG_ALWAYS_FATAL aborted the process

callerVars == <<pc, op, state>>
workerVars == <<wpc, nextState, stateAvailable>>
vars == <<currentState, desiredState, event_fd, mEventWriterMutex, mThreadMutex,
          wpc, nextState, stateAvailable, pc, op, state, notified, paused, fatal>>

Handled  == {"Idle", "Pause", "Authenticate", "Enroll"}
Requests == Handled \cup {"Stop"}
States   == Requests \cup {"Invalid"}

\* Mutant: the Pause handler polls with a time-out.
SelfReturningPause == {"Idle", "Pause", "Authenticate", "Enroll"}

\* Handlers that may return although no event is pending: a session ends by
\* itself, and a HAL's own IdleAsync returns on a finger.
SelfReturning == {"Idle", "Authenticate", "Enroll"}

\* What the HALs ask for: Resume and cancel post Idle, the Egis HALs post
\* sessions without waiting, the FPC HAL waits for Pause and for sessions.
Calls == ({"move"} \X {"Idle", "Authenticate", "Enroll"})
           \cup ({"wait"} \X {"Pause", "Authenticate", "Enroll"})

CallerPCs == {"out", "writer", "thread", "set", "post", "check", "waiting",
              "join", "unlock", "release"}
WorkerPCs == {"none", "consume", "read", "apply", "unlock", "notify", "run",
              "return", "stopped", "joined"}

TypeOK ==
  /\ currentState \in States
  /\ desiredState \in States
  /\ event_fd \in BOOLEAN
  /\ mEventWriterMutex \in Callers \cup {"none"}
  /\ mThreadMutex \in Callers \cup {"worker", "none"}
  /\ wpc \in WorkerPCs
  /\ nextState \in Requests
  /\ stateAvailable \in BOOLEAN
  /\ pc \in [Callers -> CallerPCs]
  /\ op \in [Callers -> {"move", "wait", "stop"}]
  /\ state \in [Callers -> Requests]
  /\ notified \in SUBSET Callers
  /\ paused \in BOOLEAN
  /\ fatal \in {"no", "timeout", "invalid"}

Init ==
  /\ currentState = "Invalid"
  /\ desiredState = "Invalid"
  /\ event_fd = FALSE
  /\ mEventWriterMutex = "none"
  /\ mThreadMutex = "none"
  /\ wpc = "none"
  /\ nextState = "Idle"
  /\ stateAvailable = FALSE
  /\ pc = [c \in Callers |-> "out"]
  /\ op = [c \in Callers |-> "move"]
  /\ state = [c \in Callers |-> "Idle"]
  /\ notified = {}
  /\ paused = FALSE
  /\ fatal = "no"

\* LOG_ALWAYS_FATAL aborts the process: nothing moves after it.
Goto(c, from, to) == /\ fatal = "no"
                     /\ pc[c] = from
                     /\ pc' = [pc EXCEPT ![c] = to]

WorkerGoto(from, to) == /\ fatal = "no"
                        /\ wpc = from
                        /\ wpc' = to

\* thread.joinable()
Joinable == wpc \notin {"none", "joined"}

-------------------------------------------------------------------------------
(* The callers.  A local that is no longer read goes back to its first value. *)

\* moveToState(s) or waitForState(s) is entered.  The HAL objects that own the
\* thread start it in their constructor and stop it in their destructor, so a
\* call finds the thread running.
Request(c) ==
  /\ Joinable
  /\ \A d \in Callers : op[d] # "stop"
  /\ Goto(c, "out", "writer")
  /\ \E call \in Calls : /\ op' = [op EXCEPT ![c] = call[1]]
                         /\ state' = [state EXCEPT ![c] = call[2]]
  /\ UNCHANGED <<currentState, desiredState, event_fd, mEventWriterMutex,
                 mThreadMutex, workerVars, notified, paused, fatal>>

\* Stop() is entered from the destructor: nobody else uses the object any more.
RequestStop(c) ==
  /\ wpc # "none"
  /\ \A d \in Callers : pc[d] = "out"
  /\ Goto(c, "out", "writer")
  /\ op' = [op EXCEPT ![c] = "stop"]
  /\ state' = [state EXCEPT ![c] = "Stop"]
  /\ UNCHANGED <<currentState, desiredState, event_fd, mEventWriterMutex,
                 mThreadMutex, workerVars, notified, paused, fatal>>

\* Mutant: mEventWriterMutex is not waited for.
LockWriterFree(c) ==
  /\ Goto(c, "writer", "thread")
  /\ mEventWriterMutex' = c
  /\ UNCHANGED <<currentState, desiredState, event_fd, mThreadMutex,
                 workerVars, op, state, notified, paused, fatal>>

LockWriter(c) ==
  /\ mEventWriterMutex = "none"
  /\ Goto(c, "writer", "thread")
  /\ mEventWriterMutex' = c
  /\ UNCHANGED <<currentState, desiredState, event_fd, mThreadMutex,
                 workerVars, op, state, notified, paused, fatal>>

\* Stop() of a thread that is not joinable has nothing to do.
LockThread(c) ==
  /\ mThreadMutex = "none"
  /\ Goto(c, "thread", IF op[c] = "stop" /\ ~Joinable THEN "unlock" ELSE "set")
  /\ mThreadMutex' = c
  /\ UNCHANGED <<currentState, desiredState, event_fd, mEventWriterMutex,
                 workerVars, op, state, notified, paused, fatal>>

\* moveToState: a request that was not consumed is overridden.
SetDesired(c) ==
  /\ Goto(c, "set", "post")
  /\ desiredState' = state[c]
  /\ paused' = FALSE
  /\ UNCHANGED <<currentState, event_fd, mEventWriterMutex, mThreadMutex,
                 workerVars, op, state, notified, fatal>>

\* Mutant: the eventfd_write is missing.
PostEventSilent(c) ==
  /\ Goto(c, "post", IF op[c] = "move" THEN "unlock" ELSE "check")
  /\ UNCHANGED <<currentState, desiredState, event_fd, mEventWriterMutex,
                 mThreadMutex, workerVars, op, state, notified, paused, fatal>>

PostEvent(c) ==
  /\ Goto(c, "post", IF op[c] = "move" THEN "unlock" ELSE "check")
  /\ event_fd' = TRUE
  /\ UNCHANGED <<currentState, desiredState, mEventWriterMutex, mThreadMutex,
                 workerVars, op, state, notified, paused, fatal>>

\* wait_for evaluates its predicate under mThreadMutex, before it sleeps and
\* after every wake-up, and gives the mutex up while it sleeps.
CheckTrue(c) ==
  /\ currentState = state[c]
  /\ Goto(c, "check", IF op[c] = "stop" THEN "join" ELSE "unlock")
  /\ paused' = (state[c] = "Pause")
  /\ UNCHANGED <<currentState, desiredState, event_fd, mEventWriterMutex,
                 mThreadMutex, workerVars, op, state, notified, fatal>>

CheckFalse(c) ==
  /\ currentState # state[c]
  /\ Goto(c, "check", "waiting")
  /\ mThreadMutex' = "none"
  /\ notified' = notified \ {c}
  /\ UNCHANGED <<currentState, desiredState, event_fd, mEventWriterMutex,
                 workerVars, op, state, paused, fatal>>

Wake(c) ==
  /\ mThreadMutex = "none"
  /\ Goto(c, "waiting", "check")
  /\ mThreadMutex' = c
  /\ notified' = notified \ {c}
  /\ UNCHANGED <<currentState, desiredState, event_fd, mEventWriterMutex,
                 workerVars, op, state, paused, fatal>>

NotifiedWake(c) == c \in notified /\ Wake(c)

\* A condition variable may wake a waiter that nobody notified.
SpuriousWake(c) == c \notin notified /\ Wake(c)

\* wait_for gives up after wait_timeout.  Three seconds are long: they pass only
\* when no step can make the predicate true any more, that is, when the worker
\* has no event left to consume.  A slow thread is never blamed.
Timeout(c) ==
  /\ ~event_fd
  /\ currentState # state[c]
  /\ mThreadMutex = "none"
  /\ Goto(c, "waiting", "unlock")
  /\ mThreadMutex' = c
  /\ fatal' = "timeout"
  /\ UNCHANGED <<currentState, desiredState, event_fd, mEventWriterMutex,
                 workerVars, op, state, notified, paused>>

\* Stop() joins the thread and still owns both mutexes.
Join(c) ==
  /\ WorkerGoto("stopped", "joined")
  /\ Goto(c, "join", "unlock")
  /\ UNCHANGED <<currentState, desiredState, event_fd, mEventWriterMutex,
                 mThreadMutex, nextState, stateAvailable, op, state, notified,
                 paused, fatal>>

\* The lock guards are destroyed in reverse order.
UnlockThread(c) ==
  /\ Goto(c, "unlock", "release")
  /\ mThreadMutex' = "none"
  /\ UNCHANGED <<currentState, desiredState, event_fd, mEventWriterMutex,
                 workerVars, op, state, notified, paused, fatal>>

UnlockWriter(c) ==
  /\ Goto(c, "release", "out")
  /\ mEventWriterMutex' = "none"
  /\ op' = [op EXCEPT ![c] = "move"]
  /\ state' = [state EXCEPT ![c] = "Idle"]
  /\ UNCHANGED <<currentState, desiredState, event_fd, mThreadMutex,
                 workerVars, notified, paused, fatal>>

-------------------------------------------------------------------------------
(* The worker thread.                                                        *)

Start ==
  /\ WorkerGoto("none", "consume")
  /\ UNCHANGED <<currentState, desiredState, event_fd, mEventWriterMutex,
                 mThreadMutex, nextState, stateAvailable, callerVars, notified,
                 paused, fatal>>

\* Mutant: consumeState runs without mThreadMutex.
ConsumeLockFree ==
  /\ WorkerGoto("consume", "read")
  /\ UNCHANGED <<currentState, desiredState, event_fd, mEventWriterMutex,
                 mThreadMutex, nextState, stateAvailable, callerVars, notified,
                 paused, fatal>>

ConsumeLock ==
  /\ mThreadMutex = "none"
  /\ WorkerGoto("consume", "read")
  /\ mThreadMutex' = "worker"
  /\ UNCHANGED <<currentState, desiredState, event_fd, mEventWriterMutex,
                 nextState, stateAvailable, callerVars, notified, paused, fatal>>

\* eventfd_read resets the counter, or fails with EAGAIN when it is zero.
ReadEvent ==
  /\ WorkerGoto("read", "apply")
  /\ stateAvailable' = event_fd
  /\ event_fd' = FALSE
  /\ UNCHANGED <<currentState, desiredState, mEventWriterMutex, mThreadMutex,
                 nextState, callerVars, notified, paused, fatal>>

ApplyState ==
  /\ WorkerGoto("apply", "unlock")
  /\ IF stateAvailable /\ desiredState = "Invalid"
     THEN fatal' = "invalid" /\ UNCHANGED <<nextState, currentState, desiredState>>
     ELSE /\ nextState' = IF stateAvailable THEN desiredState ELSE "Idle"
          /\ currentState' = nextState'
          /\ desiredState' = "Invalid"
          /\ UNCHANGED fatal
  /\ stateAvailable' = FALSE
  /\ UNCHANGED <<event_fd, mEventWriterMutex, mThreadMutex, callerVars,
                 notified, paused>>

ConsumeUnlock ==
  /\ WorkerGoto("unlock", "notify")
  /\ mThreadMutex' = "none"
  /\ UNCHANGED <<currentState, desiredState, event_fd, mEventWriterMutex,
                 nextState, stateAvailable, callerVars, notified, paused, fatal>>

\* Mutant: nobody is notified.
NotifyNobody ==
  /\ WorkerGoto("notify", IF nextState = "Stop" THEN "stopped" ELSE "run")
  /\ UNCHANGED <<currentState, desiredState, event_fd, mEventWriterMutex,
                 mThreadMutex, nextState, stateAvailable, callerVars, notified,
                 paused, fatal>>

\* notify_all, after the unlock; RunThread then dispatches on the state.
NotifyAll ==
  /\ WorkerGoto("notify", IF nextState = "Stop" THEN "stopped" ELSE "run")
  /\ notified' = notified \cup {c \in Callers : pc[c] = "waiting"}
  /\ UNCHANGED <<currentState, desiredState, event_fd, mEventWriterMutex,
                 mThreadMutex, nextState, stateAvailable, callerVars, paused, fatal>>

\* Every handler returns once the eventfd is readable.
HandlerSeesEvent ==
  /\ event_fd
  /\ WorkerGoto("run", "return")
  /\ UNCHANGED <<currentState, desiredState, event_fd, mEventWriterMutex,
                 mThreadMutex, nextState, stateAvailable, callerVars, notified,
                 paused, fatal>>

HandlerEnds ==
  /\ nextState \in SelfReturning
  /\ WorkerGoto("run", "return")
  /\ UNCHANGED <<currentState, desiredState, event_fd, mEventWriterMutex,
                 mThreadMutex, nextState, stateAvailable, callerVars, notified,
                 paused, fatal>>

\* RunThread's assignment after the switch: no mutex, no notification.
FallBackToIdle ==
  /\ WorkerGoto("return", "consume")
  /\ currentState' = "Idle"
  /\ nextState' = "Idle"
  /\ UNCHANGED <<desiredState, event_fd, mEventWriterMutex, mThreadMutex,
                 stateAvailable, callerVars, notified, paused, fatal>>

-------------------------------------------------------------------------------
CallerStep(c) ==
  \/ LockWriter(c) \/ LockThread(c) \/ SetDesired(c) \/ PostEvent(c)
  \/ CheckTrue(c) \/ CheckFalse(c) \/ NotifiedWake(c) \/ Timeout(c)
  \/ Join(c) \/ UnlockThread(c) \/ UnlockWriter(c)

Caller(c) == Request(c) \/ RequestStop(c) \/ CallerStep(c) \/ SpuriousWake(c)

Acquire(c) == LockWriter(c) \/ LockThread(c) \/ NotifiedWake(c)

WorkerStep ==
  \/ Start \/ ConsumeLock \/ ReadEvent \/ ApplyState \/ ConsumeUnlock
  \/ NotifyAll \/ HandlerSeesEvent \/ FallBackToIdle

Aborted == /\ fatal # "no"
           /\ UNCHANGED vars

Next == \/ \E c \in Callers : Caller(c)
        \/ WorkerStep
        \/ HandlerEnds
        \/ Aborted

\* The scheduler runs every thread.  A thread that keeps asking for a mutex
\* others keep releasing gets it in the end, and spurious wake-ups do not restart
\* the clock of wait_for (strong fairness).  Nothing makes a client call, a
\* session end by itself, or a condition variable wake spuriously.
Fairness ==
  /\ WF_vars(WorkerStep)
  /\ SF_vars(ConsumeLock)
  /\ \A c \in Callers : /\ WF_vars(CallerStep(c))
                        /\ SF_vars(Acquire(c))
                        /\ SF_vars(Timeout(c))

Spec == Init /\ [][Next]_vars /\ Fairness

-------------------------------------------------------------------------------
(* Properties.                                                               *)

\* Whenever no thread is inside a critical section, the eventfd is readable
\* exactly when a request is pending: a poll without the mutex never misses a
\* request and never wakes for nothing.
EventMatchesRequest == mThreadMutex = "none" => (event_fd <=> desiredState # "Invalid")

\* consumeState's "Requested state is invalid!" cannot happen.
NoInvalidRequest == fatal # "invalid"

\* While Pause() holds (it returned, and no request came after it) no session
\* and no idle handler runs, whatever the worker was doing: this is what the
\* FPC HAL relies on when it calls into the TZ app from the binder thread.
PauseIsExclusive == paused => ~(wpc = "run" /\ nextState # "Pause")

\* wait_for gives up only on a session that ended by itself; a Pause or a Stop
\* is never timed out, and a timed-out request was not lost but consumed.
TimeoutOnlyAfterShortSession ==
  fatal = "timeout" =>
    /\ desiredState = "Invalid"
    /\ \E c \in Callers : mThreadMutex = c /\ state[c] \in {"Authenticate", "Enroll"}

\* As long as a caller waits, only the worker takes its request away: no other
\* caller overrides it.
NoOverrideWhileWaiting ==
  [][\A c \in Callers : pc[c] = "waiting" /\ desiredState = state[c]
                           => desiredState' \in {state[c], "Invalid"}]_vars

\* Every call returns, or the process aborts: the two mutexes, the condition
\* variable and the join of Stop() cannot leave a caller blocked.
CallsReturn == \A c \in Callers : (pc[c] = "writer") ~> (pc[c] = "out" \/ fatal # "no")

\* The worker thread implements the one-slot mailbox.
Box == INSTANCE Mailbox WITH Empty <- "Invalid", Idle <- "Idle",
                             slot <- desiredState, current <- currentState

ImplementsMailbox == Box!Spec

\* What waitForState says of its wait, "Wait for the thread to enter the new
\* state": a caller is not aborted for a state that the worker did enter.
EnteredStateIsSeen == ~(fatal = "timeout" /\ desiredState = "Invalid")
===============================================================================
