-------------------------------- MODULE Charger --------------------------------
(***************************************************************************)
(* The charger HAL (interfaces/sony/Charger).  One binder thread and the    *)
(* uevent listener's thread call the same object, which has no lock: both   *)
(* change bits of chgStopReason, derive from it whether charging is to be   *)
(* interrupted, and bring the kernel's nodes in line with that.             *)
(*                                                                          *)
(* Two unlocked accesses are two steps.  The kernel is external: it changes *)
(* the battery's level, which it announces, and it may refuse an access.    *)
(***************************************************************************)
EXTENDS Integers

CONSTANTS
  Levels,                  \* battery levels
  Limits,                  \* limits that clients ask for, good and bad
  kMaxConsecutiveErrors,   \* 10 in the code
  Refusals                 \* TRUE: the kernel may refuse an access

ASSUME ChargerAssumption ==
  /\ Levels \subseteq 0 .. 100 /\ Limits \subseteq Int
  /\ kMaxConsecutiveErrors \in Nat \ {0}
  /\ Refusals \in BOOLEAN

VARIABLES
  chgStopReason, chgLimit,
  activation, interruption,   \* the kernel's two nodes
  level,                      \* the battery's level
  uevent,                     \* a power supply event waits in the socket
  consecutive_errors,
  pc,                         \* where each thread is
  bit, set,                   \* the stop reason a call changes, and how
  batCapNow,
  reason,                     \* the value of chgStopReason in a register
  enabled,                    \* argument of setChargingEnableInternal
  activationResult, interruptionResult,
  met,                        \* history: calls that met one of the other thread
  forced,                     \* history: the last setChargingEnable said stop
  settled                     \* history: what calls that met no other have settled

localVars == <<bit, set, batCapNow, reason, enabled, activationResult,
               interruptionResult>>
vars == <<chgStopReason, chgLimit, activation, interruption, level, uevent,
          consecutive_errors, pc, localVars, met, forced, settled>>

Threads == {"binder", "uevent"}
Reasons == {"force", "limit"}
NoLimit == 100

\* batCapNow when the file was opened but could not be read, or not opened.
Unread   == -1
Unopened == -2

Fields ==
  /\ chgStopReason \in SUBSET Reasons
  /\ chgLimit \in (Limits \cap 50 .. 100) \cup {NoLimit}
  /\ activation \in BOOLEAN /\ interruption \in BOOLEAN
  /\ level \in Levels /\ uevent \in BOOLEAN
  /\ consecutive_errors \in 0 .. kMaxConsecutiveErrors
  /\ consecutive_errors = kMaxConsecutiveErrors => pc["uevent"] = "exited"
  /\ met \in SUBSET Threads /\ forced \in BOOLEAN
  /\ settled \in SUBSET (Reasons \cup {"node"})

Locals ==
  /\ pc \in [Threads -> {"out", "capacity", "limit", "compare", "load", "store", "decide",
                         "nodes", "write", "exited"}]
  /\ pc["binder"] # "exited"
  /\ bit \in [Threads -> Reasons] /\ set \in [Threads -> BOOLEAN]
  /\ batCapNow \in [Threads -> Levels \cup {Unread, Unopened}]
  /\ reason \in [Threads -> SUBSET Reasons]
  /\ enabled \in [Threads -> BOOLEAN]
  /\ activationResult \in [Threads -> BOOLEAN]
  /\ interruptionResult \in [Threads -> BOOLEAN]

TypeOK == Fields /\ Locals

\* The locals of a thread that is in no call.
FreshLocals ==
  /\ bit' = [t \in Threads |-> "limit"] /\ set' = [t \in Threads |-> FALSE]
  /\ batCapNow' = [t \in Threads |-> Unread]
  /\ reason' = [t \in Threads |-> {}]
  /\ enabled' = [t \in Threads |-> FALSE]
  /\ activationResult' = [t \in Threads |-> FALSE]
  /\ interruptionResult' = [t \in Threads |-> FALSE]

\* The object is new; the nodes are as an earlier process left them.
Init ==
  /\ chgStopReason = {} /\ chgLimit = NoLimit
  /\ activation \in BOOLEAN /\ interruption \in BOOLEAN
  /\ level \in Levels /\ uevent = FALSE
  /\ consecutive_errors = 0
  /\ pc = [t \in Threads |-> "out"]
  /\ bit = [t \in Threads |-> "limit"] /\ set = [t \in Threads |-> FALSE]
  /\ batCapNow = [t \in Threads |-> Unread]
  /\ reason = [t \in Threads |-> {}]
  /\ enabled = [t \in Threads |-> FALSE]
  /\ activationResult = [t \in Threads |-> FALSE]
  /\ interruptionResult = [t \in Threads |-> FALSE]
  /\ met = {} /\ forced = FALSE
  /\ settled = Reasons \cup (IF interruption THEN {} ELSE {"node"})

Idle(t) == pc[t] \in {"out", "exited"}
Rest == \A t \in Threads : Idle(t)

\* A call of thread t begins; it is about bit b.
Enter(t, b, at) ==
  /\ pc[t] = "out"
  /\ pc' = [pc EXCEPT ![t] = at]
  /\ bit' = [bit EXCEPT ![t] = b]
  /\ IF Rest THEN met' = {} /\ settled' = settled \ {b}
             ELSE met' = Threads /\ settled' = {}
  /\ UNCHANGED <<chgStopReason, activation, interruption, level, batCapNow, reason, enabled,
                 activationResult, interruptionResult>>

Goto(t, from, to) == /\ pc[t] = from
                     /\ pc' = [pc EXCEPT ![t] = to]

-------------------------------------------------------------------------------
(* The calls.                                                                 *)

SetChargingEnable(enable) ==
  /\ Enter("binder", "force", "load")
  /\ set' = [set EXCEPT !["binder"] = ~enable]
  /\ forced' = ~enable
  /\ UNCHANGED <<chgLimit, uevent, consecutive_errors>>

\* A limit out of range is refused before anything changes.
SetChargingLimit(limit) ==
  /\ limit \in 50 .. 100
  /\ Enter("binder", "limit", "capacity")
  /\ chgLimit' = limit
  /\ UNCHANGED <<uevent, consecutive_errors, set, forced>>

CheckBatCapacity ==
  /\ Enter("binder", "limit", "capacity")
  /\ UNCHANGED <<chgLimit, uevent, consecutive_errors, set, forced>>

\* ProcessUevent: the listener calls the object, which lives in its own process.
HandlePowerSupplyChange ==
  /\ uevent
  /\ Enter("uevent", "limit", "capacity")
  /\ uevent' = FALSE
  /\ consecutive_errors' = 0
  /\ UNCHANGED <<chgLimit, set, forced>>

OtherUevent ==
  /\ pc["uevent"] = "out"
  /\ consecutive_errors' = 0
  /\ UNCHANGED <<chgStopReason, chgLimit, activation, interruption, level, uevent, pc,
                 localVars, met, forced, settled>>

\* Mutant: the listener gives up on its first error.
ProcessErrorExits ==
  /\ Goto("uevent", "out", "exited")
  /\ consecutive_errors' = consecutive_errors + 1
  /\ UNCHANGED <<uevent, settled>>
  /\ UNCHANGED <<chgStopReason, chgLimit, activation, interruption, level, localVars, met,
                 forced>>

\* The socket fails, or an event is lost because the socket's buffer or the
\* message's was too small.  After too many errors in a row the listener exits.
ProcessError ==
  /\ Refusals
  /\ consecutive_errors' = consecutive_errors + 1
  /\ Goto("uevent", "out",
          IF consecutive_errors' = kMaxConsecutiveErrors THEN "exited" ELSE "out")
  /\ \/ UNCHANGED <<uevent, settled, met>>
     \/ /\ uevent /\ uevent' = FALSE
        /\ settled' = settled \ {"limit"}
        /\ met' = IF pc["binder"] = "out" THEN met ELSE met \cup {"binder"}
  /\ UNCHANGED <<chgStopReason, chgLimit, activation, interruption, level, localVars, forced>>

-------------------------------------------------------------------------------
(* The steps of a call, in either thread.  A local that is no longer read goes   *)
(* back to its first value.                                                   *)

\* What most steps leave alone.
Shared == UNCHANGED <<chgLimit, level, uevent, consecutive_errors, forced>>
Nodes == UNCHANGED <<activation, interruption>>

\* The call is over, with an error or without.
Return(t) ==
  /\ pc' = [pc EXCEPT ![t] = "out"]
  /\ met' = met \ {t}
  /\ bit' = [bit EXCEPT ![t] = "limit"] /\ set' = [set EXCEPT ![t] = FALSE]
  /\ batCapNow' = [batCapNow EXCEPT ![t] = Unread]
  /\ reason' = [reason EXCEPT ![t] = {}]
  /\ enabled' = [enabled EXCEPT ![t] = FALSE]
  /\ activationResult' = [activationResult EXCEPT ![t] = FALSE]
  /\ interruptionResult' = [interruptionResult EXCEPT ![t] = FALSE]

\* The level is read before the limit is looked at.
ReadCapacity(t) ==
  /\ Goto(t, "capacity", "limit")
  /\ \E cap \in {level} \cup IF Refusals THEN {Unread, Unopened} ELSE {} :
       batCapNow' = [batCapNow EXCEPT ![t] = cap]
  /\ Shared /\ Nodes
  /\ UNCHANGED <<chgStopReason, bit, set, reason, enabled, activationResult,
                 interruptionResult, met, settled>>

\* Without a limit the level does not matter, nor that it could not be read.
ApplyNoLimit(t) ==
  /\ chgLimit = NoLimit
  /\ Goto(t, "limit", "load")
  /\ set' = [set EXCEPT ![t] = FALSE]
  /\ Shared /\ Nodes
  /\ UNCHANGED <<chgStopReason, bit, batCapNow, reason, enabled, activationResult,
                 interruptionResult, met, settled>>

\* The new limit stays, the stop reason is what it was.
CapacityFails(t) ==
  /\ pc[t] = "limit" /\ chgLimit # NoLimit /\ batCapNow[t] = Unopened
  /\ Return(t)
  /\ Shared /\ Nodes
  /\ UNCHANGED <<chgStopReason, settled>>

LimitSet(t) ==
  /\ chgLimit # NoLimit /\ batCapNow[t] # Unopened
  /\ Goto(t, "limit", "compare")
  /\ Shared /\ Nodes
  /\ UNCHANGED <<chgStopReason, localVars, met, settled>>

\* Mutant: charging goes on when the limit has just been reached.
CompareStrict(t) ==
  /\ Goto(t, "compare", "load")
  /\ set' = [set EXCEPT ![t] = batCapNow[t] > chgLimit]
  /\ Shared /\ Nodes
  /\ UNCHANGED <<chgStopReason, bit, batCapNow, reason, enabled, activationResult,
                 interruptionResult, met, settled>>

\* chgLimit may be another one by now, or none.
Compare(t) ==
  /\ Goto(t, "compare", "load")
  /\ set' = [set EXCEPT ![t] = batCapNow[t] >= chgLimit]
  /\ Shared /\ Nodes
  /\ UNCHANGED <<chgStopReason, bit, batCapNow, reason, enabled, activationResult,
                 interruptionResult, met, settled>>

LoadReason(t) ==
  /\ Goto(t, "load", "store")
  /\ reason' = [reason EXCEPT ![t] = chgStopReason]
  /\ Shared /\ Nodes
  /\ UNCHANGED <<chgStopReason, bit, set, batCapNow, enabled, activationResult,
                 interruptionResult, met, settled>>

\* What a call has settled when it stores its bit: nothing if it met another one or
\* compared the limit with a level that it could not read.
Settled(t) ==
  IF t \in met \/ (bit[t] = "limit" /\ chgLimit # NoLimit /\ batCapNow[t] = Unread)
  THEN {} ELSE {bit[t]}

\* Mutant: setting a bit replaces the others.
StoreReasonOnly(t) ==
  /\ Goto(t, "store", "decide")
  /\ chgStopReason' = IF set[t] THEN {bit[t]} ELSE reason[t] \ {bit[t]}
  /\ reason' = [reason EXCEPT ![t] = chgStopReason']
  /\ settled' = (settled \ {"node"}) \cup Settled(t)
  /\ bit' = [bit EXCEPT ![t] = "limit"] /\ set' = [set EXCEPT ![t] = FALSE]
  /\ batCapNow' = [batCapNow EXCEPT ![t] = Unread]
  /\ Shared /\ Nodes
  /\ UNCHANGED <<enabled, activationResult, interruptionResult, met>>

\* chgStopReason |= bit or &= ~bit.
StoreReason(t) ==
  /\ Goto(t, "store", "decide")
  /\ chgStopReason' = IF set[t] THEN reason[t] \cup {bit[t]} ELSE reason[t] \ {bit[t]}
  /\ reason' = [reason EXCEPT ![t] = chgStopReason']
  /\ settled' = (settled \ {"node"}) \cup Settled(t)
  /\ bit' = [bit EXCEPT ![t] = "limit"] /\ set' = [set EXCEPT ![t] = FALSE]
  /\ batCapNow' = [batCapNow EXCEPT ![t] = Unread]
  /\ Shared /\ Nodes
  /\ UNCHANGED <<enabled, activationResult, interruptionResult, met>>

\* updateChargingStatus, with the value just stored or, at the compiler's choice,
\* the one in memory.
Decide(t) ==
  /\ Goto(t, "decide", "nodes")
  /\ \E value \in {reason[t], chgStopReason} :
       enabled' = [enabled EXCEPT ![t] = (value = {})]
  /\ reason' = [reason EXCEPT ![t] = {}]
  /\ Shared /\ Nodes
  /\ UNCHANGED <<chgStopReason, bit, set, batCapNow, activationResult, interruptionResult,
                 met, settled>>

\* setChargingEnableInternal opens and reads the nodes, or fails.
ReadNodes(t) ==
  /\ \/ /\ Goto(t, "nodes", "write")
        /\ activationResult' = [activationResult EXCEPT ![t] = activation]
        /\ interruptionResult' = [interruptionResult EXCEPT ![t] = interruption]
        /\ UNCHANGED <<bit, set, batCapNow, reason, enabled, met>>
     \/ Refusals /\ pc[t] = "nodes" /\ Return(t)
  /\ Shared /\ Nodes
  /\ UNCHANGED <<chgStopReason, settled>>

\* Mutant: the node is not written when charging is to be enabled again.
WriteNodesStop(t) ==
  /\ pc[t] = "write"
  /\ interruption' = (interruption \/ ~enabled[t])
  /\ activation' = TRUE
  /\ settled' = IF t \in met THEN settled ELSE settled \cup {"node"}
  /\ Return(t)
  /\ Shared
  /\ UNCHANGED chgStopReason

\* A node is written when it was read to be wrong.  The streams are buffered: the
\* kernel sees the writes when they are closed, and nobody looks whether it refused
\* them then.
WriteNodes(t) ==
  /\ pc[t] = "write"
  /\ LET stop == IF interruptionResult[t] = enabled[t] THEN ~enabled[t] ELSE interruption
     IN \/ /\ interruption' = stop
           /\ activation' = (activation \/ ~activationResult[t])
           /\ settled' = IF t \in met THEN settled ELSE settled \cup {"node"}
        \/ /\ Refusals
           /\ interruption' \in {interruption, stop} /\ UNCHANGED activation
           /\ UNCHANGED settled
  /\ Return(t)
  /\ Shared
  /\ UNCHANGED chgStopReason

-------------------------------------------------------------------------------
(* The world.                                                                 *)

\* The kernel announces every change of the level, and other changes as well.
BatteryChanges(lev) ==
  /\ level' = lev /\ uevent' = TRUE
  /\ UNCHANGED <<chgStopReason, chgLimit, activation, interruption, consecutive_errors, pc,
                 localVars, met, forced, settled>>

\* The process dies, in a call or not, and init starts it again: the limit and the
\* stop reasons are gone, the nodes stay.
Restart ==
  /\ chgStopReason' = {} /\ chgLimit' = NoLimit
  /\ uevent' = FALSE /\ consecutive_errors' = 0
  /\ pc' = [t \in Threads |-> "out"]
  /\ FreshLocals
  /\ met' = {} /\ forced' = FALSE
  /\ settled' = Reasons \cup (IF interruption THEN {} ELSE {"node"})
  /\ UNCHANGED <<activation, interruption, level>>

-------------------------------------------------------------------------------
Client ==
  \/ \E enable \in BOOLEAN : SetChargingEnable(enable)
  \/ \E limit \in Limits : SetChargingLimit(limit)
  \/ CheckBatCapacity

Step(t) ==
  \/ ReadCapacity(t) \/ ApplyNoLimit(t) \/ CapacityFails(t) \/ LimitSet(t) \/ Compare(t)
  \/ LoadReason(t) \/ StoreReason(t) \/ Decide(t) \/ ReadNodes(t) \/ WriteNodes(t)

Next ==
  \/ Client \/ HandlePowerSupplyChange \/ OtherUevent \/ ProcessError
  \/ \E t \in Threads : Step(t)
  \/ \E lev \in Levels : BatteryChanges(lev)
  \/ Restart

\* Both threads are scheduled.  Nobody need call, and the battery need not change.
Spec == Init /\ [][Next]_vars /\ WF_vars(HandlePowerSupplyChange)
             /\ \A t \in Threads : WF_vars(Step(t))

-------------------------------------------------------------------------------
(* Properties.                                                                *)

\* Whenever both threads rest, charging is interrupted exactly if there is a reason
\* to, provided the last call that got as far as the nodes met none of the other
\* thread and the kernel refused nothing.
NodeFollowsReason ==
  Rest /\ "node" \in settled => (interruption <=> chgStopReason # {})

\* The stop reason of a client outlives the events of the battery, and goes with
\* its next call only.
ForceFollowsClient ==
  Rest /\ "force" \in settled => (forced <=> "force" \in chgStopReason)

\* Whenever both threads rest and no event waits, the level has been compared with
\* the limit, in spite of being read before the limit and outside any lock.
LimitFollowsLevel ==
  Rest /\ ~uevent /\ "limit" \in settled =>
    ("limit" \in chgStopReason <=> chgLimit # NoLimit /\ level >= chgLimit)

\* Every event is handled unless the listener has given up, which takes errors in
\* a row.
EventsAreHandled == uevent ~> (~uevent \/ consecutive_errors = kMaxConsecutiveErrors)

===============================================================================
