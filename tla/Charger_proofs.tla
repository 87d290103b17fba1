---------------------------- MODULE Charger_proofs ----------------------------
(***************************************************************************)
(* Proofs about Charger: what a call that meets no other one settles stays  *)
(* settled, for every set of levels and limits.                             *)
(***************************************************************************)
EXTENDS Charger, TLAPS

Running(t) == ~Idle(t)

\* Two calls at a time have met, and have settled nothing.
Meeting ==
  Running("binder") /\ Running("uevent") => met = Threads /\ settled = {}

\* Until it is stored, what a call is about is open; while something about the stop
\* reasons is settled, the value loaded is the one to be stored over.
Pending ==
  \A t \in Threads :
    /\ pc[t] \in {"capacity", "limit", "compare", "load", "store"} => bit[t] \notin settled
    /\ pc[t] = "store" /\ settled \cap Reasons # {} => reason[t] = chgStopReason
    /\ pc[t] \in {"capacity", "limit", "compare"} => bit[t] = "limit"
    /\ pc[t] \in {"load", "store"} /\ bit[t] = "force" => t = "binder" /\ set[t] = forced

\* Between storing the reason and writing the node the node is open; a call that
\* met no other knows the stop reasons and the node as they are.
NodeInv ==
  /\ \A t \in Threads :
       /\ pc[t] \in {"decide", "nodes", "write"} => "node" \notin settled
       /\ t \notin met =>
            /\ pc[t] = "decide" => reason[t] = chgStopReason
            /\ pc[t] \in {"nodes", "write"} => (enabled[t] <=> chgStopReason = {})
            /\ pc[t] = "write" => (interruptionResult[t] <=> interruption)
  /\ "node" \in settled => (interruption <=> chgStopReason # {})

ForceInv == "force" \in settled => (forced <=> "force" \in chgStopReason)

OverLimit == chgLimit # NoLimit /\ level >= chgLimit

\* A call that met no other compares the limit with the level there is, unless an
\* event says that this has changed.
LimitInv ==
  /\ \A t \in Threads : t \notin met /\ ~uevent =>
       /\ pc[t] \in {"limit", "compare"} => batCapNow[t] \in {level, Unread, Unopened}
       /\ pc[t] = "compare" => chgLimit # NoLimit /\ batCapNow[t] # Unopened
       /\ pc[t] \in {"load", "store"} /\ bit[t] = "limit" =>
            \/ set[t] <=> OverLimit
            \/ chgLimit # NoLimit /\ batCapNow[t] = Unread
  /\ ~uevent /\ "limit" \in settled => ("limit" \in chgStopReason <=> OverLimit)

IInv == TypeOK /\ Meeting /\ Pending /\ NodeInv /\ ForceInv /\ LimitInv

USE ChargerAssumption DEF NoLimit, Unread, Unopened

LEMMA Names == {"binder", "uevent"} \subseteq Threads /\ {"force", "limit"} \subseteq Reasons
BY DEF Threads, Reasons

\* What a step does to one thread's copy of a Boolean.
LEMMA BooleanUpdate ==
  ASSUME NEW f \in [Threads -> BOOLEAN], NEW t \in Threads, NEW v \in BOOLEAN
  PROVE  [f EXCEPT ![t] = v] \in [Threads -> BOOLEAN]
OBVIOUS


\* Every step keeps the types of the fields.
LEMMA FieldsStep == TypeOK /\ Next => Fields'
<1> SUFFICES ASSUME TypeOK, Next PROVE Fields'
  OBVIOUS
<1> USE Names DEF TypeOK, Fields, Locals
<1>1. ASSUME NEW enable \in BOOLEAN, SetChargingEnable(enable)
      PROVE  Fields'
  BY <1>1 DEF SetChargingEnable, Enter
<1>2. ASSUME NEW limit \in Limits, SetChargingLimit(limit)
      PROVE  Fields'
  BY <1>2 DEF SetChargingLimit, Enter
<1>3. CASE CheckBatCapacity
  BY <1>3 DEF CheckBatCapacity, Enter
<1>4. CASE HandlePowerSupplyChange
  <2>1. consecutive_errors' = 0 /\ kMaxConsecutiveErrors \in Nat /\ kMaxConsecutiveErrors # 0
    BY <1>4 DEF HandlePowerSupplyChange
  <2>2. met' \in SUBSET Threads /\ settled' \in SUBSET (Reasons \cup {"node"})
    BY <1>4 DEF HandlePowerSupplyChange, Enter
  <2>3. /\ UNCHANGED <<chgStopReason, chgLimit, activation, interruption, level, forced>>
        /\ uevent' = FALSE
    BY <1>4 DEF HandlePowerSupplyChange, Enter
  <2>4. /\ consecutive_errors' \in 0 .. kMaxConsecutiveErrors
        /\ consecutive_errors' # kMaxConsecutiveErrors
    BY <2>1
  <2>5. uevent' \in BOOLEAN /\ activation' \in BOOLEAN /\ interruption' \in BOOLEAN
        /\ forced' \in BOOLEAN
    BY <2>3, Zenon
  <2> QED
    BY <2>2, <2>3, <2>4, <2>5
<1>5. CASE OtherUevent
  BY <1>5 DEF OtherUevent, localVars
<1>6. CASE ProcessError
  <2>1. pc["uevent"] = "out"
    BY <1>6 DEF ProcessError, Goto
  <2>2. consecutive_errors # kMaxConsecutiveErrors
    BY <2>1
  <2> USE <1>6 DEF ProcessError, Goto, localVars
  <2>3. consecutive_errors' \in 0 .. kMaxConsecutiveErrors
    BY <2>2
  <2>4. consecutive_errors' = kMaxConsecutiveErrors => pc'["uevent"] = "exited"
    OBVIOUS
  <2>5. met' \in SUBSET Threads /\ settled' \in SUBSET (Reasons \cup {"node"})
    OBVIOUS
  <2> QED
    BY <2>3, <2>4, <2>5
<1>7. ASSUME NEW t \in Threads, ReadCapacity(t)
      PROVE  Fields'
  BY <1>7 DEF ReadCapacity, Goto, Shared, Nodes
<1>8. ASSUME NEW t \in Threads, ApplyNoLimit(t)
      PROVE  Fields'
  BY <1>8 DEF ApplyNoLimit, Goto, Shared, Nodes
<1>9. ASSUME NEW t \in Threads, CapacityFails(t)
      PROVE  Fields'
  BY <1>9 DEF CapacityFails, Return, Shared, Nodes
<1>10. ASSUME NEW t \in Threads, LimitSet(t)
      PROVE  Fields'
  BY <1>10 DEF LimitSet, Goto, Shared, Nodes, localVars
<1>11. ASSUME NEW t \in Threads, Compare(t)
      PROVE  Fields'
  BY <1>11 DEF Compare, Goto, Shared, Nodes
<1>12. ASSUME NEW t \in Threads, LoadReason(t)
      PROVE  Fields'
  BY <1>12 DEF LoadReason, Goto, Shared, Nodes
<1>13. ASSUME NEW t \in Threads, StoreReason(t)
      PROVE  Fields'
  BY <1>13 DEF StoreReason, Goto, Shared, Nodes, Settled
<1>14. ASSUME NEW t \in Threads, Decide(t)
      PROVE  Fields'
  BY <1>14 DEF Decide, Goto, Shared, Nodes
<1>15. ASSUME NEW t \in Threads, ReadNodes(t)
      PROVE  Fields'
  BY <1>15 DEF ReadNodes, Goto, Return, Shared, Nodes
<1>16. ASSUME NEW t \in Threads, WriteNodes(t)
      PROVE  Fields'
  <2> USE <1>16 DEF WriteNodes, Return, Shared
  <2>1. interruption' \in BOOLEAN /\ activation' \in BOOLEAN
    BY Zenon
  <2>2. pc["uevent"] = "exited" => pc'["uevent"] = "exited"
    OBVIOUS
  <2> QED
    BY <2>1, <2>2
<1>17. ASSUME NEW lev \in Levels, BatteryChanges(lev)
      PROVE  Fields'
  BY <1>17 DEF BatteryChanges, localVars
<1>18. CASE Restart
  <2> USE <1>18 DEF Restart, FreshLocals
  <2>1. consecutive_errors' = 0 /\ kMaxConsecutiveErrors \in Nat /\ kMaxConsecutiveErrors # 0
    OBVIOUS
  <2>2. settled' \in SUBSET (Reasons \cup {"node"})
    OBVIOUS
  <2>3. forced' \in BOOLEAN /\ uevent' \in BOOLEAN
    OBVIOUS
  <2>4. chgStopReason' \in SUBSET Reasons /\ met' \in SUBSET Threads
    OBVIOUS
  <2>5. interruption' \in BOOLEAN /\ activation' \in BOOLEAN /\ level' \in Levels
    BY Zenon
  <2> QED
    BY <2>1, <2>2, <2>3, <2>4, <2>5
<1> QED
  BY <1>1, <1>2, <1>3, <1>4, <1>5, <1>6, <1>7, <1>8, <1>9, <1>10, <1>11,
     <1>12, <1>13, <1>14, <1>15, <1>16, <1>17, <1>18
     DEF Next, Client, Step


\* Every step keeps the types of the threads' locals.
LEMMA LocalsStep == TypeOK /\ Next => Locals'
<1> SUFFICES ASSUME TypeOK, Next PROVE Locals'
  OBVIOUS
<1> USE Names, BooleanUpdate DEF TypeOK, Fields, Locals
<1>1. ASSUME NEW enable \in BOOLEAN, SetChargingEnable(enable)
      PROVE  Locals'
  BY <1>1 DEF SetChargingEnable, Enter
<1>2. ASSUME NEW limit \in Limits, SetChargingLimit(limit)
      PROVE  Locals'
  BY <1>2 DEF SetChargingLimit, Enter
<1>3. CASE CheckBatCapacity
  BY <1>3 DEF CheckBatCapacity, Enter
<1>4. CASE HandlePowerSupplyChange
  BY <1>4 DEF HandlePowerSupplyChange, Enter
<1>5. CASE OtherUevent
  BY <1>5 DEF OtherUevent, localVars
<1>6. CASE ProcessError
  BY <1>6 DEF ProcessError, Goto, localVars
<1>7. ASSUME NEW t \in Threads, ReadCapacity(t)
      PROVE  Locals'
  BY <1>7 DEF ReadCapacity, Goto, Shared, Nodes
<1>8. ASSUME NEW t \in Threads, ApplyNoLimit(t)
      PROVE  Locals'
  BY <1>8 DEF ApplyNoLimit, Goto, Shared, Nodes
<1>9. ASSUME NEW t \in Threads, CapacityFails(t)
      PROVE  Locals'
  BY <1>9 DEF CapacityFails, Return, Shared, Nodes
<1>10. ASSUME NEW t \in Threads, LimitSet(t)
      PROVE  Locals'
  BY <1>10 DEF LimitSet, Goto, Shared, Nodes, localVars
<1>11. ASSUME NEW t \in Threads, Compare(t)
      PROVE  Locals'
  BY <1>11 DEF Compare, Goto, Shared, Nodes
<1>12. ASSUME NEW t \in Threads, LoadReason(t)
      PROVE  Locals'
  BY <1>12 DEF LoadReason, Goto, Shared, Nodes
<1>13. ASSUME NEW t \in Threads, StoreReason(t)
      PROVE  Locals'
  BY <1>13 DEF StoreReason, Goto, Shared, Nodes, Settled
<1>14. ASSUME NEW t \in Threads, Decide(t)
      PROVE  Locals'
  BY <1>14 DEF Decide, Goto, Shared, Nodes
<1>15. ASSUME NEW t \in Threads, ReadNodes(t)
      PROVE  Locals'
  <2>1. CASE Return(t)
    BY <1>15, <2>1 DEF ReadNodes, Return, Shared, Nodes
  <2>2. CASE Goto(t, "nodes", "write")
    <3>1. /\ pc[t] = "nodes" /\ Goto(t, "nodes", "write")
          /\ activationResult' = [activationResult EXCEPT ![t] = activation]
          /\ interruptionResult' = [interruptionResult EXCEPT ![t] = interruption]
          /\ UNCHANGED <<bit, set, batCapNow, reason, enabled>>
      BY <1>15, <2>2 DEF ReadNodes, Goto, Return
    <3>2. activation \in BOOLEAN /\ activationResult \in [Threads -> BOOLEAN]
      OBVIOUS
    <3>3. interruption \in BOOLEAN /\ interruptionResult \in [Threads -> BOOLEAN]
      OBVIOUS
    <3>4. activationResult' \in [Threads -> BOOLEAN]
      BY <3>1, <3>2, BooleanUpdate, Zenon
    <3>5. interruptionResult' \in [Threads -> BOOLEAN]
      BY <3>1, <3>3, BooleanUpdate, Zenon
    <3> QED
      BY <3>1, <3>4, <3>5 DEF Goto
  <2> QED
    BY <1>15, <2>1, <2>2 DEF ReadNodes
<1>16. ASSUME NEW t \in Threads, WriteNodes(t)
      PROVE  Locals'
  BY <1>16 DEF WriteNodes, Return, Shared
<1>17. ASSUME NEW lev \in Levels, BatteryChanges(lev)
      PROVE  Locals'
  BY <1>17 DEF BatteryChanges, localVars
<1>18. CASE Restart
  BY <1>18 DEF Restart, FreshLocals
<1> QED
  BY <1>1, <1>2, <1>3, <1>4, <1>5, <1>6, <1>7, <1>8, <1>9, <1>10, <1>11,
     <1>12, <1>13, <1>14, <1>15, <1>16, <1>17, <1>18
     DEF Next, Client, Step

\* Calls that run at the same time have met.
LEMMA MeetingStep == TypeOK /\ Meeting /\ Next => Meeting'
<1> SUFFICES ASSUME TypeOK, Meeting, Next PROVE Meeting'
  OBVIOUS
<1> USE DEF Meeting, Running, Idle, Rest, Threads, TypeOK, Locals
<1>1. ASSUME NEW enable \in BOOLEAN, SetChargingEnable(enable)
      PROVE  Meeting'
  BY <1>1 DEF SetChargingEnable, Enter
<1>2. ASSUME NEW limit \in Limits, SetChargingLimit(limit)
      PROVE  Meeting'
  BY <1>2 DEF SetChargingLimit, Enter
<1>3. CASE CheckBatCapacity
  BY <1>3 DEF CheckBatCapacity, Enter
<1>4. CASE HandlePowerSupplyChange
  BY <1>4 DEF HandlePowerSupplyChange, Enter
<1>5. CASE OtherUevent
  BY <1>5 DEF OtherUevent, localVars
<1>6. CASE ProcessError
  BY <1>6 DEF ProcessError, Goto, localVars
<1>7. ASSUME NEW t \in Threads, ReadCapacity(t)
      PROVE  Meeting'
  BY <1>7 DEF ReadCapacity, Goto, Shared, Nodes
<1>8. ASSUME NEW t \in Threads, ApplyNoLimit(t)
      PROVE  Meeting'
  BY <1>8 DEF ApplyNoLimit, Goto, Shared, Nodes
<1>9. ASSUME NEW t \in Threads, CapacityFails(t)
      PROVE  Meeting'
  BY <1>9 DEF CapacityFails, Return, Shared, Nodes
<1>10. ASSUME NEW t \in Threads, LimitSet(t)
      PROVE  Meeting'
  BY <1>10 DEF LimitSet, Goto, Shared, Nodes, localVars
<1>11. ASSUME NEW t \in Threads, Compare(t)
      PROVE  Meeting'
  BY <1>11 DEF Compare, Goto, Shared, Nodes
<1>12. ASSUME NEW t \in Threads, LoadReason(t)
      PROVE  Meeting'
  BY <1>12 DEF LoadReason, Goto, Shared, Nodes
<1>13. ASSUME NEW t \in Threads, StoreReason(t)
      PROVE  Meeting'
  BY <1>13 DEF StoreReason, Goto, Shared, Nodes, Settled
<1>14. ASSUME NEW t \in Threads, Decide(t)
      PROVE  Meeting'
  BY <1>14 DEF Decide, Goto, Shared, Nodes
<1>15. ASSUME NEW t \in Threads, ReadNodes(t)
      PROVE  Meeting'
  BY <1>15 DEF ReadNodes, Goto, Return, Shared, Nodes
<1>16. ASSUME NEW t \in Threads, WriteNodes(t)
      PROVE  Meeting'
  BY <1>16 DEF WriteNodes, Return, Shared
<1>17. ASSUME NEW lev \in Levels, BatteryChanges(lev)
      PROVE  Meeting'
  BY <1>17 DEF BatteryChanges, localVars
<1>18. CASE Restart
  BY <1>18 DEF Restart, FreshLocals
<1> QED
  BY <1>1, <1>2, <1>3, <1>4, <1>5, <1>6, <1>7, <1>8, <1>9, <1>10, <1>11,
     <1>12, <1>13, <1>14, <1>15, <1>16, <1>17, <1>18
     DEF Next, Client, Step


\* What a call is about stays open until it is stored.
LEMMA PendingStep == TypeOK /\ Meeting /\ Pending /\ Next => Pending'
<1> SUFFICES ASSUME TypeOK, Meeting, Pending, Next PROVE Pending'
  OBVIOUS
<1> USE DEF Pending, Meeting, Running, Idle, Rest, Threads, Reasons, TypeOK, Locals
<1>1. ASSUME NEW enable \in BOOLEAN, SetChargingEnable(enable)
      PROVE  Pending'
  BY <1>1 DEF SetChargingEnable, Enter
<1>2. ASSUME NEW limit \in Limits, SetChargingLimit(limit)
      PROVE  Pending'
  BY <1>2 DEF SetChargingLimit, Enter
<1>3. CASE CheckBatCapacity
  BY <1>3 DEF CheckBatCapacity, Enter
<1>4. CASE HandlePowerSupplyChange
  BY <1>4 DEF HandlePowerSupplyChange, Enter
<1>5. CASE OtherUevent
  BY <1>5 DEF OtherUevent, localVars
<1>6. CASE ProcessError
  BY <1>6 DEF ProcessError, Goto, localVars
<1>7. ASSUME NEW t \in Threads, ReadCapacity(t)
      PROVE  Pending'
  BY <1>7 DEF ReadCapacity, Goto, Shared, Nodes
<1>8. ASSUME NEW t \in Threads, ApplyNoLimit(t)
      PROVE  Pending'
  BY <1>8 DEF ApplyNoLimit, Goto, Shared, Nodes
<1>9. ASSUME NEW t \in Threads, CapacityFails(t)
      PROVE  Pending'
  BY <1>9 DEF CapacityFails, Return, Shared, Nodes
<1>10. ASSUME NEW t \in Threads, LimitSet(t)
      PROVE  Pending'
  BY <1>10 DEF LimitSet, Goto, Shared, Nodes, localVars
<1>11. ASSUME NEW t \in Threads, Compare(t)
      PROVE  Pending'
  BY <1>11 DEF Compare, Goto, Shared, Nodes
<1>12. ASSUME NEW t \in Threads, LoadReason(t)
      PROVE  Pending'
  BY <1>12 DEF LoadReason, Goto, Shared, Nodes
<1>13. ASSUME NEW t \in Threads, StoreReason(t)
      PROVE  Pending'
  BY <1>13 DEF StoreReason, Goto, Shared, Nodes, Settled
<1>14. ASSUME NEW t \in Threads, Decide(t)
      PROVE  Pending'
  BY <1>14 DEF Decide, Goto, Shared, Nodes
<1>15. ASSUME NEW t \in Threads, ReadNodes(t)
      PROVE  Pending'
  BY <1>15 DEF ReadNodes, Goto, Return, Shared, Nodes
<1>16. ASSUME NEW t \in Threads, WriteNodes(t)
      PROVE  Pending'
  <2>1. Return(t) /\ Shared
    BY <1>16 DEF WriteNodes
  <2>2. \A u \in Threads : u # t => /\ pc'[u] = pc[u] /\ bit'[u] = bit[u]
                                    /\ set'[u] = set[u] /\ reason'[u] = reason[u]
    BY <2>1 DEF Return
  <2>3. pc'[t] = "out" /\ forced' = forced
    BY <2>1 DEF Return, Shared
  <2>4. chgStopReason' = chgStopReason /\ settled' \subseteq settled \cup {"node"}
    BY <1>16 DEF WriteNodes
  <2>5. "node" \notin Reasons /\ \A u \in Threads : bit[u] \in Reasons
    OBVIOUS
  <2> QED
    BY <2>2, <2>3, <2>4, <2>5
<1>17. ASSUME NEW lev \in Levels, BatteryChanges(lev)
      PROVE  Pending'
  BY <1>17 DEF BatteryChanges, localVars
<1>18. CASE Restart
  BY <1>18 DEF Restart, FreshLocals
<1> QED
  BY <1>1, <1>2, <1>3, <1>4, <1>5, <1>6, <1>7, <1>8, <1>9, <1>10, <1>11,
     <1>12, <1>13, <1>14, <1>15, <1>16, <1>17, <1>18
     DEF Next, Client, Step


\* A call that met no other brings the node in line with the stop reasons.
LEMMA NodeStep == TypeOK /\ Meeting /\ NodeInv /\ Next => NodeInv'
<1> SUFFICES ASSUME TypeOK, Meeting, NodeInv, Next PROVE NodeInv'
  OBVIOUS
<1> USE DEF NodeInv, Meeting, Running, Idle, Rest, Threads, Reasons, TypeOK, Fields, Locals
<1>1. ASSUME NEW enable \in BOOLEAN, SetChargingEnable(enable)
      PROVE  NodeInv'
  BY <1>1 DEF SetChargingEnable, Enter
<1>2. ASSUME NEW limit \in Limits, SetChargingLimit(limit)
      PROVE  NodeInv'
  BY <1>2 DEF SetChargingLimit, Enter
<1>3. CASE CheckBatCapacity
  BY <1>3 DEF CheckBatCapacity, Enter
<1>4. CASE HandlePowerSupplyChange
  BY <1>4 DEF HandlePowerSupplyChange, Enter
<1>5. CASE OtherUevent
  BY <1>5 DEF OtherUevent, localVars
<1>6. CASE ProcessError
  BY <1>6 DEF ProcessError, Goto, localVars
<1>7. ASSUME NEW t \in Threads, ReadCapacity(t)
      PROVE  NodeInv'
  BY <1>7 DEF ReadCapacity, Goto, Shared, Nodes
<1>8. ASSUME NEW t \in Threads, ApplyNoLimit(t)
      PROVE  NodeInv'
  BY <1>8 DEF ApplyNoLimit, Goto, Shared, Nodes
<1>9. ASSUME NEW t \in Threads, CapacityFails(t)
      PROVE  NodeInv'
  BY <1>9 DEF CapacityFails, Return, Shared, Nodes
<1>10. ASSUME NEW t \in Threads, LimitSet(t)
      PROVE  NodeInv'
  BY <1>10 DEF LimitSet, Goto, Shared, Nodes, localVars
<1>11. ASSUME NEW t \in Threads, Compare(t)
      PROVE  NodeInv'
  BY <1>11 DEF Compare, Goto, Shared, Nodes
<1>12. ASSUME NEW t \in Threads, LoadReason(t)
      PROVE  NodeInv'
  BY <1>12 DEF LoadReason, Goto, Shared, Nodes
<1>13. ASSUME NEW t \in Threads, StoreReason(t)
      PROVE  NodeInv'
  BY <1>13 DEF StoreReason, Goto, Shared, Nodes, Settled
<1>14. ASSUME NEW t \in Threads, Decide(t)
      PROVE  NodeInv'
  <2>1. PICK value \in {reason[t], chgStopReason} :
          enabled' = [enabled EXCEPT ![t] = (value = {})]
    BY <1>14 DEF Decide
  <2>2. t \notin met => value = chgStopReason
    BY <1>14, <2>1 DEF Decide, Goto
  <2>3. \A u \in Threads : enabled'[u] = IF u = t THEN value = {} ELSE enabled[u]
    BY <2>1, Zenon
  <2>4. enabled'[t] <=> value = {}
    BY <2>3, Zenon
  <2>5. \A u \in Threads \ {t} : enabled'[u] = enabled[u]
    BY <2>3
  <2> HIDE <2>1
  <2> QED
    BY <1>14, <2>2, <2>4, <2>5 DEF Decide, Goto, Shared, Nodes
<1>15. ASSUME NEW t \in Threads, ReadNodes(t)
      PROVE  NodeInv'
  BY <1>15 DEF ReadNodes, Goto, Return, Shared, Nodes
<1>16. ASSUME NEW t \in Threads, WriteNodes(t)
      PROVE  NodeInv'
  <2> pc[t] = "write"
    BY <1>16 DEF WriteNodes
  <2>1. t \notin met => ((interruptionResult[t] <=> interruption)
                           /\ (enabled[t] <=> chgStopReason = {}))
    OBVIOUS
  <2>2. t \notin met /\ "node" \in settled' => (interruption' <=> chgStopReason # {})
    <3> SUFFICES ASSUME t \notin met, "node" \in settled'
                 PROVE  interruption' <=> chgStopReason # {}
      OBVIOUS
    <3>1. "node" \notin settled
      OBVIOUS
    <3>2. interruption' = IF interruptionResult[t] = enabled[t] THEN ~enabled[t] ELSE interruption
      BY <1>16, <3>1 DEF WriteNodes
    <3>3. /\ enabled[t] \in BOOLEAN /\ interruptionResult[t] \in BOOLEAN
          /\ interruption \in BOOLEAN
      OBVIOUS
    <3> QED
      BY <2>1, <3>2, <3>3, Zenon
  <2>3. \A u \in Threads \ {t} : t \notin met => pc[u] \notin {"nodes", "write", "decide"}
    BY <1>16 DEF WriteNodes
  <2> QED
    BY <1>16, <2>2, <2>3 DEF WriteNodes, Return, Shared
<1>17. ASSUME NEW lev \in Levels, BatteryChanges(lev)
      PROVE  NodeInv'
  BY <1>17 DEF BatteryChanges, localVars
<1>18. CASE Restart
  BY <1>18 DEF Restart, FreshLocals
<1> QED
  BY <1>1, <1>2, <1>3, <1>4, <1>5, <1>6, <1>7, <1>8, <1>9, <1>10, <1>11,
     <1>12, <1>13, <1>14, <1>15, <1>16, <1>17, <1>18
     DEF Next, Client, Step


\* Only a client's call changes the stop reason of clients.
LEMMA ForceStep == TypeOK /\ Pending /\ ForceInv /\ Next => ForceInv'
<1> SUFFICES ASSUME TypeOK, Pending, ForceInv, Next PROVE ForceInv'
  OBVIOUS
<1> USE DEF ForceInv, Pending, TypeOK, Fields, Locals, Threads, Reasons, Rest, Idle
<1>1. ASSUME NEW enable \in BOOLEAN, SetChargingEnable(enable)
      PROVE  ForceInv'
  BY <1>1 DEF SetChargingEnable, Enter
<1>2. ASSUME NEW limit \in Limits, SetChargingLimit(limit)
      PROVE  ForceInv'
  BY <1>2 DEF SetChargingLimit, Enter
<1>3. CASE CheckBatCapacity
  BY <1>3 DEF CheckBatCapacity, Enter
<1>4. CASE HandlePowerSupplyChange
  BY <1>4 DEF HandlePowerSupplyChange, Enter
<1>5. CASE OtherUevent
  BY <1>5 DEF OtherUevent, localVars
<1>6. CASE ProcessError
  BY <1>6 DEF ProcessError, Goto, localVars
<1>7. ASSUME NEW t \in Threads, ReadCapacity(t)
      PROVE  ForceInv'
  BY <1>7 DEF ReadCapacity, Goto, Shared, Nodes
<1>8. ASSUME NEW t \in Threads, ApplyNoLimit(t)
      PROVE  ForceInv'
  BY <1>8 DEF ApplyNoLimit, Goto, Shared, Nodes
<1>9. ASSUME NEW t \in Threads, CapacityFails(t)
      PROVE  ForceInv'
  BY <1>9 DEF CapacityFails, Return, Shared, Nodes
<1>10. ASSUME NEW t \in Threads, LimitSet(t)
      PROVE  ForceInv'
  BY <1>10 DEF LimitSet, Goto, Shared, Nodes, localVars
<1>11. ASSUME NEW t \in Threads, Compare(t)
      PROVE  ForceInv'
  BY <1>11 DEF Compare, Goto, Shared, Nodes
<1>12. ASSUME NEW t \in Threads, LoadReason(t)
      PROVE  ForceInv'
  BY <1>12 DEF LoadReason, Goto, Shared, Nodes
<1>13. ASSUME NEW t \in Threads, StoreReason(t)
      PROVE  ForceInv'
  BY <1>13 DEF StoreReason, Goto, Shared, Nodes, Settled
<1>14. ASSUME NEW t \in Threads, Decide(t)
      PROVE  ForceInv'
  BY <1>14 DEF Decide, Goto, Shared, Nodes
<1>15. ASSUME NEW t \in Threads, ReadNodes(t)
      PROVE  ForceInv'
  BY <1>15 DEF ReadNodes, Goto, Return, Shared, Nodes
<1>16. ASSUME NEW t \in Threads, WriteNodes(t)
      PROVE  ForceInv'
  BY <1>16 DEF WriteNodes, Return, Shared
<1>17. ASSUME NEW lev \in Levels, BatteryChanges(lev)
      PROVE  ForceInv'
  BY <1>17 DEF BatteryChanges, localVars
<1>18. CASE Restart
  BY <1>18 DEF Restart, FreshLocals
<1> QED
  BY <1>1, <1>2, <1>3, <1>4, <1>5, <1>6, <1>7, <1>8, <1>9, <1>10, <1>11,
     <1>12, <1>13, <1>14, <1>15, <1>16, <1>17, <1>18
     DEF Next, Client, Step


\* The level is compared with the limit before the event that announces it is gone.
LEMMA LimitStep == TypeOK /\ Meeting /\ Pending /\ LimitInv /\ Next => LimitInv'
<1> SUFFICES ASSUME TypeOK, Meeting, Pending, LimitInv, Next PROVE LimitInv'
  OBVIOUS
<1> USE DEF LimitInv, OverLimit, Pending, Meeting, Running, Idle, Rest, Threads, Reasons,
            TypeOK, Fields, Locals
<1>1. ASSUME NEW enable \in BOOLEAN, SetChargingEnable(enable)
      PROVE  LimitInv'
  BY <1>1 DEF SetChargingEnable, Enter
<1>2. ASSUME NEW limit \in Limits, SetChargingLimit(limit)
      PROVE  LimitInv'
  BY <1>2 DEF SetChargingLimit, Enter
<1>3. CASE CheckBatCapacity
  BY <1>3 DEF CheckBatCapacity, Enter
<1>4. CASE HandlePowerSupplyChange
  BY <1>4 DEF HandlePowerSupplyChange, Enter
<1>5. CASE OtherUevent
  BY <1>5 DEF OtherUevent, localVars
<1>6. CASE ProcessError
  BY <1>6 DEF ProcessError, Goto, localVars
<1>7. ASSUME NEW t \in Threads, ReadCapacity(t)
      PROVE  LimitInv'
  BY <1>7 DEF ReadCapacity, Goto, Shared, Nodes
<1>8. ASSUME NEW t \in Threads, ApplyNoLimit(t)
      PROVE  LimitInv'
  BY <1>8 DEF ApplyNoLimit, Goto, Shared, Nodes
<1>9. ASSUME NEW t \in Threads, CapacityFails(t)
      PROVE  LimitInv'
  BY <1>9 DEF CapacityFails, Return, Shared, Nodes
<1>10. ASSUME NEW t \in Threads, LimitSet(t)
      PROVE  LimitInv'
  BY <1>10 DEF LimitSet, Goto, Shared, Nodes, localVars
<1>11. ASSUME NEW t \in Threads, Compare(t)
      PROVE  LimitInv'
  <2>1. set'[t] <=> batCapNow[t] >= chgLimit
    BY <1>11 DEF Compare
  <2>2. \A u \in Threads \ {t} : set'[u] = set[u]
    BY <1>11 DEF Compare
  <2> QED
    BY <1>11, <2>1, <2>2 DEF Compare, Goto, Shared, Nodes
<1>12. ASSUME NEW t \in Threads, LoadReason(t)
      PROVE  LimitInv'
  BY <1>12 DEF LoadReason, Goto, Shared, Nodes
<1>13. ASSUME NEW t \in Threads, StoreReason(t)
      PROVE  LimitInv'
  BY <1>13 DEF StoreReason, Goto, Shared, Nodes, Settled
<1>14. ASSUME NEW t \in Threads, Decide(t)
      PROVE  LimitInv'
  BY <1>14 DEF Decide, Goto, Shared, Nodes
<1>15. ASSUME NEW t \in Threads, ReadNodes(t)
      PROVE  LimitInv'
  BY <1>15 DEF ReadNodes, Goto, Return, Shared, Nodes
<1>16. ASSUME NEW t \in Threads, WriteNodes(t)
      PROVE  LimitInv'
  BY <1>16 DEF WriteNodes, Return, Shared
<1>17. ASSUME NEW lev \in Levels, BatteryChanges(lev)
      PROVE  LimitInv'
  BY <1>17 DEF BatteryChanges, localVars
<1>18. CASE Restart
  BY <1>18 DEF Restart, FreshLocals
<1> QED
  BY <1>1, <1>2, <1>3, <1>4, <1>5, <1>6, <1>7, <1>8, <1>9, <1>10, <1>11,
     <1>12, <1>13, <1>14, <1>15, <1>16, <1>17, <1>18
     DEF Next, Client, Step

\* The inductive invariant holds in every reachable state.
THEOREM Invariance == Spec => []IInv
<1>1. Init => IInv
  <2> SUFFICES ASSUME Init PROVE IInv
    OBVIOUS
  <2> USE Names DEF Init
  <2>1. TypeOK
    <3>1. kMaxConsecutiveErrors \in Nat /\ kMaxConsecutiveErrors # 0
      OBVIOUS
    <3>2. consecutive_errors \in 0 .. kMaxConsecutiveErrors
          /\ consecutive_errors # kMaxConsecutiveErrors
      BY <3>1
    <3>3. Fields
      BY <3>2 DEF Fields
    <3>4. Locals
      BY DEF Locals
    <3> QED
      BY <3>3, <3>4 DEF TypeOK
  <2>2. Meeting /\ Pending
    BY DEF Meeting, Pending, Running, Idle, Threads
  <2>3. NodeInv
    BY DEF NodeInv, Threads, Reasons
  <2>4. ForceInv /\ LimitInv
    BY DEF ForceInv, LimitInv, OverLimit
  <2> QED
    BY <2>1, <2>2, <2>3, <2>4 DEF IInv
<1>2. IInv /\ [Next]_vars => IInv'
  <2>1. CASE Next
    BY <2>1, FieldsStep, LocalsStep, MeetingStep, PendingStep, NodeStep, ForceStep, LimitStep
       DEF IInv, TypeOK
  <2>2. CASE UNCHANGED vars
    BY <2>2 DEF IInv, TypeOK, Fields, Locals, Meeting, Running, Idle, Pending, NodeInv,
                ForceInv, LimitInv, OverLimit, vars, localVars
  <2> QED
    BY <2>1, <2>2
<1> QED
  BY <1>1, <1>2, PTL DEF Spec

\* All fields, nodes, locals and histories keep their types: a limit out of range is
\* never stored, and the listener that has seen too many errors is gone.
THEOREM TypeCorrect == Spec => []TypeOK
<1>1. IInv => TypeOK
  BY DEF IInv
<1> QED
  BY Invariance, <1>1, PTL

\* Charging is interrupted exactly if there is a reason to (NodeFollowsReason), for
\* every set of levels and limits and any number of errors.
THEOREM NodeFollows == Spec => []NodeFollowsReason
<1>1. IInv => NodeFollowsReason
  BY DEF IInv, NodeInv, NodeFollowsReason
<1> QED
  BY Invariance, <1>1, PTL

\* The client's stop reason is not touched by events (ForceFollowsClient).
THEOREM ForceFollows == Spec => []ForceFollowsClient
<1>1. IInv => ForceFollowsClient
  BY DEF IInv, ForceInv, ForceFollowsClient
<1> QED
  BY Invariance, <1>1, PTL

\* When nothing is pending the limit is applied to the level (LimitFollowsLevel).
THEOREM LimitFollows == Spec => []LimitFollowsLevel
<1>1. IInv => LimitFollowsLevel
  BY DEF IInv, LimitInv, OverLimit, LimitFollowsLevel
<1> QED
  BY Invariance, <1>1, PTL
===============================================================================
