--------------------------- MODULE ChargerApp_proofs ---------------------------
(***************************************************************************)
(* Proofs about ChargerApp: why charging is suspended and why HSPC is on,   *)
(* for every set of levels and limits.                                      *)
(***************************************************************************)
EXTENDS ChargerApp, TLAPS

\* All that needs the main switch goes with it.
MainSwitchInv == (isHSPCEnabled \/ chargingLimit < Full) => mainSwitch

\* Before the service has run it knows nothing; it remembers HSPC only while it
\* takes the charger for unplugged.
ServiceInv ==
  /\ ~started => lastBatteryLevel = -1 /\ lastPluggedState = -1
  /\ lastHspcEnabledState => lastPluggedState = 0

\* Every way by which HSPC can be on, or come back, starts with a hand on it.
HspcInv ==
  started =>
    /\ isHSPCEnabled \/ lastHspcEnabledState => asked
    /\ isHSPCEnabled /\ lastPluggedState = 0 => unseen

IInv == TypeOK /\ MainSwitchInv /\ ServiceInv /\ HspcInv /\ SuspendedForAReason

USE ChargerAppAssumption

\* The node after a write is the value written, or the driver refused it.
LEMMA WriteType ==
  ASSUME TypeOK, NEW u \in 0 .. 1, NEW v \in 0 .. 1, Write(v) \/ WriteBoth(u, v)
  PROVE  /\ node' \in 0 .. 1 /\ unwritten' \in BOOLEAN
         /\ ~unwritten' => node' = v
BY DEF TypeOK, Write, WriteBoth

LEMMA WantedType ==
  ASSUME NEW limit \in Limits, NEW l \in Levels
  PROVE  /\ Wanted(limit, l) \in 0 .. 1
         /\ Wanted(limit, l) = 1 => limit < Full /\ l >= limit
BY DEF Wanted

\* updateChargingState: unless HSPC keeps the node, it holds what was judged.
LEMMA UpdateEffect ==
  ASSUME TypeOK, NEW limit \in Limits, NEW l \in Levels, UpdateChargingState(limit, l)
  PROVE  /\ node' \in 0 .. 1 /\ unwritten' \in BOOLEAN /\ judged' \in Levels \cup {-1}
         /\ isHSPCEnabled => UNCHANGED nodeVars
         /\ ~isHSPCEnabled => /\ judged' = l
                              /\ node' = 1 /\ ~unwritten' => limit < Full /\ l >= limit
<1>1. CASE isHSPCEnabled
  BY <1>1 DEF UpdateChargingState, TypeOK, nodeVars
<1>2. CASE ~isHSPCEnabled
  <2>1. Write(Wanted(limit, l)) /\ judged' = l
    BY <1>2 DEF UpdateChargingState
  <2>2. Wanted(limit, l) \in 0 .. 1
    BY WantedType
  <2>3. /\ node' \in 0 .. 1 /\ unwritten' \in BOOLEAN
        /\ ~unwritten' => node' = Wanted(limit, l)
    BY <2>1, <2>2, WriteType
  <2> QED
    BY <1>2, <2>1, <2>3, WantedType
<1> QED
  BY <1>1, <1>2

\* SetHSPC, by hand and with the main switch on.
LEMMA SetHSPCStep ==
  ASSUME IInv, mainSwitch, NEW on \in BOOLEAN, SetHSPC(on),
         UNCHANGED <<settings, battery, serviceVars, switchEnabled>>
  PROVE  IInv'
<1> USE DEF IInv
<1>1. /\ node' \in 0 .. 1 /\ unwritten' \in BOOLEAN
      /\ ~unwritten' => node' = IF on THEN 1 ELSE 0
  <2>1. (IF on THEN 1 ELSE 0) \in 0 .. 1
    OBVIOUS
  <2> QED
    BY <2>1, WriteType DEF SetHSPC
<1>2. TypeOK'
  BY <1>1 DEF SetHSPC, TypeOK, settings, battery, serviceVars
<1>3. MainSwitchInv' /\ ServiceInv'
  BY DEF MainSwitchInv, ServiceInv, settings, serviceVars
<1>4. HspcInv'
  BY DEF HspcInv, ServiceInv, SetHSPC, serviceVars
<1>5. SuspendedForAReason'
  BY <1>1 DEF SuspendedForAReason, SetHSPC, settings, serviceVars
<1> QED
  BY <1>2, <1>3, <1>4, <1>5

\* The page's handlers.
LEMMA PageStep ==
  ASSUME IInv,
         (\E l \in Limits : ChangeLimit(l)) \/ (\E on \in BOOLEAN : ChangeHSPC(on))
           \/ PageReceives
  PROVE  IInv'
<1>1. ASSUME NEW l \in Limits, ChangeLimit(l) PROVE IInv'
  <2>1. /\ TypeOK /\ level \in Levels /\ UpdateChargingState(l, level)
        /\ mainSwitch /\ chargingLimit' = l
        /\ UNCHANGED <<mainSwitch, backup, battery, serviceVars, switchEnabled, hspcVars>>
    BY <1>1 DEF ChangeLimit, IInv, TypeOK
  <2>2. /\ node' \in 0 .. 1 /\ unwritten' \in BOOLEAN /\ judged' \in Levels \cup {-1}
        /\ ~isHSPCEnabled => /\ judged' = level
                             /\ node' = 1 /\ ~unwritten' => l < Full /\ level >= l
    BY <2>1, UpdateEffect
  <2>3. TypeOK'
    BY <2>1, <2>2 DEF TypeOK, battery, serviceVars, hspcVars
  <2>4. MainSwitchInv' /\ ServiceInv' /\ HspcInv'
    BY <2>1 DEF IInv, MainSwitchInv, ServiceInv, HspcInv, serviceVars, hspcVars
  <2>5. SuspendedForAReason'
    BY <2>1, <2>2 DEF SuspendedForAReason, hspcVars
  <2> QED
    BY <2>3, <2>4, <2>5 DEF IInv
<1>2. ASSUME NEW on \in BOOLEAN, ChangeHSPC(on) PROVE IInv'
  BY <1>2, SetHSPCStep DEF ChangeHSPC
<1>3. CASE PageReceives
  <2>1. TypeOK'
    BY <1>3 DEF IInv, PageReceives, TypeOK, settings, nodeVars, battery, serviceVars, hspcVars
  <2> QED
    BY <1>3, <2>1 DEF IInv, PageReceives, MainSwitchInv, ServiceInv, HspcInv,
                      SuspendedForAReason, settings, nodeVars, serviceVars, hspcVars
<1> QED
  BY <1>1, <1>2, <1>3

\* handleMainSwitchChange.
LEMMA MainSwitchStep ==
  ASSUME IInv, MainSwitchOff \/ MainSwitchOn
  PROVE  IInv'
<1> USE DEF IInv
<1>1. TypeOK /\ level \in Levels /\ backup \in Limits /\ chargingLimit \in Limits
  BY DEF TypeOK
<1>2. CASE MainSwitchOff
  <2>1. node' \in 0 .. 1 /\ unwritten' \in BOOLEAN /\ (~unwritten' => node' = 0)
    <3>1. Write(0) /\ 0 \in 0 .. 1
      BY <1>2 DEF MainSwitchOff
    <3> QED
      BY <1>1, <3>1, WriteType
  <2>2. TypeOK'
    BY <1>2, <2>1 DEF MainSwitchOff, DropHSPC, TypeOK, battery, serviceVars
  <2> QED
    BY <1>1, <1>2, <2>1, <2>2 DEF MainSwitchOff, DropHSPC, MainSwitchInv, ServiceInv,
                                  HspcInv, SuspendedForAReason, serviceVars
<1>3. CASE MainSwitchOn
  <2>1. /\ node' \in 0 .. 1 /\ unwritten' \in BOOLEAN /\ judged' \in Levels \cup {-1}
        /\ node' = 1 /\ ~unwritten' =>
             backup < Full /\ judged' = level /\ judged' >= backup
    <3>1. CASE backup = Full
      <4>1. Write(0) /\ judged' = judged /\ 0 \in 0 .. 1
        BY <1>3, <3>1 DEF MainSwitchOn
      <4> QED
        BY <1>1, <4>1, WriteType DEF TypeOK
    <3>2. CASE backup # Full
      <4>1. WriteBoth(0, Wanted(backup, level)) /\ judged' = level /\ 0 \in 0 .. 1
        BY <1>3, <3>2 DEF MainSwitchOn
      <4>2. /\ Wanted(backup, level) \in 0 .. 1
            /\ Wanted(backup, level) = 1 => backup < Full /\ level >= backup
        BY <1>1, WantedType
      <4>3. /\ node' \in 0 .. 1 /\ unwritten' \in BOOLEAN
            /\ ~unwritten' => node' = Wanted(backup, level)
        BY <1>1, <4>1, <4>2, WriteType
      <4> QED
        BY <1>1, <4>1, <4>2, <4>3
    <3> QED
      BY <3>1, <3>2
  <2>2. TypeOK'
    BY <1>3, <2>1 DEF MainSwitchOn, DropHSPC, TypeOK, battery, serviceVars
  <2>3. MainSwitchInv' /\ ServiceInv' /\ HspcInv'
    BY <1>3 DEF MainSwitchOn, DropHSPC, MainSwitchInv, ServiceInv, HspcInv, serviceVars
  <2>4. SuspendedForAReason'
    BY <1>3, <2>1 DEF MainSwitchOn, DropHSPC, SuspendedForAReason
  <2> QED
    BY <2>2, <2>3, <2>4
<1> QED
  BY <1>2, <1>3

\* What NewLevel leaves of the node, with HSPC unchanged.
LEMMA NewLevelEffect ==
  ASSUME IInv, NewLevel
  PROVE  /\ node' \in 0 .. 1 /\ unwritten' \in BOOLEAN /\ judged' \in Levels \cup {-1}
         /\ node' = 1 /\ ~unwritten' =>
              mainSwitch /\ (isHSPCEnabled \/ (chargingLimit < Full /\ judged' >= chargingLimit))
<1>1. TypeOK /\ level \in Levels /\ chargingLimit \in Limits
  BY DEF IInv, TypeOK
<1>2. CASE level = lastBatteryLevel
  <2>1. UNCHANGED nodeVars /\ lastBatteryLevel # -1
    BY <1>1, <1>2 DEF NewLevel
  <2> QED
    BY <1>1, <2>1 DEF IInv, TypeOK, SuspendedForAReason, nodeVars
<1>3. CASE level # lastBatteryLevel
  <2>1. UpdateChargingState(chargingLimit, level)
    BY <1>3 DEF NewLevel
  <2> QED
    BY <1>1, <2>1, UpdateEffect DEF IInv, MainSwitchInv
<1> QED
  BY <1>2, <1>3

\* A broadcast that the service receives.
LEMMA ServiceStep ==
  ASSUME IInv, ServiceReceives
  PROVE  IInv'
<1>1. /\ TypeOK /\ level \in Levels /\ chargingLimit \in Limits /\ plugged \in 0 .. 1
      /\ started /\ lastBatteryLevel' = level /\ lastPluggedState' = plugged
      /\ UNCHANGED <<settings, battery, started, switchEnabled>>
  BY DEF IInv, TypeOK, ServiceReceives
<1>2. CASE PluggedIn /\ lastHspcEnabledState /\ mainSwitch
  <2>1. /\ isHSPCEnabled' = TRUE /\ unseen' = FALSE /\ UNCHANGED asked
        /\ lastHspcEnabledState' = FALSE /\ plugged # 0
    BY <1>2 DEF PluggedIn
  <2>2. node' \in 0 .. 1 /\ unwritten' \in BOOLEAN /\ judged' \in Levels \cup {-1}
    <3>1. CASE level = lastBatteryLevel \/ isHSPCEnabled
      <4>1. Write(1) /\ UNCHANGED judged /\ 1 \in 0 .. 1
        BY <1>2, <3>1 DEF PluggedIn
      <4> QED
        BY <1>1, <4>1, WriteType DEF TypeOK
    <3>2. CASE ~(level = lastBatteryLevel \/ isHSPCEnabled)
      <4>1. WriteBoth(Wanted(chargingLimit, level), 1) /\ judged' = level /\ 1 \in 0 .. 1
        BY <1>2, <3>2 DEF PluggedIn
      <4>2. Wanted(chargingLimit, level) \in 0 .. 1
        BY <1>1, WantedType
      <4> QED
        BY <1>1, <4>1, <4>2, WriteType
    <3> QED
      BY <3>1, <3>2
  <2>3. TypeOK'
    <3>1. {isHSPCEnabled', unseen', asked', lastHspcEnabledState'} \subseteq BOOLEAN
      BY <1>1, <2>1, Zenon DEF TypeOK
    <3> QED
      BY <1>1, <2>2, <3>1 DEF TypeOK, settings, battery
  <2> QED
    BY <1>1, <1>2, <2>1, <2>3 DEF IInv, MainSwitchInv, ServiceInv, HspcInv,
                                  SuspendedForAReason, settings
<1>3. CASE Unplugged /\ isHSPCEnabled
  <2>1. /\ lastHspcEnabledState' = mainSwitch /\ isHSPCEnabled' = FALSE /\ unseen' = FALSE
        /\ Write(0) /\ UNCHANGED <<judged, asked>> /\ plugged = 0 /\ 0 \in 0 .. 1
    BY <1>3 DEF Unplugged, DropHSPC
  <2>2. node' \in 0 .. 1 /\ unwritten' \in BOOLEAN /\ (~unwritten' => node' = 0)
    BY <1>1, <2>1, WriteType
  <2>3. TypeOK'
    <3>1. {isHSPCEnabled', unseen', asked', lastHspcEnabledState'} \subseteq BOOLEAN
      BY <1>1, <2>1, Zenon DEF TypeOK
    <3> QED
      BY <1>1, <2>1, <2>2, <3>1 DEF TypeOK, settings, battery
  <2> QED
    BY <1>1, <1>3, <2>1, <2>2, <2>3 DEF IInv, MainSwitchInv, ServiceInv, HspcInv,
                                        SuspendedForAReason, settings
<1>4. CASE /\ NewLevel /\ UNCHANGED <<isHSPCEnabled, asked>>
           /\ lastHspcEnabledState' \in BOOLEAN /\ unseen' \in BOOLEAN
           /\ lastHspcEnabledState' => lastHspcEnabledState /\ plugged = 0
           /\ isHSPCEnabled /\ plugged = 0 => lastPluggedState = 0 /\ unseen' = unseen
  <2>1. /\ node' \in 0 .. 1 /\ unwritten' \in BOOLEAN /\ judged' \in Levels \cup {-1}
        /\ node' = 1 /\ ~unwritten' =>
             mainSwitch /\ (isHSPCEnabled \/ (chargingLimit < Full /\ judged' >= chargingLimit))
    BY <1>4, NewLevelEffect
  <2>2. TypeOK'
    BY <1>1, <1>4, <2>1 DEF TypeOK, settings, battery
  <2>3. MainSwitchInv' /\ ServiceInv' /\ HspcInv'
    BY <1>1, <1>4 DEF IInv, MainSwitchInv, ServiceInv, HspcInv, settings
  <2>4. SuspendedForAReason'
    BY <1>1, <1>4, <2>1 DEF SuspendedForAReason, settings
  <2> QED
    BY <2>2, <2>3, <2>4 DEF IInv
<1>5. CASE PluggedIn /\ ~(lastHspcEnabledState /\ mainSwitch)
  BY <1>4, <1>5 DEF PluggedIn
<1>6. CASE Unplugged /\ ~isHSPCEnabled
  BY <1>1, <1>4, <1>6 DEF Unplugged, TypeOK, IInv, ServiceInv
<1>7. CASE SamePlug
  BY <1>1, <1>4, <1>7 DEF SamePlug, TypeOK, IInv, ServiceInv, hspcVars
<1> QED
  BY <1>2, <1>3, <1>5, <1>6, <1>7 DEF ServiceReceives

\* Ends of the process and of the device, and the battery.
LEMMA OutsideStep ==
  ASSUME IInv, Restart \/ Reboot \/ BootCompleted \/ BatteryChanges
  PROVE  IInv'
<1> USE DEF IInv, Fresh, settings, nodeVars, battery, serviceVars, hspcVars
<1>1. TypeOK'
  <2>1. CASE BatteryChanges
    BY <2>1 DEF TypeOK, BatteryChanges
  <2>2. CASE Restart \/ Reboot \/ BootCompleted
    <3>1. {started', lastHspcEnabledState', switchEnabled', unwritten', isHSPCEnabled',
           asked', unseen'} \subseteq BOOLEAN
      BY <2>2, Zenon DEF TypeOK, Restart, Reboot, BootCompleted, DropHSPC
    <3> QED
      BY <2>2, <3>1 DEF TypeOK, Restart, Reboot, BootCompleted
  <2> QED
    BY <2>1, <2>2
<1>2. MainSwitchInv'
  BY DEF MainSwitchInv, Restart, Reboot, BootCompleted, BatteryChanges, DropHSPC
<1>3. ServiceInv'
  BY DEF ServiceInv, Restart, Reboot, BootCompleted, BatteryChanges
<1>4. HspcInv'
  <2>1. CASE BootCompleted
    BY <2>1 DEF HspcInv, ServiceInv, BootCompleted, DropHSPC
  <2>2. CASE Restart
    BY <2>2 DEF HspcInv, Restart
  <2>3. CASE Reboot \/ BatteryChanges
    BY <2>3 DEF HspcInv, Reboot, BatteryChanges
  <2> QED
    BY <2>1, <2>2, <2>3
<1>5. SuspendedForAReason'
  BY DEF SuspendedForAReason, ServiceInv, Restart, Reboot, BootCompleted, BatteryChanges
<1> QED
  BY <1>1, <1>2, <1>3, <1>4, <1>5

\* The inductive invariant holds in every behaviour.
THEOREM Invariance == Spec => []IInv
<1>1. Init => IInv
  <2> SUFFICES ASSUME Init PROVE IInv
    OBVIOUS
  <2>1. TypeOK
    <3>1. {mainSwitch, isHSPCEnabled, unwritten, started, lastHspcEnabledState,
           switchEnabled, asked, unseen} \subseteq BOOLEAN
      BY Zenon DEF Init
    <3> QED
      BY <3>1 DEF Init, TypeOK
  <2>2. MainSwitchInv /\ ServiceInv /\ HspcInv /\ SuspendedForAReason
    BY DEF Init, MainSwitchInv, ServiceInv, HspcInv, SuspendedForAReason
  <2> QED
    BY <2>1, <2>2 DEF IInv
<1>2. IInv /\ [Next]_vars => IInv'
  <2> SUFFICES ASSUME IInv, [Next]_vars PROVE IInv'
    OBVIOUS
  <2>1. CASE TileClicked
    BY <2>1, SetHSPCStep DEF TileClicked, IInv, TypeOK
  <2>2. CASE UNCHANGED vars
    BY <2>2 DEF IInv, TypeOK, MainSwitchInv, ServiceInv, HspcInv, SuspendedForAReason,
                vars, settings, nodeVars, battery, serviceVars, hspcVars
  <2> QED
    BY <2>1, <2>2, PageStep, MainSwitchStep, ServiceStep, OutsideStep DEF Next
<1> QED
  BY <1>1, <1>2, PTL DEF Spec

\* Settings, node and fields keep their types: no limit and no level that is not one
\* ever gets into them.
THEOREM TypeCorrect == Spec => []TypeOK
<1>1. IInv => TypeOK
  BY DEF IInv
<1> QED
  BY Invariance, <1>1, PTL

\* Whatever the levels and limits, charging stays suspended only for one of its two
\* reasons (SuspendedForAReason).
THEOREM Suspension == Spec => []SuspendedForAReason
<1>1. IInv => SuspendedForAReason
  BY DEF IInv
<1> QED
  BY Invariance, <1>1, PTL

\* HSPC is on only for somebody who asked for it (HspcIsWanted).
THEOREM HspcAsked == Spec => []HspcIsWanted
<1>1. IInv => HspcIsWanted
  BY DEF IInv, HspcInv, HspcIsWanted
<1> QED
  BY Invariance, <1>1, PTL
===============================================================================
