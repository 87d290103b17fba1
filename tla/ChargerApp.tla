------------------------------ MODULE ChargerApp ------------------------------
(***************************************************************************)
(* The charger settings app (XperiaModules/XperiaCharger): a page, a tile   *)
(* and BatteryMonitorService, which all change three global settings and a  *)
(* driver's node that suspends charging (1) or not (0).  They run on one    *)
(* main thread, a handler at a time; what differs is when each hears of the *)
(* battery.  ACTION_BATTERY_CHANGED is sticky and a newer one replaces an   *)
(* older one, so a receiver sees the latest level and plug, maybe late.     *)
(*                                                                         *)
(* module Charger is the HAL that writes to the same node in other builds.  *)
(***************************************************************************)
EXTENDS Integers

CONSTANTS Levels,   \* of the battery
          Limits,   \* that can be chosen on the page
          Full      \* 100, as a limit: none

ASSUME ChargerAppAssumption ==
  /\ Levels \subseteq Nat /\ Limits \subseteq Nat
  /\ Full \in Limits /\ \A l \in Limits : l <= Full

VARIABLES
  mainSwitch, chargingLimit, isHSPCEnabled,   \* Settings.Global
  backup,        \* the limit from before the main switch was switched off
  node,          \* smart_charging_interruption
  unwritten,     \* history: it refused what it should hold
  level, plugged,                             \* the battery
  started,       \* BatteryMonitorService is, since boot
  lastBatteryLevel, lastPluggedState, lastHspcEnabledState,   \* its fields
  switchEnabled, \* the page's switch for HSPC
  judged,        \* history: the level at the last updateChargingState
  asked,         \* history: HSPC was last switched on, not off, by hand
  unseen         \* history: on while the service took the charger for unplugged

settings == <<mainSwitch, chargingLimit, backup>>
nodeVars == <<node, unwritten, judged>>
battery == <<level, plugged>>
serviceVars == <<started, lastBatteryLevel, lastPluggedState, lastHspcEnabledState>>
hspcVars == <<isHSPCEnabled, asked, unseen>>
vars == <<settings, nodeVars, battery, serviceVars, switchEnabled, hspcVars>>

TypeOK ==
  /\ mainSwitch \in BOOLEAN /\ chargingLimit \in Limits /\ backup \in Limits
  /\ isHSPCEnabled \in BOOLEAN
  /\ node \in 0 .. 1 /\ unwritten \in BOOLEAN
  /\ level \in Levels /\ plugged \in 0 .. 1
  /\ started \in BOOLEAN
  /\ lastBatteryLevel \in Levels \cup {-1} /\ lastPluggedState \in -1 .. 1
  /\ lastHspcEnabledState \in BOOLEAN
  /\ switchEnabled \in BOOLEAN
  /\ judged \in Levels \cup {-1} /\ asked \in BOOLEAN /\ unseen \in BOOLEAN

Init ==
  /\ mainSwitch = FALSE /\ chargingLimit = Full /\ backup = Full
  /\ isHSPCEnabled = FALSE
  /\ node = 0 /\ unwritten = FALSE
  /\ level \in Levels /\ plugged \in 0 .. 1
  /\ started = FALSE
  /\ lastBatteryLevel = -1 /\ lastPluggedState = -1 /\ lastHspcEnabledState = FALSE
  /\ switchEnabled = TRUE
  /\ judged = -1 /\ asked = FALSE /\ unseen = FALSE

-------------------------------------------------------------------------------

\* writeSysfs, whose failure only the log tells of.
Write(v) ==
  \/ node' = v /\ unwritten' = FALSE
  \/ node' = node /\ unwritten' = (node # v)

\* First u, then v.
WriteBoth(u, v) == /\ node' \in {node, u, v}
                   /\ unwritten' = (node' # v)

\* What updateChargingState writes.
Wanted(limit, l) == IF limit < Full /\ l >= limit THEN 1 ELSE 0

\* updateChargingState: HSPC keeps the node as it is.
UpdateChargingState(limit, l) ==
  IF isHSPCEnabled THEN UNCHANGED nodeVars
  ELSE Write(Wanted(limit, l)) /\ judged' = l

\* The setter of isHSPCEnabled, by hand.  Switching off does not count while the service
\* takes the charger for unplugged: what it remembers then outlives that.
SetHSPC(on) ==
  /\ isHSPCEnabled' = on
  /\ asked' = (on \/ (lastPluggedState = 0 /\ asked))
  /\ unseen' = (on /\ lastPluggedState = 0)
  /\ Write(IF on THEN 1 ELSE 0) /\ UNCHANGED judged

\* And by the app.
DropHSPC == isHSPCEnabled' = FALSE /\ unseen' = FALSE

-------------------------------------------------------------------------------
(* The page (ChargerSettingsFragment).                                        *)

\* The slider calls its listener when its value changes.
ChangeLimit(l) ==
  /\ mainSwitch /\ l # chargingLimit
  /\ chargingLimit' = l
  /\ UpdateChargingState(l, level)
  /\ UNCHANGED <<mainSwitch, backup, battery, serviceVars, switchEnabled, hspcVars>>

\* The switch may not show yet what the service or the tile did.
ChangeHSPC(on) ==
  /\ mainSwitch /\ switchEnabled
  /\ SetHSPC(on)
  /\ UNCHANGED <<settings, battery, serviceVars, switchEnabled>>

\* chargerStateReceiver.
PageReceives ==
  /\ switchEnabled' = (plugged # 0)
  /\ UNCHANGED <<settings, nodeVars, battery, serviceVars, hspcVars>>

\* Mutant: HSPC stays on.
MainSwitchOffKeeps ==
  /\ mainSwitch /\ mainSwitch' = FALSE
  /\ backup' = chargingLimit /\ chargingLimit' = Full
  /\ IF chargingLimit = Full THEN UNCHANGED nodeVars ELSE UpdateChargingState(Full, level)
  /\ UNCHANGED <<battery, serviceVars, switchEnabled, hspcVars>>

\* handleMainSwitchChange.  Moving the slider to 100 applies the limit once more.
MainSwitchOff ==
  /\ mainSwitch /\ mainSwitch' = FALSE
  /\ backup' = chargingLimit /\ chargingLimit' = Full
  /\ DropHSPC /\ UNCHANGED asked
  /\ Write(0)
  /\ judged' = IF chargingLimit = Full THEN judged ELSE level
  /\ UNCHANGED <<battery, serviceVars, switchEnabled>>

\* The limit comes back.  HSPC does not: its switch is not persistent, so the backup
\* that was made of it is always off.
MainSwitchOn ==
  /\ ~mainSwitch /\ mainSwitch' = TRUE
  /\ chargingLimit' = backup /\ UNCHANGED backup
  /\ DropHSPC /\ UNCHANGED asked
  /\ IF backup = Full THEN Write(0) /\ UNCHANGED judged
     ELSE WriteBoth(0, Wanted(backup, level)) /\ judged' = level
  /\ UNCHANGED <<battery, serviceVars, switchEnabled>>

-------------------------------------------------------------------------------
(* The tile (ChargerTileService), which asks for the battery when clicked.    *)

TileClicked ==
  /\ plugged # 0 /\ mainSwitch
  /\ SetHSPC(~isHSPCEnabled)
  /\ UNCHANGED <<settings, battery, serviceVars, switchEnabled>>

-------------------------------------------------------------------------------
(* BatteryMonitorService.                                                     *)

\* Mutant: the level is noted only after it was applied.
NewLevelLate ==
  IF level = lastBatteryLevel THEN UNCHANGED nodeVars
  ELSE UpdateChargingState(chargingLimit, lastBatteryLevel)

\* The level first: it is applied once per change.
NewLevel ==
  IF level = lastBatteryLevel THEN UNCHANGED nodeVars
  ELSE UpdateChargingState(chargingLimit, level)

\* Mutant: what was remembered is never forgotten.
PluggedInRemembers ==
  /\ plugged # 0 /\ lastPluggedState # plugged
  /\ unseen' = FALSE /\ UNCHANGED <<asked, lastHspcEnabledState>>
  /\ IF lastHspcEnabledState /\ mainSwitch
     THEN isHSPCEnabled' = TRUE /\ Write(1) /\ UNCHANGED judged
     ELSE UNCHANGED isHSPCEnabled /\ NewLevel

\* HSPC comes back with the charger.
PluggedIn ==
  /\ plugged # 0 /\ lastPluggedState # plugged
  /\ unseen' = FALSE /\ UNCHANGED asked
  /\ lastHspcEnabledState' = FALSE
  /\ IF lastHspcEnabledState /\ mainSwitch
     THEN /\ isHSPCEnabled' = TRUE
          /\ IF level = lastBatteryLevel \/ isHSPCEnabled
             THEN Write(1) /\ UNCHANGED judged
             ELSE WriteBoth(Wanted(chargingLimit, level), 1) /\ judged' = level
     ELSE UNCHANGED isHSPCEnabled /\ NewLevel

\* HSPC goes with the charger, and is remembered.
Unplugged ==
  /\ plugged = 0 /\ lastPluggedState # plugged
  /\ UNCHANGED asked
  /\ IF isHSPCEnabled
     THEN /\ lastHspcEnabledState' = mainSwitch
          /\ DropHSPC /\ Write(0) /\ UNCHANGED judged
     ELSE UNCHANGED <<lastHspcEnabledState, isHSPCEnabled, unseen>> /\ NewLevel

SamePlug ==
  /\ lastPluggedState = plugged /\ lastBatteryLevel # level
  /\ UNCHANGED <<lastHspcEnabledState, hspcVars>> /\ NewLevel

ServiceReceives ==
  /\ started
  /\ PluggedIn \/ Unplugged \/ SamePlug
  /\ lastBatteryLevel' = level /\ lastPluggedState' = plugged
  /\ UNCHANGED <<settings, battery, started, switchEnabled>>

Fresh == lastBatteryLevel' = -1 /\ lastPluggedState' = -1 /\ lastHspcEnabledState' = FALSE

\* The process ends; START_STICKY starts the service again.
Restart ==
  /\ started /\ Fresh /\ switchEnabled' = TRUE
  /\ UNCHANGED <<settings, nodeVars, battery, started, hspcVars>>

\* The device reboots: the settings are kept, the driver starts to charge.
Reboot ==
  /\ started' = FALSE /\ Fresh /\ switchEnabled' = TRUE
  /\ node' = 0 /\ unwritten' = FALSE /\ judged' = -1
  /\ UNCHANGED <<settings, battery, hspcVars>>

\* BootCompletedReceiver and applyOnBoot, which leaves the node alone.
BootCompleted ==
  /\ ~started /\ started' = TRUE
  /\ DropHSPC /\ asked' = FALSE
  /\ UNCHANGED <<settings, nodeVars, battery, lastBatteryLevel, lastPluggedState,
                 lastHspcEnabledState, switchEnabled>>

\* External: the battery and who plugs the charger in.
BatteryChanges ==
  /\ level' \in Levels /\ plugged' \in 0 .. 1
  /\ UNCHANGED <<settings, nodeVars, serviceVars, switchEnabled, hspcVars>>

-------------------------------------------------------------------------------

Next ==
  \/ \E l \in Limits : ChangeLimit(l)
  \/ \E on \in BOOLEAN : ChangeHSPC(on)
  \/ PageReceives \/ MainSwitchOff \/ MainSwitchOn
  \/ TileClicked
  \/ ServiceReceives \/ Restart
  \/ Reboot \/ BootCompleted \/ BatteryChanges

\* Broadcasts arrive.
Spec == Init /\ [][Next]_vars /\ WF_vars(ServiceReceives)

-------------------------------------------------------------------------------
(* Properties.                                                                *)

\* Charging is suspended (1 in the node) only with the main switch on and for one of
\* its two reasons, HSPC or a limit that was reached when it was last applied, once
\* the service has run since boot and unless the driver refused a write: of the many
\* ways out of HSPC and of a limit none forgets the node.
SuspendedForAReason ==
  node = 1 /\ ~unwritten /\ lastBatteryLevel # -1
    => mainSwitch /\ (isHSPCEnabled \/ (chargingLimit < Full /\ judged >= chargingLimit))

\* HSPC is on only if it was last switched on by hand, although the service restores
\* it, and off without a charger as soon as the service knows, unless it was switched
\* on while the service still, or already, took the charger for unplugged.
HspcIsWanted ==
  isHSPCEnabled /\ started
    => asked /\ (plugged = 0 /\ lastPluggedState = 0 => unseen)

\* A level that the service has not heard of is held against the limit in the end.
LimitTakesEffect ==
  \A l \in Levels :
    LET Over == started /\ level = l /\ chargingLimit < Full /\ l >= chargingLimit
                  /\ ~isHSPCEnabled
    IN (Over /\ lastBatteryLevel # l) ~> (node = 1 \/ unwritten \/ ~Over)

===============================================================================
