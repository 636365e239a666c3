------------------------------- MODULE FwPower -------------------------------
(***************************************************************************)
(* Power, battery and LEDs in the firmware: the main loop                  *)
(* (picocalc_keyboard.ino: loop, check_pmu_int, setup; battery.ino) against*)
(* its two interrupts, the I2C slave and the line of the power chip.       *)
(*                                                                         *)
(* The main loop takes one step at a time and an interrupt may come        *)
(* between any two.  One step is what the loop does between two accesses   *)
(* to what an interrupt also writes: the LED register and its pending      *)
(* flag, pmu_online, pmu_flag and the status of the chip.  The chip pulls  *)
(* its line low while its status holds an event, and the loop's interrupt  *)
(* is triggered by the falling edge only.  Events that do nothing but log, *)
(* or that setup leaves disabled, are left out; so is REG_ID_BAT, which the*)
(* loop only writes and the host only reads.                               *)
(***************************************************************************)
EXTENDS Naturals, FiniteSets

CONSTANTS
  Percents,     \* battery levels, with NoBattery for a missing one
  NoBattery,
  LedModes,     \* modes of the orange LED the driver writes
  Raised,       \* the events the chip reports
  MaxPending    \* bound: how many of them are pending at a time

LOW_BAT_VAL == 20
EmptyTurns == 4          \* low_bat_count at which an empty battery shuts down

\* In the order check_pmu_int looks at them.
EventOrder == <<"vbusRemove", "batInsert", "batRemove", "shortPress",
                "longPress", "chargeDone", "chargeStart">>
Events == {EventOrder[i] : i \in DOMAIN EventOrder}

\* Modes of the orange LED; "other" is a value the register has no mode for.
OrangeModes == {"off", "on", "blink1", "blink4", "auto"}
LedValues == [ctrl : BOOLEAN, green : BOOLEAN, orange : OrangeModes \cup {"other"}]

VARIABLES
  pc,             \* where loop() stands
  pmu_online,     \* 0, 1 or, once power-off was asked for, 6
  pmu_flag, led_update_pending, led,   \* led is REG_ID_LED
  low_bat_count,  \* counted up to EmptyTurns
  pc13, chgled,   \* green LED is lit, mode of the orange one
  pa13,           \* the SoC has power
  status, seen,   \* of the power chip: events pending, and those read
  level           \* of the battery

shared == <<pmu_flag, led_update_pending, led>>
lamps == <<pc13, chgled>>
vars == <<pc, pmu_online, shared, low_bat_count, lamps, pa13, status, seen,
          level>>

TypeOK ==
  /\ pc \in {"off", "boot", "top", "apply", "power", "poll", "pollLow", "flag",
             "read", "irq", "irqLow", "shutdown"}
  /\ pmu_online \in {0, 1, 6}
  /\ pmu_flag \in BOOLEAN /\ led_update_pending \in BOOLEAN
  /\ led \in LedValues
  /\ low_bat_count \in 0..EmptyTurns
  /\ pc13 \in BOOLEAN /\ chgled \in OrangeModes
  /\ pa13 \in BOOLEAN
  /\ status \subseteq Events /\ seen \subseteq Events
  /\ level \in Percents

-----------------------------------------------------------------------------
(* battery.ino *)

Low == level # NoBattery /\ level <= LOW_BAT_VAL

\* Seeded fault: the driver's hold on the LEDs is not looked at.
low_bat_IgnoresDriver(next) ==
  /\ low_bat_count' = IF Low
                      THEN IF low_bat_count < EmptyTurns THEN low_bat_count + 1
                           ELSE low_bat_count
                      ELSE 0
  /\ pc13' = ~Low
  /\ chgled' = IF ~Low THEN "off" ELSE IF level <= 1 THEN "blink4" ELSE "on"
  /\ pc' = IF level = 0 /\ low_bat_count' = EmptyTurns THEN "off" ELSE next

\* Seeded fault: the level 0 is taken for a missing battery.
low_bat_ZeroIsNone(next) ==
  IF led.ctrl
  THEN UNCHANGED <<low_bat_count, lamps>> /\ pc' = next
  ELSE /\ low_bat_count' = 0
       /\ pc13' = ~(Low /\ level > 0)
       /\ chgled' = "off"
       /\ pc' = next

\* The low battery warning; an empty battery turns the machine off, which
\* PMU.shutdown does at once.
low_bat(next) ==
  IF led.ctrl
  THEN UNCHANGED <<low_bat_count, lamps>> /\ pc' = next
  ELSE /\ low_bat_count' = IF Low
                           THEN IF low_bat_count < EmptyTurns THEN low_bat_count + 1
                                ELSE low_bat_count
                           ELSE 0
       /\ pc13' = ~Low
       /\ chgled' = IF ~Low THEN "off" ELSE IF level <= 1 THEN "blink4" ELSE "on"
       /\ pc' = IF level = 0 /\ low_bat_count' = EmptyTurns THEN "off" ELSE next

start_chg ==
  IF led.ctrl THEN UNCHANGED lamps ELSE pc13' = TRUE /\ chgled' = "blink1"

-----------------------------------------------------------------------------
(* setup: the machine is switched on, or resets itself *)

\* REG_ID_LED is 0: the firmware manages the LEDs.
Unmanaged == [ctrl |-> FALSE, green |-> FALSE, orange |-> "off"]

Init ==
  /\ pc = "boot"
  /\ pmu_online = 0
  /\ pmu_flag = FALSE /\ led_update_pending = FALSE /\ led = Unmanaged
  /\ low_bat_count = 0
  /\ pc13 = FALSE /\ chgled = "off"
  /\ pa13 = FALSE
  /\ status = {} /\ seen = {}
  /\ level \in Percents

\* The chip answers or it does not; its status is cleared after the interrupt
\* is attached; sync_bat and low_bat follow.
Setup ==
  /\ pc = "boot"
  /\ pmu_online' \in {0, 1}
  /\ pa13' = TRUE
  /\ status' = {} /\ seen' = {}
  /\ low_bat("top")
  /\ UNCHANGED <<shared, level>>

\* Everything the firmware keeps in memory starts anew.
Restart ==
  /\ pc' = "boot"
  /\ pmu_online' = 0
  /\ pmu_flag' = FALSE /\ led_update_pending' = FALSE /\ led' = Unmanaged
  /\ low_bat_count' = 0
  /\ pa13' = FALSE
  /\ UNCHANGED <<lamps, status, seen, level>>

\* The user presses the power key of a machine that is off.
PowerOn == pc = "off" /\ Restart

-----------------------------------------------------------------------------
(* loop *)

Top ==
  /\ pc = "top"
  /\ led_update_pending' = FALSE
  /\ pc' = IF led_update_pending THEN "apply" ELSE "power"
  /\ UNCHANGED <<pmu_online, pmu_flag, led, low_bat_count, lamps, pa13,
                 status, seen, level>>

led_apply ==
  /\ pc = "apply"
  /\ pc13' = led.green
  /\ chgled' = IF led.orange = "other" THEN chgled ELSE led.orange
  /\ pc' = "power"
  /\ UNCHANGED <<pmu_online, shared, low_bat_count, pa13, status, seen,
                 level>>

\* check_pmu_int: nothing without the chip; the full power-down; or the poll
\* every 20 s, which may be due or not.
Power ==
  /\ pc = "power"
  /\ \/ pmu_online = 0 /\ pc' = "top" /\ UNCHANGED <<lamps, pa13>>
     \/ pmu_online = 6 /\ pc' = "shutdown"
        /\ pa13' = FALSE /\ pc13' = FALSE /\ chgled' = "auto"
     \/ pmu_online = 1 /\ pc' \in {"poll", "flag"} /\ UNCHANGED <<lamps, pa13>>
  /\ UNCHANGED <<pmu_online, shared, low_bat_count, status, seen, level>>

\* After the delay: PMU.shutdown
Shutdown ==
  /\ pc = "shutdown"
  /\ pc' = "off"
  /\ UNCHANGED <<pmu_online, shared, low_bat_count, lamps, pa13, status,
                 seen, level>>

\* low_bat runs for a battery that is there.
Poll ==
  /\ pc = "poll"
  /\ pc' = IF level = NoBattery THEN "flag" ELSE "pollLow"
  /\ UNCHANGED <<pmu_online, shared, low_bat_count, lamps, pa13, status, seen,
                 level>>

PollLow ==
  /\ pc = "pollLow"
  /\ low_bat("flag")
  /\ UNCHANGED <<pmu_online, shared, pa13, status, seen, level>>

Flag ==
  /\ pc = "flag"
  /\ pmu_flag' = FALSE
  /\ pc' = IF pmu_flag THEN "read" ELSE "top"
  /\ UNCHANGED <<pmu_online, led_update_pending, led, low_bat_count, lamps,
                 pa13, status, seen, level>>

\* getIrqStatus
ReadStatus ==
  /\ pc = "read"
  /\ seen' = status
  /\ pc' = "irq"
  /\ UNCHANGED <<pmu_online, shared, low_bat_count, lamps, pa13, status,
                 level>>

\* The first event read that is left to handle.
NextEvent ==
  EventOrder[CHOOSE i \in DOMAIN EventOrder :
               /\ EventOrder[i] \in seen
               /\ \A j \in 1..(i - 1) : EventOrder[j] \notin seen]

\* stop_chg: the charging LED, and the low battery warning as the next step
stop_chg ==
  /\ UNCHANGED pc13
  /\ IF led.ctrl THEN UNCHANGED chgled /\ pc' = "irq"
     ELSE chgled' = "off" /\ pc' = "irqLow"

\* The long press of the power key: power cut and chip shut down at once.
LongPress ==
  /\ pa13' = FALSE /\ pc13' = FALSE /\ chgled' = "auto"
  /\ pc' = "off"

\* A short press goes to the key FIFO as KEY_POWER; its release is never sent,
\* as that event of the chip is not enabled.
Handle ==
  /\ pc = "irq" /\ seen # {}
  /\ seen' = seen \ {NextEvent}
  /\ \/ NextEvent \in {"vbusRemove", "batRemove", "chargeDone"} /\ stop_chg /\ UNCHANGED pa13
     \/ NextEvent \in {"batInsert", "shortPress"} /\ UNCHANGED <<pc, lamps, pa13>>
     \/ NextEvent = "longPress" /\ LongPress
     \/ /\ NextEvent = "chargeStart"
        /\ IF level = NoBattery THEN UNCHANGED lamps ELSE start_chg
        /\ UNCHANGED <<pc, pa13>>
  /\ UNCHANGED <<pmu_online, shared, low_bat_count, status, level>>

IrqLow ==
  /\ pc = "irqLow"
  /\ low_bat("irq")
  /\ UNCHANGED <<pmu_online, shared, pa13, status, seen, level>>

\* Seeded fault: only the events that were handled are cleared.
ClearStatus_OnlySeen ==
  /\ pc = "irq" /\ seen = {}
  /\ \E handled \in SUBSET status : status' = status \ handled
  /\ pc' = "top"
  /\ UNCHANGED <<pmu_online, shared, low_bat_count, lamps, pa13, seen,
                 level>>

\* clearIrqStatus clears all there is, with what came since it was read
ClearStatus ==
  /\ pc = "irq" /\ seen = {}
  /\ status' = {}
  /\ pc' = "top"
  /\ UNCHANGED <<pmu_online, shared, low_bat_count, lamps, pa13, seen,
                 level>>

Loop ==
  \/ Setup \/ Top \/ led_apply \/ Power \/ Shutdown \/ Poll \/ PollLow
  \/ Flag \/ ReadStatus \/ Handle \/ IrqLow \/ ClearStatus

-----------------------------------------------------------------------------
(* The interrupts, and the battery *)

\* The host is there to write registers.
HostRuns == pa13 /\ pc \notin {"off", "boot"}

\* receiveEvent, REG_ID_LED: applied later, by the main loop
WriteLed ==
  /\ HostRuns
  /\ led' \in [ctrl : BOOLEAN, green : BOOLEAN, orange : LedModes]
  /\ led_update_pending' = TRUE
  /\ UNCHANGED <<pc, pmu_online, pmu_flag, low_bat_count, lamps, pa13,
                 status, seen, level>>

\* receiveEvent, REG_ID_OFF: at least 6 s, also when the chip did not answer
WriteOff ==
  /\ HostRuns
  /\ pmu_online' = 6
  /\ UNCHANGED <<pc, shared, low_bat_count, lamps, pa13, status, seen,
                 level>>

\* receiveEvent, REG_ID_RST: the interrupt waits, then resets the processor
WriteRst == HostRuns /\ Restart

\* set_pmu_flag: the line falls with the first event pending
Raise ==
  /\ pmu_online # 0 /\ pc \notin {"off", "boot"}
  /\ Cardinality(status) < MaxPending
  /\ \E e \in Raised \ status : status' = status \cup {e}
  /\ pmu_flag' = (pmu_flag \/ status = {})
  /\ UNCHANGED <<pc, pmu_online, led_update_pending, led, low_bat_count,
                 lamps, pa13, seen, level>>

Discharge ==
  /\ level' \in Percents
  /\ UNCHANGED <<pc, pmu_online, shared, low_bat_count, lamps, pa13, status,
                 seen>>

Next == Loop \/ PowerOn \/ WriteLed \/ WriteOff \/ WriteRst \/ Raise \/ Discharge

\* The loop goes on, and 20 s are over at some time; nothing else is fair.
Spec ==
  /\ Init /\ [][Next]_vars
  /\ WF_vars(Loop)
  /\ SF_vars(Power /\ pc' = "poll")

-----------------------------------------------------------------------------
(* Properties *)

\* While the driver holds the LEDs and no write of its is pending, they show
\* what it wrote: neither the battery warning nor the charger overwrites them,
\* wherever the write met them (battery.ino:12-106, picocalc_keyboard.ino:657-660).
LedsFollowDriver ==
  led.ctrl /\ ~led_update_pending /\ pc \notin {"apply", "shutdown", "off", "boot"}
    => /\ pc13 = led.green
       /\ led.orange # "other" => chgled = led.orange

\* An event pending in the chip is one the loop knows of: the line never stays
\* low with no edge left to wake the loop (set_pmu_flag, check_pmu_int).
IrqNotStuck ==
  status # {} => pmu_flag \/ pc \in {"read", "irq", "irqLow", "off", "boot"}

\* A long press ends in the power being cut, unless the chip reported it between
\* the reading of its status and its clearing (picocalc_keyboard.ino:349-487).
LongPressCuts ==
  "longPress" \in status /\ pc \notin {"irq", "irqLow"} ~> ~pa13 \/ pc = "off"

\* REG_ID_OFF cuts the power and turns the machine off, with or without the
\* chip, unless the host resets the firmware first (README_EN.md:295).
OffTurnsOff == pmu_online = 6 ~> pc \in {"off", "boot"}

\* An empty battery turns the machine off, as long as the driver does not hold
\* the LEDs: then low_bat returns before it looks at the battery.
EmptyTurnsOff ==
  <>[](level = 0 /\ ~led.ctrl /\ pmu_online = 1 /\ pc # "boot") => <>(pc = "off")

\* All three: the power goes when it is to go.
PowerIsCut == LongPressCuts /\ OffTurnsOff /\ EmptyTurnsOff
=============================================================================
