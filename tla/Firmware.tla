------------------------------ MODULE Firmware ------------------------------
(***************************************************************************)
(* Three parts of the firmware's main loop, checked in one run: the key    *)
(* scanner (KeyScan), power, battery and LEDs (FwPower) and the watchdog   *)
(* of the I2C slave (BusWatchdog).  They share no variable in the models,  *)
(* so their interleavings would show nothing: a behaviour is one of one    *)
(* part, and the variables of the others stay as they start.               *)
(***************************************************************************)
EXTENDS KeyScan

CONSTANTS Percents, NoBattery, LedModes, Raised, MaxPending,   \* of FwPower
          Start, Timeout, Wrap, MaxTime                        \* of BusWatchdog

\* Unsigned differences of times the model reaches are exact; the watchdog sets
\* in no sooner than Timeout after the boot.
ASSUME TimesAssumption ==
  /\ Start \in Nat /\ Timeout \in 0..Start
  /\ MaxTime \in Nat /\ Wrap \in Nat /\ MaxTime < Wrap

\* A shift, a modifier and a hot key, over a list shorter than the keys.
ModesOrder == <<"B", "ALT", "SHL">>

VARIABLES
  part,
  ppc, pmu_online, pmu_flag, led_update_pending, led, low_bat_count, pc13,
  chgled, pa13, status, seen, level,
  now, receiveEventTick, requestEventTick, wat, wpc, raced, answered, since

PowerLed == INSTANCE FwPower WITH pc <- ppc
Watchdog == INSTANCE BusWatchdog WITH at <- wat, pc <- wpc

scanning == vars
powering == <<ppc, pmu_online, pmu_flag, led_update_pending, led, low_bat_count,
              pc13, chgled, pa13, status, seen, level>>
watching == <<now, receiveEventTick, requestEventTick, wat, wpc, raced, answered, since>>
everything == <<part, scanning, powering, watching>>

FirmwareInit ==
  /\ part \in {"scan", "power", "watchdog"}
  /\ Init /\ (part # "scan" => use_mods)
  /\ PowerLed!Init /\ (part # "power" => level = NoBattery)
  /\ Watchdog!Init

ScanStep(A) == part = "scan" /\ A /\ UNCHANGED <<part, powering, watching>>
PowerStep(A) == part = "power" /\ A /\ UNCHANGED <<part, scanning, watching>>
WatchdogStep(A) == part = "watchdog" /\ A /\ UNCHANGED <<part, scanning, powering>>

\* Time has come to its bound.
TimeIsUp == part = "watchdog" /\ now = MaxTime /\ UNCHANGED everything

FirmwareNext ==
  \/ ScanStep(Next)
  \/ PowerStep(PowerLed!Next)
  \/ WatchdogStep(Watchdog!Next)
  \/ TimeIsUp

\* The fairness of each part.
FirmwareSpec ==
  /\ FirmwareInit /\ [][FirmwareNext]_everything
  /\ WF_everything(ScanStep(Scan))
  /\ WF_everything(PowerStep(PowerLed!Loop))
  /\ SF_everything(PowerStep(PowerLed!Power /\ ppc' = "poll"))

-----------------------------------------------------------------------------
(* The properties of the parts, beside those of KeyScan. *)

\* While the driver holds the LEDs, they show what it wrote (battery.ino:12-106,
\* picocalc_keyboard.ino:657-660).
LedsFollowDriver == PowerLed!LedsFollowDriver

\* The power chip's line never stays low with no edge left to wake the loop
\* (set_pmu_flag, check_pmu_int).
IrqNotStuck == PowerLed!IrqNotStuck

\* A long press, REG_ID_OFF and an empty battery each end in the power being cut,
\* unless the chip reports the press between the reading of its status and its
\* clearing, the host resets the firmware first, or the driver holds the LEDs
\* (picocalc_keyboard.ino:195-204, 349-487, README_EN.md:295, battery.ino:74-94).
PowerIsCut == PowerLed!PowerIsCut

\* The watchdog leaves a bus in use alone, unless a handler runs between millis()
\* and its tick, or the late transfer comes between the comparison and the removal
\* of the handlers (picocalc_keyboard.ino:641-668).
ResetsApart == Watchdog!ResetsApart
=============================================================================
