--------------------------- MODULE Firmware_proofs ---------------------------
(***************************************************************************)
(* Theorems about the keyboard firmware: its LEDs and its power chip, its  *)
(* bus watchdog, for every timeout, and its key scanner, for every set and *)
(* order of the keys and every length of the list.                         *)
(***************************************************************************)
EXTENDS Firmware, TLAPS

(* A step of the firmware is one of a part, or leaves it alone. *)
LEMMA FirmwareStep ==
  [FirmwareNext]_everything =>
    [PowerLed!Next]_(PowerLed!vars) /\ [Watchdog!Next]_(Watchdog!vars)
BY DEF FirmwareNext, everything, powering, watching, ScanStep, PowerStep,
   WatchdogStep, TimeIsUp, PowerLed!vars, PowerLed!shared, PowerLed!lamps,
   Watchdog!vars, Watchdog!ticks

-----------------------------------------------------------------------------
(* The LEDs and the power chip.  The LEDs show what the driver wrote from the
   moment led_apply has run to the next write, and setup finds no driver that
   holds them. *)
PowerInv ==
  /\ ppc = "boot" => ~led.ctrl
  /\ PowerLed!LedsFollowDriver
  /\ PowerLed!IrqNotStuck

LEMMA PowerInit == PowerLed!Init => PowerInv
BY DEF PowerLed!Init, PowerInv, PowerLed!Unmanaged, PowerLed!LedsFollowDriver,
   PowerLed!IrqNotStuck

(* The low battery warning touches the lamps only of a firmware that has them
   to itself, and goes on or switches off. *)
LEMMA LowBat ==
  ASSUME NEW next, PowerLed!low_bat(next)
  PROVE  /\ ppc' \in {next, "off"}
         /\ led.ctrl => UNCHANGED <<pc13, chgled>>
BY DEF PowerLed!low_bat, PowerLed!lamps

LEMMA PowerNext ==
  PowerInv /\ [PowerLed!Next]_(PowerLed!vars) => PowerInv'
<1> SUFFICES ASSUME PowerInv, [PowerLed!Next]_(PowerLed!vars)
             PROVE  PowerInv'
  OBVIOUS
<1> USE DEF PowerInv, PowerLed!LedsFollowDriver,
        PowerLed!IrqNotStuck, PowerLed!shared, PowerLed!lamps
<1>1. CASE PowerLed!Setup
  BY <1>1, LowBat DEF PowerLed!Setup
<1>2. CASE PowerLed!Restart
  BY <1>2 DEF PowerLed!Restart, PowerLed!Unmanaged
<1>3. CASE PowerLed!Top \/ PowerLed!Flag
  BY <1>3 DEF PowerLed!Top, PowerLed!Flag
<1>4. CASE PowerLed!led_apply
  BY <1>4 DEF PowerLed!led_apply
<1>5. CASE PowerLed!Power \/ PowerLed!Shutdown
  BY <1>5 DEF PowerLed!Power, PowerLed!Shutdown
<1>6. CASE PowerLed!Poll \/ PowerLed!ReadStatus \/ PowerLed!ClearStatus
  BY <1>6 DEF PowerLed!Poll, PowerLed!ReadStatus, PowerLed!ClearStatus
<1>7. CASE PowerLed!PollLow \/ PowerLed!IrqLow
  BY <1>7, LowBat DEF PowerLed!PollLow, PowerLed!IrqLow
<1>8. CASE PowerLed!Handle
  BY <1>8 DEF PowerLed!Handle, PowerLed!stop_chg, PowerLed!start_chg,
     PowerLed!LongPress
<1>9. CASE PowerLed!WriteLed
  BY <1>9 DEF PowerLed!WriteLed, PowerLed!HostRuns
<1>10. CASE PowerLed!WriteOff \/ PowerLed!Discharge
  BY <1>10 DEF PowerLed!WriteOff, PowerLed!Discharge
<1>11. CASE PowerLed!Raise
  BY <1>11 DEF PowerLed!Raise
<1>12. CASE UNCHANGED PowerLed!vars
  BY <1>12 DEF PowerLed!vars
<1>13. QED
  BY <1>1, <1>2, <1>3, <1>4, <1>5, <1>6, <1>7, <1>8, <1>9, <1>10, <1>11, <1>12
     DEF PowerLed!Next, PowerLed!Loop, PowerLed!PowerOn, PowerLed!WriteRst

(* While the driver holds the LEDs, they show what it wrote, whatever the battery
   and the power key do meanwhile (battery.ino:12-106,
   picocalc_keyboard.ino:657-660). *)
THEOREM LedsShowDriver == FirmwareSpec => []LedsFollowDriver
<1>1. FirmwareInit => PowerInv
  BY PowerInit DEF FirmwareInit
<1>2. PowerInv => LedsFollowDriver
  BY DEF PowerInv, LedsFollowDriver
<1>3. QED
  BY <1>1, <1>2, PowerNext, FirmwareStep, PTL DEF FirmwareSpec

(* The power chip's line never stays low with no edge left to wake the loop: an
   edge that comes while the status is read is seen again
   (picocalc_keyboard.ino:34, 316-487). *)
THEOREM IrqWakesLoop == FirmwareSpec => []IrqNotStuck
<1>1. FirmwareInit => PowerInv
  BY PowerInit DEF FirmwareInit
<1>2. PowerInv => IrqNotStuck
  BY DEF PowerInv, IrqNotStuck
<1>3. QED
  BY <1>1, <1>2, PowerNext, FirmwareStep, PTL DEF FirmwareSpec

-----------------------------------------------------------------------------
(* The bus watchdog.  No tick passes what millis() returned unless its handler
   raced, and what a comparison found late stays late until its transfer comes. *)
WatchdogInv ==
  /\ {now, wat, since, receiveEventTick, requestEventTick} \subseteq 0..MaxTime
  /\ wat <= now /\ receiveEventTick <= now /\ requestEventTick <= now
  /\ since <= receiveEventTick
  /\ wpc # "restart" => since <= requestEventTick
  /\ wpc # "loop" => wat > Start
  /\ wpc = "receive" /\ ~raced => receiveEventTick <= wat
  /\ wpc = "request" /\ ~raced => requestEventTick <= wat
  /\ wpc = "receive_late" /\ ~raced /\ ~answered =>
        wat - receiveEventTick > Timeout /\ wat - since > Timeout
  /\ wpc = "request_late" /\ ~raced /\ ~answered =>
        wat - requestEventTick > Timeout /\ wat - since > Timeout
  /\ Watchdog!ResetsApart

LEMMA WatchdogInit == Watchdog!Init => WatchdogInv
BY TimesAssumption DEF Watchdog!Init, WatchdogInv,
   Watchdog!ResetsApart

(* A tick that has not passed what millis() returned is late by the difference. *)
LEMMA LateIsOld ==
  ASSUME NEW tick \in 0..MaxTime, wat \in 0..MaxTime, tick <= wat,
         Watchdog!Late(tick)
  PROVE  wat - tick > Timeout
<1>1. (wat - tick) % Wrap = wat - tick
  BY TimesAssumption
<1>2. QED
  BY <1>1 DEF Watchdog!Late

LEMMA WatchdogNext ==
  WatchdogInv /\ [Watchdog!Next]_(Watchdog!vars) => WatchdogInv'
<1> SUFFICES ASSUME WatchdogInv, [Watchdog!Next]_(Watchdog!vars)
             PROVE  WatchdogInv'
  OBVIOUS
<1> USE TimesAssumption
    DEF WatchdogInv, Watchdog!ResetsApart, Watchdog!ticks
<1>1. CASE Watchdog!Tick
  BY <1>1 DEF Watchdog!Tick
<1>2. CASE Watchdog!CheckReceive
  BY <1>2 DEF Watchdog!CheckReceive
<1>3. CASE Watchdog!CheckRequest
  BY <1>3, LateIsOld DEF Watchdog!CheckRequest
<1>4. CASE Watchdog!EndCheck
  BY <1>4, LateIsOld DEF Watchdog!EndCheck
<1>5. CASE Watchdog!RemoveHandlers \/ Watchdog!ResetI2CBus \/ Watchdog!RestoreHandlers
  BY <1>5 DEF Watchdog!RemoveHandlers, Watchdog!ResetI2CBus, Watchdog!RestoreHandlers
<1>6. CASE Watchdog!receiveEvent
  <2>1. /\ ~raced' => ~raced /\ (wpc = "receive" => ~(now > wat))
        /\ ~answered' => ~answered /\ wpc # "receive_late"
    BY <1>6, Zenon DEF Watchdog!receiveEvent
  <2>2. QED
    BY <1>6, <2>1 DEF Watchdog!receiveEvent
<1>7. CASE Watchdog!requestEvent
  <2>1. /\ ~raced' => ~raced /\ (wpc = "request" => ~(now > wat))
        /\ ~answered' => ~answered /\ wpc # "request_late"
    BY <1>7, Zenon DEF Watchdog!requestEvent
  <2>2. QED
    BY <1>7, <2>1 DEF Watchdog!requestEvent
<1>8. CASE UNCHANGED Watchdog!vars
  BY <1>8 DEF Watchdog!vars
<1>9. QED
  BY <1>1, <1>2, <1>3, <1>4, <1>5, <1>6, <1>7, <1>8 DEF Watchdog!Next

(* The watchdog resets the bus only when one kind of transfer has not come, and it
   has not reset the bus, for longer than the timeout, unless a handler ran
   between millis() and its tick, or the late transfer came between the comparison
   and the removal of the handlers (picocalc_keyboard.ino:641-668). *)
THEOREM ResetsFarApart == FirmwareSpec => []ResetsApart
<1>1. FirmwareInit => WatchdogInv
  BY WatchdogInit DEF FirmwareInit
<1>2. WatchdogInv => ResetsApart
  BY DEF WatchdogInv, ResetsApart
<1>3. QED
  BY <1>1, <1>2, WatchdogNext, FirmwareStep, PTL DEF FirmwareSpec

-----------------------------------------------------------------------------
(* The key scanner. *)
USE OrderAssumption, ListSizeAssumption, UseModsAssumption

States == {"pressed", "hold", "released"}

LEMMA OrderIsKeys ==
  ASSUME NEW i \in 1..Len(Order)
  PROVE  Order[i] \in Keys /\ Order[i] \in AllKeys
BY DEF Keys

LEMMA KeysAreKeys == Keys \subseteq AllKeys
BY DEF Keys

LEMMA NoneIsNoKey == None \notin Keys /\ None \notin Layers /\ None \notin HotKeys
BY KeysAreKeys DEF AllKeys, ModKeys, Letters, WithSymb, None, Layers, HotKeys

(* What a report leaves, whatever the character. *)
LEMMA ReportType ==
  ASSUME NEW k \in Keys, NEW s \in States, heard \subseteq Chars, Report(k, s)
  PROVE  /\ event' \subseteq Events
         /\ deed' \in HotKeys \cup {None}
         /\ heard' \subseteq Chars
<1> DEFINE layer == Layer(k, s)'
           c == <<k, layer>>
<1>1. layer \in Layers \cup {None}
  BY DEF Layer, Layers
<1>2. deed' \in HotKeys \cup {None}
  <2>1. Deed(k, s)' \in HotKeys \cup {None}
    BY DEF Deed
  <2>2. QED
    BY <2>1 DEF Report
<1>3. CASE layer = None
  BY <1>2, <1>3 DEF Report
<1>4. CASE layer # None
  <2>1. c \in Chars
    BY <1>1, <1>4 DEF Chars
  <2>2. \A x \in States : <<c, x>> \in Events
    BY <2>1 DEF Events, States
  <2>3. /\ event' = {<<c, IF s = "hold" /\ ~HoldsAsHold(k, layer)
                          THEN "pressed" ELSE s>>}
        /\ heard' = IF s = "released" THEN heard \ {c} ELSE heard \cup {c}
    BY <1>4 DEF Report
  <2> HIDE DEF c, layer
  <2>4. (IF s = "hold" /\ ~HoldsAsHold(k, layer) THEN "pressed" ELSE s) \in States
    BY DEF States
  <2>5. event' \subseteq Events
    BY <2>2, <2>3, <2>4
  <2>6. heard' \subseteq Chars
    BY <2>1, <2>3
  <2>7. QED
    BY <1>2, <2>5, <2>6
<1>5. QED
  BY <1>3, <1>4

(* With raw scancodes the character is the key. *)
LEMMA RawReport ==
  ASSUME NEW k \in Keys, NEW s \in States, ~use_mods', Report(k, s)
  PROVE  /\ heard' = IF s = "released" THEN heard \ {<<k, "base">>}
                     ELSE heard \cup {<<k, "base">>}
         /\ \E x \in States : /\ event' = {<<<<k, "base">>, x>>}
                              /\ x \in {s, "pressed"}
<1>1. Layer(k, s)' = "base"
  BY DEF Layer
<1>2. "base" # None
  BY DEF None
<1>3. QED
  BY <1>1, <1>2 DEF Report, States

(* A press leaves the locks locks. *)
LEMMA LocksType ==
  ASSUME NEW k, SetLocks(k),
         capslock \in BOOLEAN, capslock_changed \in BOOLEAN,
         numlock \in BOOLEAN, numlock_changed \in BOOLEAN
  PROVE  /\ capslock' \in BOOLEAN /\ capslock_changed' \in BOOLEAN
         /\ numlock' \in BOOLEAN /\ numlock_changed' \in BOOLEAN
<1> DEFINE shr == "SHR" \in mods'
           shl == "SHL" \in mods'
           alt == "ALT" \in mods'
           caps == IF capslock_changed THEN capslock
                   ELSE IF shr THEN alt ELSE IF shl THEN FALSE ELSE capslock
           num == IF numlock_changed THEN numlock
                  ELSE IF shl THEN alt ELSE IF shr THEN FALSE ELSE numlock
<1>1. caps \in BOOLEAN /\ num \in BOOLEAN
  <2>1. alt \in BOOLEAN
    OBVIOUS
  <2> HIDE DEF alt, shr, shl
  <2>2. caps \in BOOLEAN
    BY <2>1, Zenon
  <2>3. num \in BOOLEAN
    BY <2>1, Zenon
  <2>4. QED
    BY <2>2, <2>3
<1>2. capslock' = (IF k = "CAPS" THEN ~caps ELSE caps) /\ numlock' = num
  BY DEF SetLocks
<1>3. capslock_changed' \in BOOLEAN /\ numlock_changed' \in BOOLEAN
  BY Zenon DEF SetLocks
<1> HIDE DEF caps, num
<1>4. (~caps) \in BOOLEAN
  BY Zenon
<1>5. (IF k = "CAPS" THEN ~caps ELSE caps) \in BOOLEAN
  BY <1>1, <1>4, Zenon
<1>6. QED
  BY <1>1, <1>2, <1>3, <1>5, Zenon

-----------------------------------------------------------------------------
(* The invariant: the items are one to a key, and an item is idle exactly
   while it belongs to no key; it is what makes the modifiers exact. *)
Listing ==
  /\ OneItemEach
  /\ \A i \in Slots : entry[i] = None <=> state[i] = "idle"

Inv == TypeOK /\ Listing /\ ModsExact

LEMMA InvInit == Init => Inv
<1> SUFFICES ASSUME Init
             PROVE  Inv
  OBVIOUS
<1>1. /\ capslock \in BOOLEAN /\ capslock_changed \in BOOLEAN
      /\ numlock \in BOOLEAN /\ numlock_changed \in BOOLEAN
  BY Zenon DEF Init
<1>2. 1 \in 1..Len(Order)
  OBVIOUS
<1>3. TypeOK
  BY <1>1, <1>2 DEF Init, TypeOK
<1>4. Listing
  BY DEF Init, Listing, OneItemEach
<1>5. \A k \in Keys : ~Listed(k)
  BY NoneIsNoKey DEF Init, Listed, Holding
<1>6. ModsExact
  BY <1>5 DEF Init, ModsExact
<1>7. QED
  BY <1>3, <1>4, <1>6 DEF Inv

(* What every step of the scanner does to the rest of the state. *)
Moved == at' \in 1..Len(Order) /\ down' = down

LEMMA ScanMoves ==
  ASSUME TypeOK, Scan
  PROVE  /\ Moved
         /\ \E k \in Keys : \/ Press(k) \/ Rest(k) \/ Hold(k) \/ Wait(k)
                            \/ Release(k) \/ Free(k)
<1>1. at \in 1..Len(Order) /\ Len(Order) \in Nat
  BY DEF TypeOK
<1>2. Moved
  BY <1>1 DEF Scan, Moved
<1>3. Order[at] \in Keys
  BY <1>1, OrderIsKeys
<1>4. QED
  BY <1>2, <1>3 DEF Scan

LEMMA PressInv ==
  ASSUME Inv, Moved, NEW k \in Keys, Press(k)
  PROVE  Inv'
<1>1. PICK i \in Slots : /\ entry[i] = None
                         /\ entry' = [entry EXCEPT ![i] = k]
                         /\ state' = [state EXCEPT ![i] = "pressed"]
  BY DEF Press, Room
<1>2. k # None
  BY NoneIsNoKey
<1>3. mods' \subseteq ModKeys
  BY DEF Press, Inv, TypeOK
<1>4. /\ capslock' \in BOOLEAN /\ capslock_changed' \in BOOLEAN
      /\ numlock' \in BOOLEAN /\ numlock_changed' \in BOOLEAN
  <2>1. /\ capslock \in BOOLEAN /\ capslock_changed \in BOOLEAN
        /\ numlock \in BOOLEAN /\ numlock_changed \in BOOLEAN
    BY DEF Inv, TypeOK
  <2>2. SetLocks(k)
    BY DEF Press
  <2>3. QED
    BY <2>1, <2>2, LocksType
<1>5. event' \subseteq Events /\ deed' \in HotKeys \cup {None} /\ heard' \subseteq Chars
  BY ReportType DEF Press, Inv, TypeOK, States
<1>6. TypeOK'
  BY <1>1, <1>3, <1>4, <1>5 DEF Press, Moved, Inv, TypeOK
<1>7. \A j \in Slots : entry[j] # k
  BY DEF Press, Listed, Holding
<1>8. Listing'
  BY <1>1, <1>2, <1>7 DEF Inv, TypeOK, Listing, OneItemEach
<1>9. ModsExact'
  <2>1. \A m \in Keys : Listed(m)' <=> Listed(m) \/ m = k
    BY <1>1, NoneIsNoKey DEF Listed, Holding, Inv, TypeOK
  <2>2. mods' = IF k \in ModKeys THEN mods \cup {k} ELSE mods
    BY DEF Press
  <2>3. QED
    BY <2>1, <2>2 DEF ModsExact, Inv
<1>10. QED
  BY <1>6, <1>8, <1>9 DEF Inv

(* A step that leaves the items to their keys. *)
LEMMA KeepInv ==
  ASSUME Inv, Moved, UNCHANGED <<entry, mods, locks, use_mods>>,
         NEW s \in States \cup {None}, NEW i \in Slots, entry[i] # None \/ s = None,
         state' = IF s = None THEN state ELSE [state EXCEPT ![i] = s],
         event' \subseteq Events, deed' \in HotKeys \cup {None}, heard' \subseteq Chars
  PROVE  Inv'
<1>1. None \notin States
  BY DEF None, States
<1>2. TypeOK'
  BY <1>1 DEF Inv, TypeOK, Moved, locks, States
<1>3. Listing'
  BY <1>1 DEF Inv, TypeOK, Listing, OneItemEach, States
<1>4. ModsExact'
  BY DEF Inv, ModsExact, Listed, Holding
<1>5. QED
  BY <1>2, <1>3, <1>4 DEF Inv

LEMMA FreeInv ==
  ASSUME Inv, Moved, NEW k \in Keys, Free(k)
  PROVE  Inv'
<1>1. PICK i \in Slots : /\ entry[i] = k
                         /\ entry' = [entry EXCEPT ![i] = None]
                         /\ state' = [state EXCEPT ![i] = "idle"]
  BY DEF Free, Holding
<1>2. mods' = mods \ {k} /\ mods' \subseteq ModKeys
  BY DEF Free, Inv, TypeOK
<1>3. TypeOK'
  BY <1>1, <1>2 DEF Free, NoReport, locks, Moved, Inv, TypeOK
<1>4. Listing'
  BY <1>1 DEF Inv, TypeOK, Listing, OneItemEach
<1>5. ModsExact'
  <2>1. \A m \in Keys : Listed(m)' <=> Listed(m) /\ m # k
    <3>1. \A j \in Slots : entry[j] = k => j = i
      BY <1>1, NoneIsNoKey DEF Inv, Listing, OneItemEach
    <3>2. QED
      BY <1>1, <3>1, NoneIsNoKey DEF Listed, Holding, Inv, TypeOK
  <2>2. QED
    BY <2>1, <1>2 DEF ModsExact, Inv
<1>6. QED
  BY <1>3, <1>4, <1>5 DEF Inv

LEMMA HoldInv ==
  ASSUME Inv, Moved, NEW k \in Keys, Hold(k)
  PROVE  Inv'
<1>1. PICK i \in Slots : entry[i] = k /\ state' = [state EXCEPT ![i] = "hold"]
  BY DEF Hold, Holding
<1>2. event' \subseteq Events /\ deed' \in HotKeys \cup {None} /\ heard' \subseteq Chars
  BY ReportType DEF Hold, Inv, TypeOK, States
<1>3. entry[i] # None /\ "hold" \in States /\ "hold" # None
  BY <1>1, NoneIsNoKey DEF States, None
<1>4. UNCHANGED <<entry, mods, locks, use_mods>>
  BY DEF Hold
<1>5. QED
  BY <1>1, <1>2, <1>3, <1>4, KeepInv

LEMMA ReleaseInv ==
  ASSUME Inv, Moved, NEW k \in Keys, Release(k)
  PROVE  Inv'
<1>1. PICK i \in Slots : entry[i] = k /\ state' = [state EXCEPT ![i] = "released"]
  BY DEF Release, Holding
<1>2. event' \subseteq Events /\ deed' \in HotKeys \cup {None} /\ heard' \subseteq Chars
  BY ReportType DEF Release, Inv, TypeOK, States
<1>3. entry[i] # None /\ "released" \in States /\ "released" # None
  BY <1>1, NoneIsNoKey DEF States, None
<1>4. UNCHANGED <<entry, mods, locks, use_mods>>
  BY DEF Release
<1>5. QED
  BY <1>1, <1>2, <1>3, <1>4, KeepInv

LEMMA QuietInv ==
  ASSUME Inv, Moved, NEW k \in Keys, Rest(k) \/ Wait(k)
  PROVE  Inv'
<1>1. /\ UNCHANGED <<entry, mods, locks, use_mods>> /\ state' = state
      /\ event' = {} /\ deed' = None /\ heard' = heard
  BY DEF Rest, Wait, NoReport
<1>2. 1 \in Slots
  BY DEF Slots
<1>3. event' \subseteq Events /\ deed' \in HotKeys \cup {None} /\ heard' \subseteq Chars
  BY <1>1 DEF Inv, TypeOK
<1>4. QED
  BY <1>1, <1>2, <1>3, KeepInv

LEMMA InvStep == Inv /\ [Next]_vars => Inv'
<1> SUFFICES ASSUME Inv, [Next]_vars
             PROVE  Inv'
  OBVIOUS
<1>1. CASE Scan
  <2>1. Moved
    BY <1>1, ScanMoves DEF Inv
  <2>2. PICK k \in Keys : \/ Press(k) \/ Rest(k) \/ Hold(k) \/ Wait(k)
                          \/ Release(k) \/ Free(k)
    BY <1>1, ScanMoves DEF Inv
  <2>3. QED
    BY <2>1, <2>2, PressInv, HoldInv, ReleaseInv, QuietInv, FreeInv
<1>2. ASSUME NEW k \in Keys, Touch(k)
      PROVE  Inv'
  BY <1>2 DEF Touch, locks, Inv, TypeOK, Listing, OneItemEach, ModsExact,
              Listed, Holding
<1>3. CASE WriteCfg
  BY <1>3 DEF WriteCfg, locks, Inv, TypeOK, Listing, OneItemEach, ModsExact,
              Listed, Holding
<1>4. CASE UNCHANGED vars
  BY <1>4 DEF vars, locks, Inv, TypeOK, Listing, OneItemEach, ModsExact,
              Listed, Holding
<1>5. QED
  BY <1>1, <1>2, <1>3, <1>4 DEF Next

LEMMA Invariance == Spec => []Inv
<1>1. QED
  BY InvInit, InvStep, PTL DEF Spec

(* The items, the locks and the reports keep their types. *)
THEOREM TypeCorrect == Spec => []TypeOK
<1>1. Inv => TypeOK
  BY DEF Inv
<1>2. QED
  BY <1>1, Invariance, PTL

(* No key ever has two items, however the list fills and empties
   (keyboard.ino:317-343). *)
THEOREM OneItem == Spec => []OneItemEach
<1>1. Inv => OneItemEach
  BY DEF Inv, Listing
<1>2. QED
  BY <1>1, Invariance, PTL

(* The modifiers are exactly the modifier keys that have an item, whatever
   the host does with CFG_USE_MODS (keyboard.ino:212, 272). *)
THEOREM ModifiersExact == Spec => []ModsExact
<1>1. Inv => ModsExact
  BY DEF Inv
<1>2. QED
  BY <1>1, Invariance, PTL

-----------------------------------------------------------------------------
(* Raw scancodes *)

IsDown(i) == state[i] \in {"pressed", "hold"}

Tally == heard = ListedDown

RawInv == Inv /\ Tally

LEMMA HeardMeans ==
  Tally <=>
    \A c : c \in heard <=> \E i \in Slots : IsDown(i) /\ c = <<entry[i], "base">>
BY DEF Tally, ListedDown, IsDown

(* Each transition reports what it does to its item, and a release or a hold
   is reported of a key that was heard. *)
LEMMA RawScan ==
  ASSUME RawInv, Inv', ~use_mods', NEW k \in Keys,
         \/ Press(k) \/ Rest(k) \/ Hold(k) \/ Wait(k) \/ Release(k) \/ Free(k)
  PROVE  /\ Tally'
         /\ \A e \in event' : e[2] \in {"released", "hold"} => e[1] \in heard
<1> DEFINE c == <<k, "base">>
<1>2. \A d : d \in heard <=> \E j \in Slots : IsDown(j) /\ d = <<entry[j], "base">>
  BY HeardMeans DEF RawInv
<1>3. ASSUME NEW i \in Slots, entry[i] = k
      PROVE  \A j \in Slots : entry[j] = k => j = i
  BY <1>3, NoneIsNoKey DEF RawInv, Inv, Listing, OneItemEach
<1>4. entry \in [Slots -> Keys \cup {None}] /\ DOMAIN state = Slots
  BY DEF RawInv, Inv, TypeOK
<1>5. CASE Press(k)
  <2>1. PICK i \in Slots : /\ entry[i] = None
                           /\ entry' = [entry EXCEPT ![i] = k]
                           /\ state' = [state EXCEPT ![i] = "pressed"]
    BY <1>5 DEF Press, Room
  <2>2. state[i] = "idle"
    BY <2>1 DEF RawInv, Inv, Listing
  <2>3. /\ heard' = heard \cup {c}
        /\ \E x \in States : event' = {<<c, x>>} /\ x = "pressed"
    BY <1>5, RawReport DEF Press, States
  <2>4. \A d : d \in heard' <=> \E j \in Slots : IsDown(j)' /\ d = <<entry'[j], "base">>
    <3>1. \A j \in Slots : j # i => entry'[j] = entry[j] /\ (IsDown(j)' <=> IsDown(j))
      BY <2>1, <1>4 DEF IsDown
    <3>2. entry'[i] = k /\ IsDown(i)' /\ ~IsDown(i)
      BY <2>1, <2>2, <1>4 DEF IsDown
    <3>3. QED
      BY <3>1, <3>2, <2>3, <1>2
  <2>5. Tally'
    BY <2>4 DEF Tally, ListedDown, IsDown
  <2>6. QED
    BY <2>3, <2>5
<1>6. CASE Rest(k) \/ Wait(k)
  <2>1. UNCHANGED <<entry, state, heard>> /\ event' = {}
    BY <1>6 DEF Rest, Wait, NoReport
  <2>2. QED
    BY <2>1 DEF RawInv, Tally, ListedDown
<1>7. CASE Hold(k)
  <2>1. PICK i \in Slots : /\ entry[i] = k /\ IsDown(i)
                           /\ state' = [state EXCEPT ![i] = "hold"]
                           /\ entry' = entry
    BY <1>7 DEF Hold, Holding, IsDown
  <2>2. c \in heard
    BY <2>1, <1>2
  <2>3. /\ heard' = heard \cup {c}
        /\ \E x \in States : event' = {<<c, x>>}
    BY <1>7, RawReport DEF Hold, States
  <2>4. \A j \in Slots : IsDown(j)' <=> IsDown(j)
    BY <2>1, <1>4 DEF IsDown
  <2>5. \A d : d \in heard' <=> \E j \in Slots : IsDown(j)' /\ d = <<entry'[j], "base">>
    BY <2>1, <2>2, <2>3, <2>4, <1>2
  <2>6. Tally'
    BY <2>5 DEF Tally, ListedDown, IsDown
  <2>7. QED
    BY <2>2, <2>3, <2>6
<1>8. CASE Release(k)
  <2>1. PICK i \in Slots : /\ entry[i] = k /\ IsDown(i)
                           /\ state' = [state EXCEPT ![i] = "released"]
                           /\ entry' = entry
    BY <1>8 DEF Release, Holding, IsDown
  <2>2. c \in heard
    BY <2>1, <1>2
  <2>3. /\ heard' = heard \ {c}
        /\ \E x \in States : event' = {<<c, x>>}
    BY <1>8, RawReport DEF Release, States
  <2>4. \A d : d \in heard' <=> \E j \in Slots : IsDown(j)' /\ d = <<entry'[j], "base">>
    <3>1. \A j \in Slots : j # i => (IsDown(j)' <=> IsDown(j)) /\ entry[j] # k
      BY <2>1, <1>3, <1>4 DEF IsDown
    <3>2. ~IsDown(i)'
      BY <2>1, <1>4 DEF IsDown
    <3>3. QED
      BY <3>1, <3>2, <2>1, <2>3, <1>2
  <2>5. Tally'
    BY <2>4 DEF Tally, ListedDown, IsDown
  <2>6. QED
    BY <2>2, <2>3, <2>5
<1>9. CASE Free(k)
  <2>1. PICK i \in Slots : /\ entry[i] = k /\ ~IsDown(i)
                           /\ entry' = [entry EXCEPT ![i] = None]
                           /\ state' = [state EXCEPT ![i] = "idle"]
    BY <1>9 DEF Free, Holding, IsDown
  <2>2. heard' = heard /\ event' = {}
    BY <1>9 DEF Free, NoReport
  <2>3. \A d : d \in heard' <=> \E j \in Slots : IsDown(j)' /\ d = <<entry'[j], "base">>
    <3>1. \A j \in Slots : j # i => entry'[j] = entry[j] /\ (IsDown(j)' <=> IsDown(j))
      BY <2>1, <1>4 DEF IsDown
    <3>2. ~IsDown(i)'
      BY <2>1, <1>4 DEF IsDown
    <3>3. QED
      BY <3>1, <3>2, <2>1, <2>2, <1>2
  <2>4. Tally'
    BY <2>3 DEF Tally, ListedDown, IsDown
  <2>5. QED
    BY <2>2, <2>4
<1>10. QED
  BY <1>5, <1>6, <1>7, <1>8, <1>9

\* A release, and a hold that is reported as one, is of a character heard.
Match ==
  at' # at => \A e \in event' : e[2] \in {"released", "hold"} => e[1] \in heard

LEMMA RawStep == RawInv /\ [Next]_vars /\ ~use_mods' => RawInv' /\ Match
<1> SUFFICES ASSUME RawInv, [Next]_vars, ~use_mods'
             PROVE  RawInv' /\ Match
  OBVIOUS
<1>1. Inv'
  BY InvStep DEF RawInv
<1>2. CASE Scan
  <2>1. PICK k \in Keys : \/ Press(k) \/ Rest(k) \/ Hold(k) \/ Wait(k)
                          \/ Release(k) \/ Free(k)
    BY <1>2, ScanMoves DEF RawInv, Inv
  <2>2. QED
    BY <1>1, <2>1, RawScan DEF RawInv, Match
<1>3. CASE UNCHANGED <<at, entry, state, heard>>
  BY <1>1, <1>3 DEF RawInv, Tally, ListedDown, Match
<1>4. QED
  BY <1>2, <1>3 DEF Next, Touch, WriteCfg, vars

LEMMA RawInit == Init => RawInv
BY InvInit DEF Init, RawInv, Tally, ListedDown

(* As long as the scancodes are raw, the host has been told of exactly the keys
   the list has pressed or held. *)
THEOREM HeardExact == Spec => HeardIsListed
<1>1. RawInv => heard = ListedDown
  BY DEF RawInv, Tally
<1>2. RawInv /\ [Next]_vars /\ ~use_mods' => RawInv'
  BY RawStep
<1>3. QED
  BY <1>1, <1>2, RawInit, PTL DEF Spec, HeardIsListed

(* As long as the scancodes are raw, every release the scanner reports, and
   every hold it reports as one, is of a character reported pressed and not
   released since: the driver can pair them by scancode (keyboard.ino:194-203). *)
THEOREM ReleasesMatch == Spec /\ []~use_mods => [][Match]_vars
<1>1. RawInv /\ [Next]_vars /\ ~use_mods' => RawInv'
  BY RawStep
<1>2. RawInv /\ [Next]_vars /\ ~use_mods' => [Match]_vars
  BY RawStep
<1>3. QED
  BY <1>1, <1>2, RawInit, PTL DEF Spec
=============================================================================
