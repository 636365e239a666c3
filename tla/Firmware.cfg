\* More keys than items, CFG_USE_MODS set and cleared at any time; a battery that
\* is empty, low or missing; three events of the power chip and the long press.
CONSTANTS
  Order <- ModesOrder
  ListSize = 2
  UseModsValues = {TRUE, FALSE}
  NoBattery = NoBattery
  Percents = {0, 20, NoBattery}
  LedModes = {"on"}
  Raised = {"batRemove", "shortPress", "longPress", "chargeStart"}
  MaxPending = 2
  Start = 2
  Timeout = 2
  Wrap = 16
  MaxTime = 9
SPECIFICATION FirmwareSpec
INVARIANTS OneItemEach ModsExact LedsFollowDriver IrqNotStuck ResetsApart
PROPERTIES HeardIsListed ReleaseReported PowerIsCut
