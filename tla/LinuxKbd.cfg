\* Every interleaving, failing transfers, sysfs writes; two writers of one file; a
\* FIFO and a batch of two; two arrows of one axis and one of the other.
CONSTANTS
  Parts = {"light", "life", "config", "mouse", "link"}
  SysfsLevels = {255, 100}
  Failures = TRUE
  Writers = {p1, p2}
  LinkKeys = {a, b}
  NoKey = none
  FifoSize = 2
  BatchSize = 2
  ArrowKeys = {"LEFT", "RIGHT", "UP"}
  Unit = 2
  Incs = {1, 3}
  MaxPx = 2
SPECIFICATION LinuxKbdSpec
INVARIANTS RestoreComing FlashRestoresAlone LifecycleSafe ToldAsAsked DownIfHeld
PROPERTIES FlashEnds PointerTrue
