\* The bus never fails and nobody writes sysfs.
CONSTANTS
  SysfsLevels = {}
  Failures = FALSE
SPECIFICATION Spec
INVARIANTS
  FlashRestores
