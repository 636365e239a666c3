\* The keys alone.
CONSTANTS
  SysfsLevels = {}
SPECIFICATION Spec
PROPERTIES
  UpNeverDims
