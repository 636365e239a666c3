CONSTANTS
  Size = 3
  MaxKeys = 6
  IsrPoints = {"idle", "check", "full", "fcheck", "slot", "widx", "load", "store", "fslot", "fwidx", "fload", "fstore"}
  CountReused = FALSE
  OverflowOnValues = {FALSE}
SPECIFICATION Spec
PROPERTIES PopsInOrder
