\* Interrupts held off over each read-modify-write of the enqueue.
CONSTANTS
  Size = 3
  MaxKeys = 6
  IsrPoints = {"idle", "check", "full", "fcheck", "slot", "widx", "load"}
  CountReused = FALSE
  OverflowOnValues = {TRUE, FALSE}
SPECIFICATION FairSpec
PROPERTIES Implements EventuallyPopped
