\* TAB and LEFT share KEY_HOME on the Fn layer; two arrows, a button, an action.
CONSTANTS
  Keys = {"TAB", "LEFT", "UP", "LBRACKET", "COMMA"}
  Modifiers = {"LSHIFT"}
SPECIFICATION FairSpec
INVARIANTS ShiftOnlyWhileHeld NoStuckKey HeldIsDown MouseOwned
PROPERTY PointerKeepsMoving
