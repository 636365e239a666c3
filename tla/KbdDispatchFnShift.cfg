\* One key that needs the shift supplement, one on the Fn layer.
CONSTANTS
  Keys = {"A", "LEFT"}
  Modifiers = {}
SPECIFICATION Spec
PROPERTIES
  FnWithoutShift
