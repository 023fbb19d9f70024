SPECIFICATION Spec
CONSTANTS
  Digits = {"0", "1", "2", "3", "4", "7", "1280"}
  Typing = {"2", "x"}
  MaxRows = 2
  Defaults <- SmallFiles
  MaxEdits = 2
  MaxSaves = 2
INVARIANTS
  UntouchedFormIsHarmless
  ToldIsServed
PROPERTIES
  SessionOffersTheForm
CHECK_DEADLOCK FALSE
