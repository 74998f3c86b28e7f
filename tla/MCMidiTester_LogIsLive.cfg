SPECIFICATION Spec
CONSTANTS
  CCs = {"knob"}
  Notes = {"pad"}
  Other = "sysex"
  None = "none"
  RuleSet <- SomeRules
  Batch = 2
  MaxQueue = 2
  MaxRules = 2
CHECK_DEADLOCK FALSE
INVARIANTS LogIsLive
