SPECIFICATION Spec
CONSTANTS
  Reports <- ControlsAndCut
  ByteMappings <- MoreBytes
  BitMappings <- MoreBits
  EmitUnmappedByte = FALSE
  EmitUnmappedBit = TRUE
  BaseChannel = 15
  InputDeadzone = 0
  DecodeMode = "hybrid"
INVARIANTS TypeOK ViewExact
PROPERTIES EveryChangeReported
