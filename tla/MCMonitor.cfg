SPECIFICATION Spec
CONSTANTS
  Reports <- Moves
  ByteMappings <- ShippedBytes
  BitMappings <- ShippedBits
  EmitUnmappedByte = TRUE
  EmitUnmappedBit = TRUE
  BaseChannel = 15
  InputDeadzone = 0
  DecodeMode = "byte"
  RawSysex = TRUE
  MapBytes = 130
  MapBases = {1, 16}
  MaxQueue = 2
INVARIANTS TypeOK MapFollows RawExact
