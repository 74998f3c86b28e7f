SPECIFICATION Spec
CONSTANTS
  Reports <- Fader
  ByteMappings <- ShippedBytes
  BitMappings <- ShippedBits
  EmitUnmappedByte = TRUE
  EmitUnmappedBit = TRUE
  BaseChannel = 0
  InputDeadzone = 1
  DecodeMode = "byte"
INVARIANTS HostWithinDeadzone
