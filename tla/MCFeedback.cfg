SPECIFICATION Spec
CONSTANTS
  Payloads <- SomePayloads
  OtherSysEx <- SomeOthers
  ShortPackets <- SomeShort
  OutputConfigured = TRUE
  MaxMessages = 3
INVARIANTS TypeOK
PROPERTIES ImplementsChannel FrameTried ReadProcReturns
