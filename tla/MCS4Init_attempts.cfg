SPECIFICATION Spec
CONSTANTS
  Script <- S4Script
INVARIANTS TypeOK LedNeverDangling SuccessMeansAcked DrainKnown
PROPERTIES InPendingFirst ImplementsHandshake
