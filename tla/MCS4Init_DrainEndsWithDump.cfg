SPECIFICATION Spec
CONSTANTS
  Script <- S4Script
INVARIANTS DrainEndsWithDump
