SPECIFICATION Spec
CONSTANTS
  Units = {u1, u2}
  Handles = {h1, h2}
  None = None
  Bad = Bad
  CommandLines <- Lines
  Endpoints <- Addresses
INVARIANTS TypeOK OptionsUsable LastFlagWins HandleClosed TransfersOnClaim SuccessMeansWritten
PROPERTIES Ends
CHECK_DEADLOCK FALSE
