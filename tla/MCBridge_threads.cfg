SPECIFICATION Spec
CONSTANTS
  Units = {u1, u2}
  Handles = {h1, h2}
  None = None
  OutputConfigured = TRUE
  TimeoutFinite = TRUE
INVARIANTS TypeOK NoHandleLeak SessionReady CleanExit
PROPERTIES NoLateCallback PortsFollowInit HardStop SignalStops UnplugNoticed Recovers ImplementsHotswap
