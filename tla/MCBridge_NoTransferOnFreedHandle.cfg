SPECIFICATION Spec
CONSTANTS
  Units = {u1, u2}
  Handles = {h1, h2}
  None = None
  OutputConfigured = TRUE
  TimeoutFinite = TRUE
PROPERTIES NoTransferOnFreedHandle
