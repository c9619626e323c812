SPECIFICATION Spec
CONSTANTS
  Depth = 2
  Events = 6
  Lossy = FALSE
  Oversized = {5}
INVARIANTS LinkInv ReliableDelivery CreditsConservative
PROPERTIES ChannelSpec AllDelivered HaltReleases
CHECK_DEADLOCK FALSE
