SPECIFICATION SystemSpec
CONSTANTS
  Ticks = 12
  Offsets = {0}
  NumRings = 3
  InitialSubdivision <- MCInitialSubdivision
  MaxSubdivision = 4
  MaxTimelinePoints = 12
  MaxActivePoints = 12
  MaxShapes = 2
  Inbox <- MCInbox
  RingsPerSet = 2
  MaxSets = 5
  Touches = {"mode", "play", "left"}
  MaxTouches = 3
  Commands <- ModeCommands
  MaxCommands = 2
INVARIANTS PlayStateAgrees ModesAgree
CHECK_DEADLOCK FALSE
