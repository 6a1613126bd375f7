SPECIFICATION SystemSpec
CONSTANTS
  Ticks = 12
  Offsets = {0}
  NumRings = 3
  InitialSubdivision <- MCInitialSubdivision
  MaxSubdivision = 4
  MaxTimelinePoints = 12
  MaxActivePoints = 12
  MaxShapes = 2
  Inbox <- MCInbox
  RingsPerSet = 2
  MaxSets = 5
  Touches = {"dot", "label", "up", "right", "add", "remove", "down", "rotate", "left"}
  MaxTouches = 2
  Commands <- EditCommands
  MaxCommands = 2
INVARIANTS SetsConsistent ShapesAgree MasksAgreeUnlessOvertaken SelectionAgreesUnlessUnannounced
CHECK_DEADLOCK FALSE
