SPECIFICATION HardwareSystemSpec
CONSTANTS
  Ticks = 12
  Offsets = {0}
  NumRings = 1
  InitialSubdivision <- MCInitialSubdivision
  MaxSubdivision = 4
  MaxTimelinePoints = 12
  MaxActivePoints = 12
  MaxShapes = 1
  Inbox <- MCInbox
  Pins = {1, 3}
  Role <- ButtonRole
  Switch = 99
  Debounce = 1
  SwitchDebounce = 1
  Movable <- MovablePins
  Ways <- NoWays
  Step = 1
  PotReadings <- PotValues
  Deadband = 8
  PotMin = 2
  PotMax = 4
  PotRing = 0
  Lines <- CommandLines
  InitialMode = "toggle"
  Bounce = 0
  MinHold = 1
  GuiSends <- GuiMode
  MaxPending = 2
INVARIANTS ServiceMirrorsEngine PotSetsShape
