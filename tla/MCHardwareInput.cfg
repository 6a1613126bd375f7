SPECIFICATION HardwareSpec
CONSTANTS
  Pins = {1}
  Role <- ButtonRole
  Switch = 99
  Debounce = 3
  SwitchDebounce = 3
  Movable <- AllButtons
  Ways <- BothWays
  Step = 1
  PotReadings <- PotEnds
  Deadband = 8
  PotMin = 2
  PotMax = 4
  PotRing = 0
  Lines <- NoLines
  InitialMode = "toggle"
  Bounce = 2
  MinHold = 5
INVARIANTS OneClickPerPress StepsFollowKnob
