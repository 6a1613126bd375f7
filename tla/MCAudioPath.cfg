SPECIFICATION AudioPathSpec
CONSTANTS
  Ticks = 4
  Offsets = {0}
  NumRings = 2
  InitialSubdivision <- MCInitialSubdivision
  MaxSubdivision = 2
  MaxTimelinePoints = 1
  MaxActivePoints = 2
  MaxShapes = 1
  Inbox <- MCInbox
  NumVoices = 2
  Note = {0, 1}
  SampleSize <- MCSampleSize
  Grains = 2
  Span = 3
  Watched = 1
INVARIANTS EngineIsSound EditsAreUndone OncePerCycle OneVoicePerNote RingsInStepUnlessEmptied
PROPERTIES EditSelects HitsAreHeard SamplesRingOut
