SPECIFICATION PathSpec
CONSTANTS
  NumVoices = 5
  HasAudioOut = TRUE
  Samples = 1
  Tracks <- MCTracks
  StepCount = 3
  BufferSize = 2
  SamplesPerStep = 3
  ArpSequences <- MCArpSequences
  IndexPeriod = 2
  EmitterNote = 5
INVARIANTS VoicesAccountedFor NotesDoNotPileUp
PROPERTIES NotesAreHeard EnvelopeFollowsNote
