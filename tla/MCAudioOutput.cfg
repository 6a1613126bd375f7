SPECIFICATION AudioSpec
CONSTANTS
  Size = 3
  Item <- MCItem
  Nothing = Nothing
  Capacity = 5
  WriteFrames = 2
  CallbackFrames = 3
  Buffers = 3
INVARIANT FramesInOrder
PROPERTIES QueueIsFifo WriteReturns CloseReturns
CHECK_DEADLOCK FALSE
