SPECIFICATION FairSpec
CONSTANTS
  Senders = {gui, hw, other}
  Reader = reader
  MaxSends = 2
  MayStop = TRUE
INVARIANTS NoStrandedSender
PROPERTIES RefinesFifo SendReturns EventuallyDelivered StopJoins
CHECK_DEADLOCK FALSE
