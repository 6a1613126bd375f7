SPECIFICATION SessionSpec
CONSTANTS
  Ids <- MCIds
  FirstGraph <- MCGraph
  FirstType <- MCType
  FirstId = 31
  TypedIds <- MCTypedIds
  TypedPairs <- MCTypedPairs
  CommandRoom = 3
  EventRoom = 4
  MaxTyped = 2
PROPERTIES DeletesWhatIsNamed
CHECK_DEADLOCK FALSE
