SPECIFICATION FileSpec
CONSTANTS
  MaxLines = 4
  MaxTruncations = 2
INVARIANTS NothingSkipped OnceUnlessOverlapping
