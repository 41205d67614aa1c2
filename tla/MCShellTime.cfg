SPECIFICATION FairSpec
CONSTANTS
  Letters = {"f", "r"}
  CR = "CR"
  BS = "BS"
  ZERO = "ZERO"
  Commands <- MCWithTime
  BufferSize = 3
  IndexRange = 4
  FifoSize = 2
  MaxKeys = 4
PROPERTY
  EveryPromptReturns
