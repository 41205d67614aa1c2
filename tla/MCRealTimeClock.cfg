SPECIFICATION Spec
CONSTANTS
  Starts <- MCStarts
  LastYear = 2100
  Century = TRUE
  MaxTicks = 3
  Calls <- MCCalls
INVARIANTS
  BannerRight
  EpochRight
  ShownExact
  NotBehind
