SPECIFICATION FairSpec
CONSTANTS
  PANIC_BEEPS = 2
  SleepTicks = 3
  Exceptions = {"abort"}
PROPERTY
  EveryPanicHalts
