SPECIFICATION FairSpec
CONSTANTS
  Machines <- MCMachines
  MaxRecords = 1
  Ids = {0, 1}
PROPERTIES PanicsOnMismatch
