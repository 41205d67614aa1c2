SPECIFICATION FairSpec
CONSTANTS
  Machines <- MCMachines
  MaxRecords = 4
  Ids = {0}
INVARIANTS TablesTrusted RecordsKept EntriesInController OverridesTakenOnce
PROPERTIES SoundEnds
