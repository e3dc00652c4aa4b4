SPECIFICATION Spec
CONSTANTS
  Heroes = {1, 2, 3, 4, 5, 6}
  Steps <- ShortSequence
  Snapshots <- PatchSnapshots
INVARIANTS
  TypeOK
  HistoryTellsAll
  CompleteIsFull
PROPERTIES
  OracleExact
  KeepsPromise
