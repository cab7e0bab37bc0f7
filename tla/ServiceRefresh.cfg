SPECIFICATION Spec
CONSTANTS
  Key = {k1}
  Account = {1, 2, 3}
  NoAccount = NoAccount
  Source = {0}
  NoSource = NoSource
  MaxSlot = 3
  Version = {1}
  SourceCount = 1
  StreamCapacity = 3
  Rpc = {"level", "paged", "lagging"}
  MaxFaults = 1
INVARIANT ServesTheLedger
PROPERTIES RefreshKeepsStaged ServedSlotMonotone ImplementsServedLedger KeepsWriterContract
