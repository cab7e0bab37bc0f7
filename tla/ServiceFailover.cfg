SPECIFICATION FairSpec
CONSTANTS
  Key = {k1}
  Account = {1, 2}
  NoAccount = NoAccount
  Source = {0, 1}
  NoSource = NoSource
  MaxSlot = 2
  Version = {1, 2}
  SourceCount = 2
  StreamCapacity = 1
  Rpc = {"level"}
  MaxFaults = 2
INVARIANTS TypeOK ServesTheLedger ReadyMeansServing OneValidator
PROPERTIES ImplementsServedLedger CatchesUp
