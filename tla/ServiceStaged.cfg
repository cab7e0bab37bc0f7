SPECIFICATION Spec
CONSTANTS
  Key = {k1}
  Account = {1, 2}
  NoAccount = NoAccount
  Source = {0}
  NoSource = NoSource
  MaxSlot = 2
  Version = {1}
  SourceCount = 1
  StreamCapacity = 2
  Rpc = {"lagging"}
  MaxFaults = 0
PROPERTY RefreshNeverLoses
