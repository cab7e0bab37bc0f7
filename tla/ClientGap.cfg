SPECIFICATION Spec
CONSTANTS
  Key = {k1}
  NoAccount = NoAccount
  Malformed = Malformed
  MaxSlot = 3
  SourceCount = 2
  ServerCount = 2
  BufferCapacity = 2
  Servers = {"behind"}
  MaxFaults = 0
INVARIANT HandoffHasNoGap
