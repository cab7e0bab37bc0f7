SPECIFICATION Spec
CONSTANTS
  Key = {k1}
  NoAccount = NoAccount
  Malformed = Malformed
  MaxSlot = 2
  SourceCount = 2
  ServerCount = 2
  BufferCapacity = 2
  Servers = {"exact"}
  MaxFaults = 0
PROPERTY SessionEndsByFault
