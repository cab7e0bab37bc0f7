SPECIFICATION FairSpec
CONSTANTS
  Key = {k1}
  NoAccount = NoAccount
  Malformed = Malformed
  MaxSlot = 3
  SourceCount = 2
  ServerCount = 2
  BufferCapacity = 2
  Servers = {"exact", "paged"}
  MaxFaults = 1
INVARIANTS TypeOK ServesBetween GetIsNotStale ReadyMeansFollowing
PROPERTIES CatchesUp ImplementsServedLedger
