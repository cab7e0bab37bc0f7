SPECIFICATION StreamSpec
CONSTANTS
  Key = {1, 2, 3}
  Account = {a}
  NoAccount = NoAccount
  Source = {y}
  NoSource = NoSource
  MaxSlot = 2
  MayRegress = FALSE
  ChunkAccounts = 2
  Large = {2}
  ChannelCapacity = 1
INVARIANTS TypeOK StreamTypeOK ReadIsPublished HealthNamesSource AcceptedIsCaptured RejectedWasCut
PROPERTIES DownloadTerminates PublishIsAtomic
