SPECIFICATION FetchSpec
CONSTANTS
  Key = {1, 2, 3}
  NoAccount = NoAccount
  MaxSlot = 3
  PageSize = 1
INVARIANTS FetchTypeOK FetchedIsFetchable
PROPERTY FetchEnds
