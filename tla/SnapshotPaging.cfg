SPECIFICATION PagingSpec
CONSTANTS
  Key = {1, 2, 3}
  Account = {a}
  NoAccount = NoAccount
  Source = {y1}
  NoSource = NoSource
  MaxSlot = 2
  MayRegress = FALSE
  Client = {c1, c2}
  Limit = {0, 1}
  MaxPageSize = 1
  RetainFor = 2
  MaxTime = 2
SYMMETRY Symmetry
INVARIANTS PagingTypeOK PagesFromOneSnapshot TouchedCursorIsRetained
