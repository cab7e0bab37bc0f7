SPECIFICATION PagingSpec
CONSTANTS
  Key = {1, 2}
  Account = {a, b}
  NoAccount = NoAccount
  Source = {y1}
  NoSource = NoSource
  MaxSlot = 2
  MayRegress = TRUE
  Client = {c1, c2}
  Limit = {1}
  MaxPageSize = 1
  RetainFor = 1
  MaxTime = 0
SYMMETRY Symmetry
INVARIANT PagesFromOneSnapshot
