SPECIFICATION Spec
CONSTANTS
  Key = {k1, k2}
  Account = {a1}
  NoAccount = NoAccount
  Source = {y1}
  NoSource = NoSource
  MaxSlot = 1
  Version = {1, 2}
  MaxAccepted = 3
SYMMETRY Symmetry
INVARIANTS TypeOK NewestWins VisibleIsConfirmed ApplyMatchesLoop Inv
PROPERTIES PublishesCompleteSlot ReplayIsInvisible ImplementsConfirmedView
