CONSTANTS
  Items = 2
  MaxHeight = 2
  Path <- MCPath
  MaxDepth = 2
  Slot = {0, 1}
  MaxHops = 6
  Key <- MCKey
  Size <- MCSize
  Reader = {"r"}
  Limit <- MCLimit
  FullPage <- MCFullPage
  MaxGeneration = 6
  MaxClaims = 2
SPECIFICATION Spec
INVARIANT IndexAgrees CatalogAgrees PublishedValidates ChainSeeks RefusedOnlyForCause PagesTile
PROPERTY FollowerCatchesUp
CHECK_DEADLOCK FALSE
