\* Three guards dropped newest first, or two and then in any order, without
\* values; one guard, which may be a pair, with values: of a propagated cached
\* key, which v2 is of the wrong type for, and of a local-only key.
CONSTANTS
  cachedKey = cachedKey
  localKey = localKey
  v1 = v1
  v2 = v2
  n1 = n1
  n2 = n2
  NoVal = NoVal
  NoName = NoName
  Empty = Empty
  Inbound <- MCInbound
  Keys = {cachedKey, localKey}
  Vals = {v1, v2}
  Names = {n1, n2}
  CachedKeys = {cachedKey}
  LocalKeys = {localKey}
  ValidVals <- MCValidVals
  Boxes = {b1}
  MaxScopeDepth = 2
  MaxChainLen = 2
  MaxGuards = 3
  MaxStray = 1
  MaxValued = 1
  Pushed <- MCPushed
  MaxDepth = 4
SPECIFICATION Spec
INVARIANTS
  TypeOK
  StoresWellLinked
  NestedGuardsReturnHome
  NestedDropPopsOneScope
  FirstForkIsTransparent
  HopIsTransparent
