\* A fork taken while a forked store is attached.
CONSTANTS
  cachedKey = cachedKey
  localKey = localKey
  v1 = v1
  v2 = v2
  n1 = n1
  n2 = n1
  NoVal = NoVal
  NoName = NoName
  Empty = Empty
  Inbound <- MCInbound
  Keys = {cachedKey, localKey}
  Vals = {v1, v2}
  Names = {n1}
  CachedKeys = {cachedKey}
  LocalKeys = {localKey}
  ValidVals <- MCValidVals
  Boxes = {b1}
  MaxScopeDepth = 1
  MaxChainLen = 1
  MaxGuards = 2
  MaxStray = 2
  MaxValued = 2
  Pushed <- MCPushed
  MaxDepth = 4
SPECIFICATION Spec
INVARIANT ForkIsTransparent
