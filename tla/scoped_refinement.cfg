\* The refinement of ScopeStack: every constant as in scoped_any_order, but one
\* name, which is also that of the remote scope.
CONSTANTS
  cachedKey = cachedKey
  plainKey = plainKey
  v1 = v1
  v2 = v2
  n1 = n1
  n2 = n1
  NoVal = NoVal
  NoName = NoName
  NoGuard = NoGuard
  NoStore = NoStore
  Keys = {cachedKey, plainKey}
  Vals = {v1, v2}
  Names = {n1}
  CachedKeys = {cachedKey}
  MaxScopeDepth = 2
  MaxChainLen = 2
  MaxGuards = 3
  RemoteChains <- MCRemoteChains
  Parents <- MCParents
SPECIFICATION Spec
PROPERTY ImplementsScopeStack
SYMMETRY Symmetry
