\* Guards dropped in any order; two real scopes above the root, the third and
\* fourth push are dead scopes.
CONSTANTS
  cachedKey = cachedKey
  plainKey = plainKey
  v1 = v1
  v2 = v2
  n1 = n1
  n2 = n2
  NoVal = NoVal
  NoName = NoName
  NoGuard = NoGuard
  NoStore = NoStore
  Keys = {cachedKey, plainKey}
  Vals = {v1, v2}
  Names = {n1, n2}
  CachedKeys = {cachedKey}
  MaxScopeDepth = 2
  MaxChainLen = 2
  MaxGuards = 4
  RemoteChains <- MCRemoteChains
  Parents <- MCParents
SPECIFICATION Spec
INVARIANTS
  TypeOK
  ChainMatchesDepth
  OneGuardPerScope
  GuardRestoresContext
  CachedReadsAreLocal
  CollectAgreesWithLookup
  NewestScopesVisible
  NewerGuardsAreDeeper
  PopMatchesLoop
PROPERTY StaleGuardIsInert
SYMMETRY Symmetry
