\* Panics, in and outside of windows, and cancellations anywhere: one thread, two
\* futures confined to it.
CONSTANTS
  w1 = w1
  f1 = f1
  f2 = f2
  v1 = v1
  NoVal = NoVal
  NoName = NoName
  NoStore = NoStore
  NoFuture = NoFuture
  Anywhere = Anywhere
  Keys = {k1}
  Vals = {v1}
  Names = {n1}
  CachedKeys = {}
  LocalKeys = {}
  ValidVals <- MCValidVals
  Inbound = {}
  MaxScopeDepth = 2
  MaxChainLen = 0
  Workers = {w1}
  Futures = {f1, f2}
  Home <- MCConfined
  MaxGuards <- MCFuturesGuards
  MaxDepth = 2
SPECIFICATION Spec
INVARIANT FailuresStayLocal
SYMMETRY Symmetry
