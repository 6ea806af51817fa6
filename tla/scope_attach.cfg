\* scope() under attach(), as the framework example of the design does.
CONSTANTS
  w1 = w1
  f1 = f1
  f2 = f2
  v1 = v1
  NoVal = NoVal
  NoName = NoName
  NoStore = NoStore
  NoFuture = NoFuture
  Anywhere = Anywhere
  Keys = {k1}
  Vals = {v1}
  Names = {n1}
  CachedKeys = {}
  LocalKeys = {}
  ValidVals <- MCValidVals
  Inbound <- MCInbound
  MaxScopeDepth = 3
  MaxChainLen = 0
  Workers = {w1}
  Futures = {f1, f2}
  Home <- MCHome
  MaxGuards <- MCMaxGuards
  MaxDepth = 3
SPECIFICATION SpecWithHistory
INVARIANT HandlerSeesSnapshot
