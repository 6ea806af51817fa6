\* Panics caught at any level; re-entrant calls of every kind, five frames deep.
CONSTANTS
  Keys = {k1}
  Vals = {v1}
  NoVal = NoVal
  Names = {n1}
  NoName = NoName
  CachedKeys = {}
  MaxScopeDepth = 1
  MaxChainLen = 0
  Busy = Busy
  MaxFrames = 5
SPECIFICATION Spec
INVARIANTS
  TypeOK
  HomeComesBack
  ContextOutsideWindows
  DepthCountsOpenBlocks
