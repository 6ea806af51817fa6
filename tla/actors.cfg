\* Two nodes with a thread each, two messages, three ways to set them up.
CONSTANTS
  a = a
  b = b
  k1 = k1
  k2 = k2
  old = old
  new = new
  json = json
  a1 = a1
  b1 = b1
  Keys = {k1, k2}
  Types = {old, new}
  Data <- MCData
  Versions = {1, 2}
  Codecs = {json}
  Bincode = Bincode
  Metas = {}
  NoDecoder = NoDecoder
  NotRegistered = NotRegistered
  Vals <- Value
  NoVal = NoVal
  Names = {a, b}
  Unwritable <- MCUnwritable
  ReadsAs <- MCReadsAs
  MaxContextSize = 2
  NoChain = NoChain
  Failed = Failed
  Nodes = {a, b}
  Threads = {a1, b1}
  NodeOf <- MCNodeOf
  Tasks = {m1, m2}
  Outside = Outside
  Deployments <- MCDeployments
  Settable <- MCSettable
  Foreign <- MCForeign
  NoName = NoName
  NoStore = NoStore
  NoHeader = NoHeader
  NoTask = NoTask
  MaxScopeDepth = 3
  MaxChainLen = 2
SPECIFICATION Spec
INVARIANTS
  TypeOK
  HandlersGetSendersContext
  ContextFollowsCausality
  StrictNodesKeepContext
  ContextLostForAReason
  DecodedIsAttachable
  LocalOnlyStaysHome
  ExtractAgreesWithHandler
SYMMETRY Symmetry
