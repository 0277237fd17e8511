CONSTANTS
  Schema   <- MCSchema
  Data     <- MCData
  Compiled <- MCCompiled
  Doc      <- MCDoc
  Conforms <- MCConforms
  Calls    <- AllCalls
  NestedCalls = {}
  LongMax = 20
  IntMax = 2
  MaxDepth = 5
  MaxSessions = 1
SPECIFICATION Spec
INVARIANT TypeOK DepthAccounted ErrorsLocated SlotsWritten
PROPERTY KeepsPromise
