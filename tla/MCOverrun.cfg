CONSTANTS
  Schema   <- MCSchema
  Data     <- MCData
  Compiled <- MCCompiled
  Doc      <- MCDoc
  Conforms <- MCConforms
  Calls    <- ValidateCalls
  NestedCalls = {}
  LongMax = 20
  IntMax = 2
  MaxDepth = 3
  MaxSessions = 1
SPECIFICATION Spec
INVARIANT DeepDocumentsRaise
