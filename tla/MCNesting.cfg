CONSTANTS
  Schema   <- MCSchema
  Data     <- MCData
  Compiled <- MCCompiled
  Doc      <- MCDoc
  Conforms <- MCConforms
  Calls    <- OuterCalls
  NestedCalls <- InnerCalls
  LongMax = 20
  IntMax = 2
  MaxDepth = 3
  MaxSessions = 2
SPECIFICATION FairSpec
INVARIANT IInv PathInv AnswerInv FlagIffCatch QuietInsideIsValid ThrowOwnCatch
PROPERTY KeepsPromise CallsEnd
