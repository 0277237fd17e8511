CONSTANTS
  Value <- MCValue
  Ruby <- MCRuby
  Pieces <- MCPieces
  Unescape <- MCUnescape
  JoinDoc <- MCJoinDoc
  Unparsable = {" "}
  BadRegexp = {"("}
  CustomFormat = {"mine"}
  TmpSchema = "tmp"
  Digits <- MCDigits
  Height <- MCHeight
  Schemas <- EverySchema
  StructIds <- MCStructIds
  MaxAttempts = 2
SPECIFICATION CFairSpec
INVARIANT CompileTypeOK TreeInv TreesApart LiveStructs FreedOnce NestedFits PublishedComplete RefsLand
PROPERTY UnresolvedMeansMissing CompileEnds CompileIsOneCall
