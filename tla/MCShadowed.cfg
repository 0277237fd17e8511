CONSTANTS
  Value <- MCValue
  Ruby <- MCRuby
  Pieces <- MCPieces
  Unescape <- MCUnescape
  JoinDoc <- MCJoinDoc
  Unparsable = {" "}
  BadRegexp = {"("}
  CustomFormat = {"mine"}
  TmpSchema = "tmp"
  Digits <- MCDigits
  Height <- MCHeight
  Schemas <- ShadowedSchema
  StructIds <- MCStructIds
  MaxAttempts = 2
SPECIFICATION CSpec
INVARIANT PointersFindTheirSchema
