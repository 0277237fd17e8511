CONSTANTS
  Value <- MCValue
  Ruby <- MCRuby
  Pieces <- MCPieces
  Unescape <- MCUnescape
  JoinDoc <- MCJoinDoc
  Unparsable = {" "}
  BadRegexp = {"("}
  CustomFormat = {"mine"}
  TmpSchema = "tmp"
  Digits <- MCDigits
  Height <- MCHeight
  Schemas <- SpacedSchema
  StructIds <- MCStructIds
  MaxAttempts = 2
SPECIFICATION CSpec
PROPERTY DecodedRefsMatch
