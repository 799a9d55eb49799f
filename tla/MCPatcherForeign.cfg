SPECIFICATION ForeignSpec
CONSTANTS
  Hands = Hands
  Fast = Fast
  Gentle = Gentle
  Tag = Tag
  Unknown = Unknown
  Blank = Blank
  Pulse = Pulse
  NoGroup = NoGroup
  PatchId <- MCPatchId
  TagPatch = Tag
  Version <- MCVersion
  DefaultVersion = 1
  Group <- MCGroup
  Request <- MCForeignRequest
  Foreign <- MCForeign
  Offset <- MCOffset
  Stock <- MCStock
  Guarded <- MCGuarded
  PageSize = 4
  Sites <- MCSites
  Decode <- MCDecode
INVARIANTS
  ReportTruthful
PROPERTIES
  NoBlindWrite
