SPECIFICATION Spec
CONSTANTS
  Hands = Hands
  Fast = Fast
  Gentle = Gentle
  Tag = Tag
  Unknown = Unknown
  Blank = Blank
  Pulse = Pulse
  NoGroup = NoGroup
  PatchId <- MCPatchId
  TagPatch = Tag
  Version <- MCVersion
  DefaultVersion = 1
  Group <- MCGroup
  Request <- MCRequest
  Foreign = {}
  Offset <- MCOffset
  Stock <- MCStock
  Guarded <- MCGuarded
  PageSize = 4
  Sites <- MCSites
  Decode <- MCDecode
INVARIANTS
  TypeOK
  BytesExplained
  AcceptsExactly
PROPERTIES
  LedgerSpec
