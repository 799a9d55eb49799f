SPECIFICATION SessionSpec
CONSTANTS
  A = A
  B = B
  Path = {"runtime.bin", "patched.bin"}
  Vendor = "runtime.bin"
  PAGE_COUNT = 2
  PAYLOAD_PAGE_SIZE = 2
  PageSize = 2
  PatchId <- MCPatchId
  TagPatch = A
  Version <- MCVersion
  DefaultVersion = 1
  Group <- MCGroup
  NoGroup = "none"
  Blank = ""
  Request <- MCRequest
  Offset = {0, 1, 2, 3}
  Stock <- MCStock
  Guarded <- MCGuarded
  Sites <- MCSites
  Decode <- MCDecode
INVARIANTS
  OnlyWholeImages
  ManifestHonest
  RoundTripsHere
  OffsetsAgreeHere
  StripAgreesHere
  ExtractsWholeHere
PROPERTIES
  ShelfSpec
  OutputAsAsked
