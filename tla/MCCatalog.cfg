SPECIFICATION Spec
CONSTANTS
  PatchId <- PATCH_IDS
  TagPatch = "custom_fw_version_tag"
  Version <- MCVersion
  Group <- MCGroup
  NoGroup = ""
  DefaultVersion <- DEFAULT_CUSTOM_FW_VERSION
  Blank = " "
  Request <- MCRequest
  Foreign = {}
  Offset <- MCOffset
  Stock <- MCStock
  Guarded <- MCGuarded
  PageSize <- PAYLOAD_PAGE_SIZE
  Sites <- MCSites
  Decode <- MCDecode
INVARIANTS
  ReportTruthful
PROPERTIES
  PagesCovered
  ChecksumsTellPages
