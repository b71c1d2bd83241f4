SPECIFICATION Spec
CONSTANTS
  MultipartMax = 9
  MaxNesting = 6
  MaxSvgNesting = 3
  IndexParts <- MCIndexParts
  AttributeParts <- MCAttributeParts
  Replaced <- MCReplaced
  Prefixed <- MCPrefixed
  Upload <- MCUpload
  UploadCap <- MCUploadCap
  TextLimits <- MCTextLimits
  ImageLimits <- MCImageLimits
CHECK_DEADLOCK FALSE
INVARIANTS
  DetectionAgrees
  LimitsAreExact
  NothingIsLost
  CsvRoundTrip
  SvgIsTamed
  SizeIsSound
