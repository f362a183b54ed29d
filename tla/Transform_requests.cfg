CONSTANTS
  U32Max = 500
  I64Max = 600
  Requests <- MCRequests
  MaxOutput = 16
  MaxDecoded = 20
  MaxWatermark = 4
  TopQuality = 7
  Lengths = {1, 3}
  MaxElements = 4
  MaxNesting = 3
  SvgBuild = TRUE
SPECIFICATION TransformSpec
INVARIANTS
  ShownAsMeant
  BuffersBounded
  PlacedInside
  SanitizedOnce
CHECK_DEADLOCK FALSE
