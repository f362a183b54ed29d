SPECIFICATION Spec
CONSTANTS
  U32Max = 500
  I64Max = 3000
  MaxWatermark = 2
  Workers = {w1, w2}
  MetricRoutes <- MCRoutes
  BucketBounds <- MCBounds
  Durations = {1, 3}
  Configs <- MCConfigs
  Inputs <- MCInputs
  Clock = {1, 2, 3}
  TransformDocuments <- MCTransformDocuments
  UploadDocuments <- MCUploadDocuments
  Images <- MCImages
  MaxRequests <- MCMaxRequests
SYMMETRY Symmetric
INVARIANT GifServedAsPng
CHECK_DEADLOCK FALSE
