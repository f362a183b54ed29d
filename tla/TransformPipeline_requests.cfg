SPECIFICATION Spec
CONSTANTS
  r1 = r1
  r2 = r2
  file = file
  url = url
  up = up
  png = png
  mark = mark
  Requests = {r1, r2}
  Asked <- MCAsked
  Sources = {file, url}
  Remote = {url}
  Uploads = {up}
  Formats = {png, webp}
  Unset = Unset
  Wms = {mark}
  NoWm = NoWm
  Svgs = {up}
  PixelsOf <- MCPixelsOf
  PixelLimits = {1, 2}
  CacheOn = TRUE
  Limit = 1
  WorkerCount = 2
  NoBody = NoBody
  MaxGen = 2
  MaxRestarts = 1
INVARIANTS AnswersTheRequest NeverStale CounterExact SlotBound
SYMMETRY MCSymmetryTwo
PROPERTIES PolicyApplied
CHECK_DEADLOCK FALSE
