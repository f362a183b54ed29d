SPECIFICATION Spec
CONSTANTS
  web = web
  odd = odd
  named = named
  junk = junk
  Threads = {t1}
  Urls = {web, odd, named, junk}
  ShapeOf <- MCShapeOf
  Paths = {p}
  BadName = BadName
  Objects = {o}
  Sizes = {1, 2, 3}
  Resolutions = {{}, {"public"}, {"private"}, {"public", "private"}, {"public", "metadata"}}
  SourceLimits = {1, 2}
  MarkLimit = 1
  StoreLimit = 2
  MaxRedirects = 2
  Asked <- MCAsked
  None = None
INVARIANTS SentWhereAllowed HitUnderPolicy WithinLimit WholeBodies
CHECK_DEADLOCK FALSE
