SPECIFICATION Spec
CONSTANTS
  ChunkLengths <- MCLengths
  AddressBits <- MCBits
  MaxVersion = 3
  Jobs <- MCJobs
  Urls <- MCUrls
  MaxRedirects = 3
INVARIANT NoPanic
CHECK_DEADLOCK FALSE
