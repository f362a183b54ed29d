SPECIFICATION Spec
CONSTANTS
  ChunkLengths <- MCLengths
  AddressBits <- MCBits
  MaxVersion = 3
  Jobs <- MCJobs
  Urls <- MCUrls
  MaxRedirects = 3
INVARIANTS
  OutputWhole
  NoStrayTemporary
  ExitTells
  TagsAgree
PROPERTIES
  CommandEnds
  PresetsCatchUp
CHECK_DEADLOCK FALSE
