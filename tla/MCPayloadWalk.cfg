SPECIFICATION Spec
CONSTANTS
  Sizes <- MCSizes
  EncSizes <- MCEncSizes
  Lens <- MCLens
  SizeT = 65536
INVARIANTS
  ReadsInBuffer
PROPERTIES
  ReadsInPayload
  Terminates
